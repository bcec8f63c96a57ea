---------------------------- MODULE FencePthread ----------------------------
(***************************************************************************)
(* libxshmfence-1.3/src/xshmfence_pthread.c, the variant this build uses:  *)
(* a value, a flag that says that someone waits, a mutex and a condition   *)
(* variable in memory the processes share.  Taking the mutex is a step of  *)
(* its own, so that a process can die with it.                             *)
(***************************************************************************)
EXTENDS Naturals, FiniteSets

CONSTANTS Triggerers, Resetters, Waiters, Mortal, None

ASSUME MortalAssumption == Mortal \subseteq Triggerers \cup Resetters \cup Waiters

ASSUME NoneAssumption == None \notin Triggerers \cup Resetters \cup Waiters

VARIABLES
    value, waiting,   \* struct xshmfence
    lock,             \* the owner of the mutex, or None
    sleeping,         \* the processes asleep on the condition variable
    call,             \* the function each process is in, or "none", or "dead"
    pc                \* where it is in it: "enter", "locked", "left"

vars == <<value, waiting, lock, sleeping, call, pc>>

Procs == Triggerers \cup Resetters \cup Waiters

Allowed(p) == {o \in {"trigger", "reset", "await"} :
                 \/ o = "trigger" /\ p \in Triggerers
                 \/ o = "reset" /\ p \in Resetters
                 \/ o = "await" /\ p \in Waiters}

InCall(p, o, at) == call[p] = o /\ pc[p] = at

\* xshmfence_query, which reads the value under the mutex
Triggered == value = 1

TypeOK ==
    /\ value \in {0, 1}
    /\ waiting \in {0, 1}
    /\ lock \in Procs \cup {None}
    /\ sleeping \subseteq Procs
    /\ call \in [Procs -> {"trigger", "reset", "await", "none", "dead"}]
    /\ pc \in [Procs -> {"enter", "locked", "asleep", "left"}]

\* xshmfence_init
Init ==
    /\ value = 0
    /\ waiting = 0
    /\ lock = None
    /\ sleeping = {}
    /\ call = [p \in Procs |-> "none"]
    /\ pc = [p \in Procs |-> "left"]

Call(p) ==
    /\ call[p] = "none"
    /\ \E o \in Allowed(p) : call' = [call EXCEPT ![p] = o]
    /\ pc' = [pc EXCEPT ![p] = "enter"]
    /\ UNCHANGED <<value, waiting, lock, sleeping>>

\* pthread_mutex_lock, also the one inside pthread_cond_wait once it is woken
Lock(p) ==
    /\ call[p] \in {"trigger", "reset", "await"}
    /\ pc[p] = "enter"
    /\ lock = None
    /\ lock' = p
    /\ pc' = [pc EXCEPT ![p] = "locked"]
    /\ UNCHANGED <<value, waiting, sleeping, call>>

Unlock(p) == lock' = None

\* pthread_cond_broadcast: the sleepers go on to take the mutex
Woken == [q \in Procs |-> IF q \in sleeping THEN "enter" ELSE pc[q]]

\* Mutant: the flag is cleared, the sleepers are not woken.
TriggerQuietly(p) ==
    /\ InCall(p, "trigger", "locked")
    /\ value' = 1
    /\ waiting' = 0
    /\ pc' = [pc EXCEPT ![p] = "left"]
    /\ Unlock(p)
    /\ UNCHANGED <<sleeping, call>>

\* Mutant: the value counts the triggers.
TriggerCounts(p) ==
    /\ InCall(p, "trigger", "locked")
    /\ value' = value + 1
    /\ waiting' = 0
    /\ sleeping' = {}
    /\ pc' = [Woken EXCEPT ![p] = "left"]
    /\ Unlock(p)
    /\ UNCHANGED call

xshmfence_trigger(p) ==
    /\ InCall(p, "trigger", "locked")
    /\ value' = 1
    /\ IF value = 0 /\ waiting = 1
       THEN /\ waiting' = 0
            /\ sleeping' = {}
            /\ pc' = [Woken EXCEPT ![p] = "left"]
       ELSE /\ pc' = [pc EXCEPT ![p] = "left"]
            /\ UNCHANGED <<waiting, sleeping>>
    /\ Unlock(p)
    /\ UNCHANGED call

\* Mutant: resetting also forgets that someone waits.
ResetForgetsWaiters(p) ==
    /\ InCall(p, "reset", "locked")
    /\ value' = 0
    /\ waiting' = 0
    /\ pc' = [pc EXCEPT ![p] = "left"]
    /\ Unlock(p)
    /\ UNCHANGED <<sleeping, call>>

xshmfence_reset(p) ==
    /\ InCall(p, "reset", "locked")
    /\ value' = 0
    /\ pc' = [pc EXCEPT ![p] = "left"]
    /\ Unlock(p)
    /\ UNCHANGED <<waiting, sleeping, call>>

\* The loop of xshmfence_await: pthread_cond_wait gives up the mutex and
\* sleeps in one step.
xshmfence_await(p) ==
    /\ InCall(p, "await", "locked")
    /\ IF value = 0
       THEN /\ waiting' = 1
            /\ sleeping' = sleeping \cup {p}
            /\ pc' = [pc EXCEPT ![p] = "asleep"]
       ELSE /\ pc' = [pc EXCEPT ![p] = "left"]
            /\ UNCHANGED <<waiting, sleeping>>
    /\ Unlock(p)
    /\ UNCHANGED <<value, call>>

\* Mutant: xshmfence_await does not test the value again (if for while).
SpuriousReturn(p) ==
    /\ p \in sleeping
    /\ sleeping' = sleeping \ {p}
    /\ pc' = [pc EXCEPT ![p] = "left"]
    /\ UNCHANGED <<value, waiting, lock, call>>

\* pthread_cond_wait may return without a broadcast.
SpuriousWake(p) ==
    /\ p \in sleeping
    /\ sleeping' = sleeping \ {p}
    /\ pc' = [pc EXCEPT ![p] = "enter"]
    /\ UNCHANGED <<value, waiting, lock, call>>

Return(p) ==
    /\ call[p] \in {"trigger", "reset", "await"}
    /\ pc[p] = "left"
    /\ call' = [call EXCEPT ![p] = "none"]
    /\ UNCHANGED <<value, waiting, lock, sleeping, pc>>

\* A process dies in the middle of a call; the mutex is not a robust one and
\* stays locked.
Die(p) ==
    /\ p \in Mortal
    /\ call[p] \in {"trigger", "reset", "await"}
    /\ call' = [call EXCEPT ![p] = "dead"]
    /\ sleeping' = sleeping \ {p}
    /\ UNCHANGED <<value, waiting, lock, pc>>

Body(p) == xshmfence_trigger(p) \/ xshmfence_reset(p) \/ xshmfence_await(p)

Next == \E p \in Procs : \/ Call(p) \/ Lock(p) \/ Body(p) \/ Return(p)
                         \/ SpuriousWake(p) \/ Die(p)

Spec == Init /\ [][Next]_vars

\* A process that finds the mutex free again and again gets it.
Fairness == \A p \in Procs :
    SF_vars(Lock(p)) /\ WF_vars(Body(p)) /\ WF_vars(Return(p))

FairSpec == Spec /\ Fairness

-----------------------------------------------------------------------------

\* Nobody sleeps on a triggered fence, and whoever sleeps has left word of it in
\* the flag that xshmfence_trigger goes by, across any resets in between.
NoForgottenSleeper ==
    /\ value = 1 => sleeping = {}
    /\ sleeping # {} => waiting = 1

\* The abstract fence: a call has its result when it has left its critical
\* section for good.
result == [p \in Procs |-> IF pc[p] = "left" THEN "ok" ELSE "pending"]

Promise == INSTANCE Fence WITH triggered <- Triggered

\* The calls behave like atomic operations on one fence, whoever dies and where.
ImplementsFence == Promise!Spec

\* A process has died with the mutex, which is not a robust one.
MutexLost == \E p \in Procs : lock = p /\ call[p] = "dead"

\* No wake-up is lost: an await returns if the fence stays triggered, whatever
\* the other processes do, and a trigger or a reset returns in any case; the one
\* thing that stops them is a process that died with the mutex.
CallsReturn ==
    \A p \in Procs :
        /\ call[p] = "await" ~> (call[p] \in {"none", "dead"} \/ ~Triggered \/ MutexLost)
        /\ call[p] \in {"trigger", "reset"} ~> (call[p] \in {"none", "dead"} \/ MutexLost)

=============================================================================
