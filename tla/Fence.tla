------------------------------- MODULE Fence -------------------------------
(***************************************************************************)
(* What libxshmfence promises of a fence shared by several processes: each *)
(* call takes effect at one moment between its start and its return, an    *)
(* await only at a moment at which the fence is triggered; and a call does *)
(* take effect, an await if the fence stays triggered.                     *)
(***************************************************************************)

CONSTANTS Triggerers,   \* the processes that call xshmfence_trigger
          Resetters,    \* the processes that call xshmfence_reset
          Waiters,      \* the processes that call xshmfence_await
          Mortal        \* the processes that may die in the middle of a call

VARIABLES triggered,    \* the fence
          call,         \* the call each process is in, or "none", or "dead"
          result        \* of the last call of each process: "pending", "ok" or "error"

vars == <<triggered, call, result>>

Procs == Triggerers \cup Resetters \cup Waiters

Allowed(p) == {o \in {"trigger", "reset", "await"} :
                 \/ o = "trigger" /\ p \in Triggerers
                 \/ o = "reset" /\ p \in Resetters
                 \/ o = "await" /\ p \in Waiters}

Calls == {"trigger", "reset", "await", "none", "dead"}

Init ==
    /\ triggered = FALSE
    /\ call = [p \in Procs |-> "none"]
    /\ result = [p \in Procs |-> "ok"]

Call(p) ==
    /\ call[p] = "none"
    /\ \E o \in Allowed(p) : call' = [call EXCEPT ![p] = o]
    /\ result' = [result EXCEPT ![p] = "pending"]
    /\ UNCHANGED triggered

TakeEffect(p) ==
    /\ call[p] \in {"trigger", "reset", "await"}
    /\ result[p] = "pending"
    /\ \/ call[p] = "trigger" /\ triggered' = TRUE
       \/ call[p] = "reset" /\ triggered' = FALSE
       \/ call[p] = "await" /\ triggered /\ UNCHANGED triggered
    /\ result' = [result EXCEPT ![p] = "ok"]
    /\ UNCHANGED call

\* "-1 on error": an await may be interrupted.
Fail(p) ==
    /\ call[p] = "await"
    /\ result[p] = "pending"
    /\ result' = [result EXCEPT ![p] = "error"]
    /\ UNCHANGED <<triggered, call>>

Return(p) ==
    /\ call[p] \in {"trigger", "reset", "await"}
    /\ result[p] # "pending"
    /\ call' = [call EXCEPT ![p] = "none"]
    /\ UNCHANGED <<triggered, result>>

Die(p) ==
    /\ p \in Mortal
    /\ call[p] \in {"trigger", "reset", "await"}
    /\ call' = [call EXCEPT ![p] = "dead"]
    /\ UNCHANGED <<triggered, result>>

Next == \E p \in Procs : Call(p) \/ TakeEffect(p) \/ Fail(p) \/ Return(p) \/ Die(p)

Spec == Init /\ [][Next]_vars

\* An await is owed its effect only if the fence stays triggered.
Fairness == \A p \in Procs : WF_vars(TakeEffect(p)) /\ WF_vars(Return(p))

FairSpec == Spec /\ Fairness

=============================================================================
