-------------------------- MODULE FenceFutexProofs --------------------------
(***************************************************************************)
(* FenceFutex implements the abstract fence, for any processes.            *)
(***************************************************************************)
EXTENDS FenceFutex, TLAPS

\* A process is at the points of the function it is in, and asleep exactly if
\* the kernel has it.
PcInv ==
    /\ \A p \in Procs :
          /\ call[p] = "none" => pc[p] \in {"ok", "error"}
          /\ call[p] = "trigger" => pc[p] \in {"enter", "store", "wake", "ok"}
          /\ call[p] = "reset" => pc[p] \in {"enter", "ok"}
          /\ call[p] = "await" => pc[p] \in {"enter", "wait", "asleep", "ok", "error"}
    /\ \A p \in sleeping : InCall(p, "await", "asleep")
    /\ \A p \in Procs : InCall(p, "await", "asleep") => p \in sleeping

Inv == TypeOK /\ PcInv /\ NoForgottenSleeper

LEMMA InitInv == Init => Inv
BY DEF Init, Inv, TypeOK, PcInv, NoForgottenSleeper, InCall

LEMMA StepInv == Inv /\ [Next]_vars => Inv'
<1> SUFFICES ASSUME Inv, [Next]_vars PROVE Inv'
  OBVIOUS
<1> USE DEF Inv, TypeOK, PcInv, NoForgottenSleeper, InCall, GoTo
<1>1. ASSUME NEW p \in Procs, Call(p) PROVE Inv'
  BY <1>1 DEF Call, Allowed
<1>2. ASSUME NEW p \in Procs, TriggerSwap(p) PROVE Inv'
  BY <1>2 DEF TriggerSwap, Swapped
<1>3. ASSUME NEW p \in Procs, TriggerStore(p) PROVE Inv'
  BY <1>3 DEF TriggerStore
<1>4. ASSUME NEW p \in Procs, TriggerWake(p) PROVE Inv'
  BY <1>4 DEF TriggerWake
<1>5. ASSUME NEW p \in Procs, xshmfence_reset(p) PROVE Inv'
  BY <1>5 DEF xshmfence_reset, Swapped
<1>6. ASSUME NEW p \in Procs, AwaitSwap(p) PROVE Inv'
  BY <1>6 DEF AwaitSwap, Swapped
<1>7. ASSUME NEW p \in Procs, AwaitWait(p) PROVE Inv'
  BY <1>7 DEF AwaitWait
<1>8. ASSUME NEW p \in Procs, Return(p) PROVE Inv'
  BY <1>8 DEF Return
<1>9. ASSUME NEW p \in Procs, Interrupted(p) \/ SpuriousWake(p) PROVE Inv'
  BY <1>9 DEF Interrupted, SpuriousWake
<1>10. ASSUME NEW p \in Procs, Die(p) PROVE Inv'
  BY <1>10 DEF Die
<1>11. CASE UNCHANGED vars
  BY <1>11 DEF vars
<1> QED
  BY <1>1, <1>2, <1>3, <1>4, <1>5, <1>6, <1>7, <1>8, <1>9, <1>10, <1>11 DEF Next, Body

LEMMA Invariant == Spec => []Inv
BY InitInv, StepInv, PTL DEF Spec

\* The word, the sleepers and the program counters keep their types.
THEOREM TypeCorrect == Spec => []TypeOK
<1>1. Inv => TypeOK
  BY DEF Inv
<1> QED
  BY Invariant, <1>1, PTL

\* A process asleep on the fence has left -1 in the word, or a wake-up is coming.
THEOREM SleepersRemembered == Spec => []NoForgottenSleeper
<1>1. Inv => NoForgottenSleeper
  BY DEF Inv
<1> QED
  BY Invariant, <1>1, PTL

-----------------------------------------------------------------------------

LEMMA RefinementInit == Init => Promise!Init
BY DEF Init, Promise!Init, Promise!Procs, Procs, Triggered, result

\* Every step is a step of the abstract fence or leaves it unchanged.
LEMMA RefinementStep == Inv /\ [Next]_vars => [Promise!Next]_Promise!vars
<1> SUFFICES ASSUME Inv, [Next]_vars PROVE Promise!Next \/ UNCHANGED Promise!vars
  OBVIOUS
<1> USE DEF Inv, TypeOK, PcInv, InCall, GoTo, Triggered, result, Promise!vars, Promise!Procs, Procs
<1>1. ASSUME NEW p \in Procs, Call(p) PROVE Promise!Call(p)
  BY <1>1 DEF Call, Allowed, Promise!Call, Promise!Allowed
<1>2. ASSUME NEW p \in Procs, TriggerSwap(p) PROVE Promise!TakeEffect(p) \/ UNCHANGED Promise!vars
  <2>1. CASE v = -1
    BY <1>2, <2>1 DEF TriggerSwap, Swapped
  <2>2. CASE v # -1
    <3>1. v' = 1 /\ pc' = [pc EXCEPT ![p] = "ok"] /\ call' = call
      BY <1>2, <2>2 DEF TriggerSwap, Swapped
    <3> QED
      BY <1>2, <3>1 DEF TriggerSwap, Promise!TakeEffect
  <2> QED
    BY <2>1, <2>2
<1>3. ASSUME NEW p \in Procs, TriggerStore(p) PROVE Promise!TakeEffect(p)
  BY <1>3 DEF TriggerStore, Promise!TakeEffect
<1>4. ASSUME NEW p \in Procs, TriggerWake(p) PROVE UNCHANGED Promise!vars
  BY <1>4 DEF TriggerWake
<1>5. ASSUME NEW p \in Procs, xshmfence_reset(p) PROVE Promise!TakeEffect(p)
  <2>1. v' # 1 /\ pc' = [pc EXCEPT ![p] = "ok"] /\ call' = call
    BY <1>5 DEF xshmfence_reset, Swapped
  <2> QED
    BY <1>5, <2>1 DEF xshmfence_reset, Promise!TakeEffect
<1>6. ASSUME NEW p \in Procs, AwaitSwap(p) PROVE Promise!TakeEffect(p) \/ UNCHANGED Promise!vars
  <2>1. CASE v = 1
    <3>1. v' = 1 /\ pc' = [pc EXCEPT ![p] = "ok"] /\ call' = call
      BY <1>6, <2>1 DEF AwaitSwap, Swapped
    <3> QED
      BY <1>6, <2>1, <3>1 DEF AwaitSwap, Promise!TakeEffect
  <2>2. CASE v # 1
    <3>1. v' # 1 /\ pc' = [pc EXCEPT ![p] = "wait"] /\ call' = call
      BY <1>6, <2>2 DEF AwaitSwap, Swapped
    <3> QED
      BY <1>6, <2>2, <3>1 DEF AwaitSwap
  <2> QED
    BY <2>1, <2>2
<1>7. ASSUME NEW p \in Procs, AwaitWait(p) PROVE UNCHANGED Promise!vars
  BY <1>7 DEF AwaitWait
<1>8. ASSUME NEW p \in Procs, Return(p) PROVE Promise!Return(p)
  BY <1>8 DEF Return, Promise!Return
<1>9. ASSUME NEW p \in Procs, Interrupted(p) PROVE Promise!Fail(p)
  BY <1>9 DEF Interrupted, Promise!Fail
<1>10. ASSUME NEW p \in Procs, SpuriousWake(p) PROVE UNCHANGED Promise!vars
  BY <1>10 DEF SpuriousWake
<1>11. ASSUME NEW p \in Procs, Die(p) PROVE Promise!Die(p)
  BY <1>11 DEF Die, Promise!Die
<1>12. CASE UNCHANGED vars
  BY <1>12 DEF vars
<1> QED
  BY <1>1, <1>2, <1>3, <1>4, <1>5, <1>6, <1>7, <1>8, <1>9, <1>10, <1>11, <1>12
  DEF Next, Body, Promise!Next

\* The calls of the futex variant are atomic operations on one fence.
THEOREM FutexImplementsFence == Spec => Promise!Spec
BY Invariant, RefinementInit, RefinementStep, PTL DEF Spec, Promise!Spec

=============================================================================
