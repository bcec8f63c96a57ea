------------------------- MODULE FencePthreadProofs -------------------------
(***************************************************************************)
(* FencePthread implements the abstract fence, for any processes, also if  *)
(* any of them dies at any point.                                          *)
(***************************************************************************)
EXTENDS FencePthread, TLAPS

\* A sleeping process is in xshmfence_await and nowhere near the mutex; a dead
\* one does not sleep.
SleepInv == \A p \in sleeping : InCall(p, "await", "asleep")

PcInv ==
    /\ \A p \in Procs : call[p] = "none" => pc[p] = "left"
    /\ \A p \in Procs : pc[p] = "locked" => lock = p

Inv == TypeOK /\ SleepInv /\ PcInv /\ NoForgottenSleeper

LEMMA InitInv == Init => Inv
BY DEF Init, Inv, TypeOK, SleepInv, PcInv, NoForgottenSleeper

LEMMA StepInv == Inv /\ [Next]_vars => Inv'
<1> SUFFICES ASSUME Inv, [Next]_vars PROVE Inv'
  OBVIOUS
<1> USE NoneAssumption
    DEF Inv, TypeOK, SleepInv, PcInv, NoForgottenSleeper, InCall, Unlock, Procs
<1>1. ASSUME NEW p \in Procs, Call(p) PROVE Inv'
  BY <1>1 DEF Call, Allowed
<1>2. ASSUME NEW p \in Procs, Lock(p) PROVE Inv'
  BY <1>2 DEF Lock
<1>3. ASSUME NEW p \in Procs, xshmfence_trigger(p) PROVE Inv'
  <2>1. CASE value = 0 /\ waiting = 1
    BY <1>3, <2>1 DEF xshmfence_trigger, Woken
  <2>2. CASE ~(value = 0 /\ waiting = 1)
    BY <1>3, <2>2 DEF xshmfence_trigger
  <2> QED
    BY <2>1, <2>2
<1>4. ASSUME NEW p \in Procs, xshmfence_reset(p) PROVE Inv'
  BY <1>4 DEF xshmfence_reset
<1>5. ASSUME NEW p \in Procs, xshmfence_await(p) PROVE Inv'
  BY <1>5 DEF xshmfence_await
<1>6. ASSUME NEW p \in Procs, SpuriousWake(p) PROVE Inv'
  BY <1>6 DEF SpuriousWake
<1>7. ASSUME NEW p \in Procs, Return(p) PROVE Inv'
  BY <1>7 DEF Return
<1>8. ASSUME NEW p \in Procs, Die(p) PROVE Inv'
  BY <1>8 DEF Die
<1>9. CASE UNCHANGED vars
  BY <1>9 DEF vars
<1> QED
  BY <1>1, <1>2, <1>3, <1>4, <1>5, <1>6, <1>7, <1>8, <1>9 DEF Next, Body

LEMMA Invariant == Spec => []Inv
BY InitInv, StepInv, PTL DEF Spec

\* The fields of the fence, the sleepers and the program counters keep their types.
THEOREM TypeCorrect == Spec => []TypeOK
<1>1. Inv => TypeOK
  BY DEF Inv
<1> QED
  BY Invariant, <1>1, PTL

\* Nobody sleeps on a triggered fence, and the flag is up while anyone sleeps.
THEOREM SleepersRemembered == Spec => []NoForgottenSleeper
<1>1. Inv => NoForgottenSleeper
  BY DEF Inv
<1> QED
  BY Invariant, <1>1, PTL

-----------------------------------------------------------------------------

LEMMA RefinementInit == Init => Promise!Init
BY DEF Init, Promise!Init, Promise!Procs, Procs, Triggered, result

\* Every step is a step of the abstract fence or leaves it unchanged; a call
\* takes effect where it leaves its critical section for good.
LEMMA RefinementStep == Inv /\ [Next]_vars => [Promise!Next]_Promise!vars
<1> SUFFICES ASSUME Inv, [Next]_vars PROVE Promise!Next \/ UNCHANGED Promise!vars
  OBVIOUS
<1> USE DEF Inv, TypeOK, SleepInv, PcInv, InCall, Triggered, result, Promise!vars,
            Promise!Procs, Procs
<1>1. ASSUME NEW p \in Procs, Call(p) PROVE Promise!Call(p)
  BY <1>1 DEF Call, Allowed, Promise!Call, Promise!Allowed
<1>2. ASSUME NEW p \in Procs, Lock(p) PROVE UNCHANGED Promise!vars
  BY <1>2 DEF Lock
<1>3. ASSUME NEW p \in Procs, xshmfence_trigger(p) PROVE Promise!TakeEffect(p)
  <2>1. value' = 1 /\ call' = call
    BY <1>3 DEF xshmfence_trigger
  <2>2. result' = [result EXCEPT ![p] = "ok"]
    <3>1. CASE value = 0 /\ waiting = 1
      BY <1>3, <3>1 DEF xshmfence_trigger, Woken
    <3>2. CASE ~(value = 0 /\ waiting = 1)
      BY <1>3, <3>2 DEF xshmfence_trigger
    <3> QED
      BY <3>1, <3>2
  <2>3. call[p] = "trigger" /\ result[p] = "pending"
    BY <1>3 DEF xshmfence_trigger
  <2> QED
    BY <2>1, <2>2, <2>3 DEF Promise!TakeEffect
<1>4. ASSUME NEW p \in Procs, xshmfence_reset(p) PROVE Promise!TakeEffect(p)
  <2>1. value' # 1
    BY <1>4 DEF xshmfence_reset
  <2> QED
    BY <1>4, <2>1 DEF xshmfence_reset, Promise!TakeEffect
<1>5. ASSUME NEW p \in Procs, xshmfence_await(p)
      PROVE  Promise!TakeEffect(p) \/ UNCHANGED Promise!vars
  <2>1. CASE value = 0
    BY <1>5, <2>1 DEF xshmfence_await
  <2>2. CASE value # 0
    <3>1. /\ value = 1 /\ value' = 1 /\ call' = call
          /\ pc' = [pc EXCEPT ![p] = "left"]
      BY <1>5, <2>2 DEF xshmfence_await
    <3> QED
      BY <1>5, <3>1 DEF xshmfence_await, Promise!TakeEffect
  <2> QED
    BY <2>1, <2>2
<1>6. ASSUME NEW p \in Procs, SpuriousWake(p) PROVE UNCHANGED Promise!vars
  BY <1>6 DEF SpuriousWake
<1>7. ASSUME NEW p \in Procs, Return(p) PROVE Promise!Return(p)
  BY <1>7 DEF Return, Promise!Return
<1>8. ASSUME NEW p \in Procs, Die(p) PROVE Promise!Die(p)
  BY <1>8 DEF Die, Promise!Die
<1>9. CASE UNCHANGED vars
  BY <1>9 DEF vars
<1> QED
  BY <1>1, <1>2, <1>3, <1>4, <1>5, <1>6, <1>7, <1>8, <1>9 DEF Next, Body, Promise!Next

\* The calls of the pthread variant are atomic operations on one fence, whoever
\* dies and where.
THEOREM PthreadImplementsFence == Spec => ImplementsFence
BY Invariant, RefinementInit, RefinementStep, PTL DEF Spec, ImplementsFence, Promise!Spec

=============================================================================
