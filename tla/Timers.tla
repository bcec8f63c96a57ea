-------------------------------- MODULE Timers --------------------------------
(***************************************************************************)
(* The timers of the server (os/WaitFor.c): a list sorted by expiry, the   *)
(* timeout of the poll computed from its first element, and callbacks that *)
(* set timers anew.  Times are unsigned numbers of milliseconds that wrap  *)
(* around, compared by the sign of their difference.                       *)
(*                                                                         *)
(* Nothing but the main thread uses timers, and the clock is monotonic, so *)
(* what the code does about a clock that was set back is left out.  No     *)
(* caller passes the flags of TimerSet.                                    *)
(***************************************************************************)
EXTENDS Integers, Sequences, SequencesExt, FiniteSets, FiniteSetsExt

CONSTANTS
    Clocks,           \* the timers
    Word,             \* the numbers of milliseconds are those below Word
    MaxMillis,        \* bound on the time a timer is set for
    MaxLate           \* bound on how late the server is with a timer

Half == Word \div 2

\* A timer's time is always nearer than half of the range.
ASSUME RangeAssumption ==
    /\ Word \in Nat /\ MaxMillis \in Nat \ {0} /\ MaxLate \in Nat
    /\ MaxMillis + MaxLate < Half

VARIABLES
    now,              \* GetTimeInMillis
    timers,           \* the list of timers that are set
    pc,               \* where the main thread is: "work", "timers" or "sleep"
    at,               \* the time DoTimers goes by
    timeout,          \* what is left of the timeout of the poll
    early             \* not in the code: a callback was called before its time

vars == <<now, timers, pc, at, timeout, early>>

\* A timer in the list; left is not in the code: how far away its time is, below 0 if it
\* has passed.
Timer == [id : Clocks, expires : 0 .. Word - 1, left : - MaxLate .. MaxMillis]

Forever == -1         \* a poll without timeout
Armed == {timer.id : timer \in ToSet(timers)}

\* The difference of two times as a signed number
Signed(difference) ==
    LET d == difference % Word IN IF d < Half THEN d ELSE d - Word

-----------------------------------------------------------------------------
IsDue(time, t) == Signed(time - t) <= 0

\* Mutant: the list is sorted by the numbers as they are.
PlaceByNumber(list, time) ==
    Min({i \in 1 .. Len(list) : list[i].expires > time} \cup {Len(list) + 1})

\* Where in the list a timer goes: before the first one that expires later
PlaceFor(list, time) ==
    Min({i \in 1 .. Len(list) : Signed(list[i].expires - time) > 0} \cup {Len(list) + 1})

\* Mutant: a timer that is set already stays in the list.
StillThere(list, id) == list

Without(list, id) ==
    LET places == {i \in DOMAIN list : list[i].id = id}
    IN IF places = {} THEN list ELSE RemoveAt(list, CHOOSE i \in places : TRUE)

\* The list after a timer is set; for 0 milliseconds it is only cancelled.
TimerSet(list, id, millis) ==
    LET others == Without(list, id)
        timer == [id |-> id, expires |-> (now + millis) % Word, left |-> millis]
    IN IF millis = 0 THEN others
       ELSE InsertAt(others, PlaceFor(others, timer.expires), timer)

\* The timer is taken out of the list and its callback called, which has it set anew, or
\* not, or sets or cancels another timer.
DoTimer(id) ==
    /\ id \in Armed
    /\ \E other \in Clocks, millis \in 0 .. MaxMillis :
          timers' = TimerSet(Without(timers, id), other, millis)

-----------------------------------------------------------------------------
\* Requests, events and other work of the main thread set, cancel and force timers.
SetTimer ==
    /\ pc = "work"
    /\ \E id \in Clocks, millis \in 0 .. MaxMillis : timers' = TimerSet(timers, id, millis)
    /\ UNCHANGED <<now, pc, at, timeout, early>>

TimerForce ==
    /\ pc = "work"
    /\ \E id \in Clocks : DoTimer(id)
    /\ UNCHANGED <<now, pc, at, timeout, early>>

\* The timeout is counted from the poll: what passes before it makes the timer late.
check_timers ==
    /\ pc = "work"
    /\ IF timers = <<>>
       THEN pc' = "sleep" /\ timeout' = Forever /\ at' = at
       ELSE IF IsDue(Head(timers).expires, now)
       THEN pc' = "timers" /\ timeout' = timeout /\ at' = now
       ELSE pc' = "sleep" /\ timeout' = Signed(Head(timers).expires - now) /\ at' = at
    /\ UNCHANGED <<now, timers, early>>

\* One round of the loop of DoTimers.  Time can pass between two of them.
DoTimers ==
    /\ pc = "timers"
    /\ IF timers # <<>> /\ IsDue(Head(timers).expires, at)
       THEN /\ DoTimer(Head(timers).id)
            /\ early' = (early \/ Head(timers).left > 0)
            /\ UNCHANGED <<now, pc, at, timeout>>
       ELSE /\ pc' = "work" /\ at' = 0
            /\ UNCHANGED <<now, timers, timeout, early>>

\* The poll returns when its timeout has passed, or for an event.
Wake ==
    /\ pc = "sleep"
    /\ pc' = "work" /\ timeout' = Forever
    /\ UNCHANGED <<now, timers, at, early>>

\* The server is never so late with a timer that time wraps around it, nor does it spend
\* that long with one round of timers.
Tick ==
    /\ \A timer \in ToSet(timers) : timer.left > - MaxLate
    /\ pc = "timers" => Signed(now - at) < MaxLate
    /\ now' = (now + 1) % Word
    /\ timers' = [i \in DOMAIN timers |-> [timers[i] EXCEPT !.left = @ - 1]]
    /\ timeout' = IF timeout > 0 THEN timeout - 1 ELSE timeout
    /\ UNCHANGED <<pc, at, early>>

Init ==
    /\ now \in 0 .. Word - 1
    /\ timers = <<>>
    /\ pc = "work" /\ at = 0 /\ timeout = Forever /\ early = FALSE

Next ==
    SetTimer \/ TimerForce \/ check_timers \/ DoTimers \/ Wake \/ Tick

Spec == Init /\ [][Next]_vars

-----------------------------------------------------------------------------
\* Properties

\* The types; a timer is in the list once at most.
TypeOK ==
    /\ now \in 0 .. Word - 1 /\ at \in 0 .. Word - 1
    /\ timers \in Seq(Timer)
    /\ \A i, j \in DOMAIN timers : timers[i].id = timers[j].id => i = j
    /\ pc \in {"work", "timers", "sleep"}
    /\ timeout \in {Forever} \cup 0 .. MaxMillis
    /\ early \in BOOLEAN

\* Wherever the clock wraps around: no callback is called before its time, the list is
\* in the order in which the timers expire, and the server does not sleep beyond the
\* time of any of them, whichever was set last.
TimersAreOnTime ==
    /\ ~early
    /\ \A i, j \in DOMAIN timers : i < j => timers[i].left <= timers[j].left
    /\ pc = "sleep" =>
        \A timer \in ToSet(timers) : timeout = 0 \/ timeout \in 1 .. timer.left
=============================================================================
