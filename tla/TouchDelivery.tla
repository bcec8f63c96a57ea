---------------------------- MODULE TouchDelivery ----------------------------
(***************************************************************************)
(* Delivery of one touch to the clients that listen for it (dix/touch.c    *)
(* and Xi/exevents.c of xorg-server-1.20.1): the clients with a touch grab *)
(* on a window of the trace, from the root down, then at most one that     *)
(* merely selected touch events.  The first listener owns the touch; it    *)
(* passes on when the owner rejects it or goes away.                       *)
(*                                                                         *)
(* All of it runs to completion on the main thread, one call nested in     *)
(* another; a step here is a whole event or request.  The operators below  *)
(* take and return a record s of what those calls change: ti, the touch    *)
(* record, and got, what each client has been sent.  Listeners that only   *)
(* take emulated pointer events, active grabs and frozen devices are left  *)
(* out, and a client listens at most once per touch.                       *)
(***************************************************************************)
EXTENDS Integers, FiniteSets, Sequences, SequencesExt

CONSTANTS
    Clients,
    HistorySize,      \* TOUCH_HISTORY_SIZE
    MaxTouches,       \* bound on the touches that use the record
    MaxUpdates        \* bound on the movements of one touch

ASSUME SizeAssumption == HistorySize \in Nat /\ HistorySize >= 2
ASSUME TouchBoundsAssumption == MaxTouches \in Nat /\ MaxUpdates \in Nat

VARIABLES
    ti,               \* the TouchPointInfoRec
    got,              \* what each client was sent of this touch
    alive,            \* the clients still connected
    down,             \* the finger is on the screen
    updates,          \* its movements so far
    touches           \* bounded counter

deliveryVars == <<ti, got, alive, down, updates, touches>>

States == {"AWAITING_BEGIN", "AWAITING_OWNER", "EARLY_ACCEPT", "IS_OWNER",
           "HAS_ACCEPTED", "HAS_END"}
Listener == [client : Clients, grab : BOOLEAN, wants : BOOLEAN, state : States]
Nothing == [events |-> <<>>, updates |-> 0, pending |-> FALSE]

\* kept: there is a history; history: the updates in it, next to the begin
NoTouch == [active |-> FALSE, listeners |-> <<>>, pending |-> FALSE,
            kept |-> FALSE, history |-> 0]

-----------------------------------------------------------------------------
\* Sending to the listeners at the positions I

Grabs(s) == {i \in DOMAIN s.ti.listeners : s.ti.listeners[i].grab}
Wants(s) == {i \in DOMAIN s.ti.listeners : s.ti.listeners[i].wants}
InState(s, states) ==
    {i \in DOMAIN s.ti.listeners : s.ti.listeners[i].state \in states}

\* A client with neither grab nor ownership mask is sent nothing while a grab is left.
Hears(s, i) == s.ti.listeners[i].grab \/ i \in Wants(s) \/ Grabs(s) = {}
Told(s, I, c) ==
    c \in alive /\ \E i \in I : s.ti.listeners[i].client = c /\ Hears(s, i)

Send(s, I, event) ==
    [ti |-> s.ti, got |-> [c \in Clients |->
        IF Told(s, I, c) THEN [s.got[c] EXCEPT !.events = Append(@, event)] ELSE s.got[c]]]

SendUpdates(s, I, n) ==
    [ti |-> s.ti, got |-> [c \in Clients |->
        IF Told(s, I, c) THEN [s.got[c] EXCEPT !.updates = @ + n] ELSE s.got[c]]]

\* An update with the flag TOUCH_PENDING_END: the finger is gone
SendPendingEnd(s, I) ==
    [ti |-> s.ti, got |-> [c \in Clients |->
        IF Told(s, I, c) THEN [s.got[c] EXCEPT !.pending = TRUE] ELSE s.got[c]]]

\* of gives some positions their new state
SetState(s, of) ==
    [s EXCEPT !.ti.listeners = [i \in DOMAIN @ |->
        IF i \in DOMAIN of THEN [@[i] EXCEPT !.state = of[i]] ELSE @[i]]]

-----------------------------------------------------------------------------
\* One event for the listeners at the positions I

\* The owner is sent the begin, and told that it owns the touch if it asked; so is a
\* listener with the ownership mask, which waits for its turn; the others see nothing.
DeliverTouchBeginEvent(s, I) ==
    LET begun == Send(s, I \cap ({1} \cup Wants(s)), "begin")
        state(i) == CASE i > 1 /\ i \in Wants(s) -> "AWAITING_OWNER"
                      [] i > 1 /\ i \notin Wants(s) -> "AWAITING_BEGIN"
                      [] i = 1 /\ i \in Grabs(s) -> "IS_OWNER"
                      [] i = 1 /\ i \notin Grabs(s) -> "HAS_ACCEPTED"
    IN SetState(Send(begun, I \cap Wants(s) \cap {1}, "ownership"),
                [i \in I |-> state(i)])

DeliverOwnership(s) ==
    SetState(Send(s, {1}, "ownership"), [i \in {1} |-> "IS_OWNER"])

\* Mutant: a listener is sent an end even though it has one already.
EndAgain(s, I, flag) ==
    LET cut == {i \in I : \/ flag = "reject"
                          \/ flag = "accept" /\ i > 1
                          \/ flag = "none" /\ i = 1}
        unseen == InState(s, {"AWAITING_BEGIN"})
    IN SetState(Send(s, cut \ unseen, "end"), [i \in cut \cup (I \cap unseen) |-> "HAS_END"])

\* The end of a listener that is cut off ("reject", or "accept" by the owner), or
\* for the owner, of the touch ("none").  Who waits for the begin is sent no end.
DeliverTouchEndEvent(s, I, flag) ==
    LET cut == {i \in I : \/ flag = "reject"
                          \/ flag = "accept" /\ i > 1
                          \/ flag = "none" /\ i = 1}
        unseen == InState(s, {"AWAITING_BEGIN"})
    IN SetState(Send(s, cut \ InState(s, {"AWAITING_BEGIN", "HAS_END"}), "end"),
                [i \in cut \cup (I \cap unseen) |-> "HAS_END"])

\* The finger was lifted.  If somebody may still get the touch after the owner, the
\* end turns into an update for the others, and the touch lives on.
LivesOn(s) ==
    /\ s.ti.listeners # <<>>
    /\ 1 \notin InState(s, {"AWAITING_BEGIN"})
    /\ \/ Len(s.ti.listeners) > 1
       \/ Grabs(s) # {} /\ 1 \notin InState(s, {"HAS_ACCEPTED"})

\* Mutant: only the owner hears that the finger was lifted.
EndForOwnerOnly(s) ==
    IF LivesOn(s)
    THEN [DeliverTouchEndEvent(s, {1}, "none") EXCEPT !.ti.pending = TRUE]
    ELSE DeliverTouchEndEvent(s, DOMAIN s.ti.listeners, "none")

DeliverEndToAll(s) ==
    IF LivesOn(s)
    THEN [SendPendingEnd(DeliverTouchEndEvent(s, {1}, "none"), Wants(s) \ {1})
              EXCEPT !.ti.pending = TRUE]
    ELSE DeliverTouchEndEvent(s, DOMAIN s.ti.listeners, "none")

-----------------------------------------------------------------------------
\* Ownership

\* Mutant: pending_finish is not reset.
EndStillPending(s) == [s EXCEPT !.ti = [NoTouch EXCEPT !.pending = s.ti.pending]]

TouchEndTouch(s) == [s EXCEPT !.ti = NoTouch]

TouchRemoveListener(s, i) == [s EXCEPT !.ti.listeners = RemoveAt(@, i)]

\* The owner has accepted: everyone else is cut off.
Accept(s) ==
    LET others == DeliverTouchEndEvent(s, 2 .. Len(s.ti.listeners), "accept")
        alone == [others EXCEPT !.ti.listeners = <<Head(@)>>]
    IN IF 1 \in InState(s, {"HAS_END"}) THEN TouchEndTouch(alone)
       ELSE SetState(alone, [i \in {1} |-> "HAS_ACCEPTED"])

\* Mutant: only the begin is replayed.
ReplayBegin(s) ==
    IF s.ti.kept THEN DeliverTouchBeginEvent(s, {1}) ELSE s

TouchEventHistoryReplay(s) ==
    IF s.ti.kept
    THEN SendUpdates(DeliverTouchBeginEvent(s, {1}), {1}, s.ti.history)
    ELSE s

\* Mutant: an end that came while the touch belonged to another is not made up for.
PuntWithoutEnd(s) ==
    LET early == 1 \in InState(s, {"EARLY_ACCEPT"})
        told == IF early \/ 1 \in InState(s, {"AWAITING_OWNER"}) THEN DeliverOwnership(s)
                ELSE IF 1 \in InState(s, {"AWAITING_BEGIN"}) THEN TouchEventHistoryReplay(s)
                ELSE s
    IN IF early /\ 1 \in Grabs(s) THEN Accept(told) ELSE told

\* The new owner is told, or shown the touch so far; if the finger is gone it is
\* shown the end too, and if it has accepted already the others are cut off.
TouchPuntToNextOwner(s) ==
    LET early == 1 \in InState(s, {"EARLY_ACCEPT"})
        told == IF early \/ 1 \in InState(s, {"AWAITING_OWNER"}) THEN DeliverOwnership(s)
                ELSE IF 1 \in InState(s, {"AWAITING_BEGIN"}) THEN TouchEventHistoryReplay(s)
                ELSE s
        ended == IF s.ti.pending THEN DeliverEndToAll(told) ELSE told
    IN IF s.ti.pending /\ Len(s.ti.listeners) = 1 /\ Grabs(s) = {}
       THEN TouchEndTouch(ended)
       ELSE IF early /\ 1 \in Grabs(s) THEN Accept(ended) ELSE ended

\* announce: whether there is an ownership event for the next owner
TouchRejected(s, i, announce) ==
    LET removed == TouchRemoveListener(DeliverTouchEndEvent(s, {i}, "reject"), i)
    IN IF removed.ti.listeners = <<>> THEN TouchEndTouch(removed)
       ELSE IF announce /\ i = 1 THEN TouchPuntToNextOwner(removed)
       ELSE removed

\* Only the owner's answer is processed at once; an early acceptance is noted.
TouchListenerAcceptReject(s, i, accept) ==
    CASE i = 1 /\ accept -> Accept(s)
      [] i = 1 /\ ~accept -> TouchRejected(s, 1, TRUE)
      [] i > 1 /\ accept -> SetState(s, [j \in {i} |-> "EARLY_ACCEPT"])
      [] i > 1 /\ ~accept -> TouchRejected(s, i, FALSE)

-----------------------------------------------------------------------------
\* Events and requests

Now == [ti |-> ti, got |-> got]
Become(s) == ti' = s.ti /\ got' = s.got
Positions(c) == {i \in DOMAIN ti.listeners : ti.listeners[i].client = c}

\* The grabs on the trace come first, and one selection at most, last.
Traces ==
    {ls \in SeqOf([client : Clients, grab : BOOLEAN, wants : BOOLEAN,
                   state : {"AWAITING_BEGIN"}], Cardinality(Clients)) :
        /\ \A i, j \in DOMAIN ls : ls[i].client = ls[j].client => i = j
        /\ \A i \in DOMAIN ls : ls[i].grab \/ i = Len(ls)}

TouchSetupListeners(ls) ==
    [NoTouch EXCEPT !.active = TRUE, !.listeners = ls,
                    !.kept = \E i \in DOMAIN ls : ~ls[i].wants]

Begin ==
    /\ ~ti.active /\ ~down /\ touches < MaxTouches
    /\ \E ls \in Traces :
        /\ \A i \in DOMAIN ls : ls[i].client \in alive
        /\ Become(DeliverTouchBeginEvent(
               [ti |-> TouchSetupListeners(ls), got |-> [c \in Clients |-> Nothing]],
               DOMAIN ls))
    /\ down' = TRUE
    /\ updates' = 0
    /\ touches' = touches + 1
    /\ alive' = alive

\* The history takes one begin and HistorySize - 2 updates; what comes later is lost.
TouchEventHistoryPush(t) ==
    IF t.kept /\ t.history < HistorySize - 2 THEN [t EXCEPT !.history = @ + 1] ELSE t

\* Once the touch is over, its record gone, the server does not find it.
Update ==
    /\ down /\ updates < MaxUpdates
    /\ IF ti.active
       THEN Become(SendUpdates([Now EXCEPT !.ti = TouchEventHistoryPush(ti)],
                               ({1} \cap DOMAIN ti.listeners) \cup Wants(Now), 1))
       ELSE UNCHANGED <<ti, got>>
    /\ updates' = updates + 1
    /\ UNCHANGED <<alive, down, touches>>

End ==
    /\ down
    /\ down' = FALSE
    /\ Become(IF ~ti.active THEN Now
              ELSE IF LivesOn(Now) THEN DeliverEndToAll(Now)
              ELSE TouchEndTouch(DeliverEndToAll(Now)))
    /\ UNCHANGED <<alive, updates, touches>>

\* A client answers for a touch it has seen.  It may change its mind.
TouchAcceptReject(c) ==
    /\ c \in alive /\ ti.active /\ got[c].events # <<>>
    /\ \E i \in Positions(c), accept \in BOOLEAN :
           Become(TouchListenerAcceptReject(Now, i, accept))
    /\ UNCHANGED <<alive, down, updates, touches>>

\* The client's connection is closed: it is taken off the list, as if it had rejected.
TouchListenerGone(c) ==
    /\ c \in alive
    /\ alive' = alive \ {c}
    /\ IF Positions(c) = {} THEN UNCHANGED <<ti, got>>
       ELSE \E i \in Positions(c) : Become(TouchRejected(Now, i, TRUE))
    /\ UNCHANGED <<down, updates, touches>>

DeliveryInit ==
    /\ ti = NoTouch
    /\ got = [c \in Clients |-> Nothing]
    /\ alive = Clients
    /\ down = FALSE
    /\ updates = 0 /\ touches = 0

Over == ~ti.active /\ ~down /\ touches = MaxTouches /\ UNCHANGED deliveryVars

DeliveryNext ==
    \/ Begin \/ Update \/ End \/ Over
    \/ \E c \in Clients : TouchAcceptReject(c) \/ TouchListenerGone(c)

\* Fingers are lifted, and a client whose grab owns a touch accepts or rejects it, as
\* the protocol asks of it (specs/XI2proto.txt, "Touch grabs"), or goes away.  The
\* second is weak fairness spelled out: the owner of a touch can always answer.
MustAnswer(c) ==
    /\ 1 \in Positions(c)
    /\ ti.listeners[1].grab /\ ti.listeners[1].state \in {"IS_OWNER", "HAS_END"}
Answer(c) == MustAnswer(c) /\ (TouchAcceptReject(c) \/ TouchListenerGone(c))
DeliveryFairness ==
    /\ WF_deliveryVars(End)
    /\ \A c \in Clients : []<>~MustAnswer(c) \/ []<><<Answer(c)>>_deliveryVars

DeliverySpec == DeliveryInit /\ [][DeliveryNext]_deliveryVars /\ DeliveryFairness

-----------------------------------------------------------------------------
\* Properties

\* The touch record holds listeners in known states, each on its own, and only an
\* active one has any.
DeliveryTypeOK ==
    /\ ti \in [active : BOOLEAN, listeners : Seq(Listener), pending : BOOLEAN,
               kept : BOOLEAN, history : 0 .. MaxUpdates]
    /\ ~ti.active => ti = NoTouch
    /\ got \in [Clients -> [events : Seq({"begin", "ownership", "end"}),
                            updates : Nat, pending : BOOLEAN]]
    /\ alive \subseteq Clients /\ down \in BOOLEAN
    /\ updates \in 0 .. MaxUpdates /\ touches \in 0 .. MaxTouches

\* What the clients are sent makes a well-formed touch for each of them: no end
\* without a begin, never two, ownership at most once and with one client at a time,
\* and no client is left without its end when the record is given up ("we're going to
\* leave a client hanging", Xi/exevents.c:1022).
Promise == INSTANCE TouchPromise WITH
    log <- [c \in Clients |-> got[c].events], open <- ti.active
KeepsPromise == Promise!Spec

\* However late a client comes to own the touch, and whichever listeners went before
\* it, it has seen every movement the history has room for: live, or replayed.
OwnerMissesNothing ==
    \A c \in alive : 1 \in Positions(c) /\ updates <= HistorySize - 2 /\ down
        => got[c].updates = updates

Ended(c) == got[c].events # <<>> /\ Last(got[c].events) = "end"

\* Once the finger is gone, every client that was shown the touch and waits for its
\* ownership has been told so, and the owner has had its end.
EndIsAnnounced ==
    ti.active /\ ~down =>
        \A c \in alive : got[c].events # <<>> => got[c].pending \/ Ended(c)

\* The touch that a client has seen begin ends for it, or the client is gone, whoever
\* held the ownership before it.
EveryTouchEnds ==
    \A c \in Clients :
        (got[c].events # <<>>) ~> (c \notin alive \/ Ended(c))
=============================================================================
