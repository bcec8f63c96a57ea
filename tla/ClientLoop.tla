------------------------------ MODULE ClientLoop ------------------------------
(***************************************************************************)
(* The server's main loop and its clients: which clients are ready to be   *)
(* served (dix/dispatch.c), what the poll reports (os/ospoll.c, os/WaitFor *)
(* .c, os/connection.c), how requests are read and output is written       *)
(* (os/io.c), and what a server grab, a sleeping client and a closed       *)
(* connection do to all of that.                                           *)
(*                                                                         *)
(* A request is two units of input, so that half a request can arrive.     *)
(* Edge triggering is what the poll variant of ospoll, the one this build  *)
(* uses, makes of poll: an event that the previous poll reported already   *)
(* is not reported again until it is listened to anew or reset.            *)
(***************************************************************************)
EXTENDS Integers, FiniteSets, FiniteSetsExt

CONSTANTS
    Clients,          \* the indices of clients
    BufSize,          \* units of input that fit into a client's buffer
    MaxInput,         \* bound on the times clients send something or get an event
    MaxGone           \* bound on the clients that leave

Request == 2          \* the units of one request
None == 0             \* no client

ASSUME LoopAssumption ==
    /\ Clients \subseteq Nat \ {None} /\ IsFiniteSet(Clients)
    /\ BufSize \in Nat /\ BufSize >= Request
    /\ MaxInput \in Nat /\ MaxGone \in Nat

VARIABLES
    s,                \* the server's state, see ServerState
    pc,               \* where the main loop is: "block", "connect", "poll", "pick", "serve"
    client,           \* the client being served, or None
    wire,             \* units sent by each client and not yet read
    gone,             \* clients that have closed their end
    inputs            \* how often clients have sent or got something

vars == <<s, pc, client, wire, gone, inputs>>

ServerState == [
    live : SUBSET Clients,       \* connected, not clientGone
    shut : SUBSET Clients,       \* live, but the descriptor is closed: AbortClient
    buf : [Clients -> 0 .. BufSize],
    head : [Clients -> {"any", "setup", "establish", "grab"}], \* what is known of the next request
    ready : SUBSET Clients,      \* ready_clients
    saved : SUBSET Clients,      \* saved_ready_clients
    ignored : SUBSET Clients,    \* OS_COMM_IGNORED
    impervious : SUBSET Clients, \* OS_COMM_GRAB_IMPERVIOUS
    waiters : SUBSET Clients,    \* grabWaiters
    grab : Clients \cup {None},  \* GrabInProgress, grabClient
    yield : BOOLEAN,             \* isItTimeToYield
    reads : SUBSET Clients,      \* POLLIN is listened to
    seen : SUBSET Clients,       \* POLLIN remembered from the last poll
    writes : SUBSET Clients,     \* POLLOUT is listened to
    seenOut : SUBSET Clients,    \* POLLOUT remembered from the last poll
    out : SUBSET Clients,        \* output is buffered
    pending : SUBSET Clients,    \* output_pending_clients
    newOutput : BOOLEAN,         \* NewOutputPending
    lapsed : SUBSET Clients]     \* not in the code: gave up being impervious too late

-----------------------------------------------------------------------------
\* The lists of ready clients.  A client is in one of them at most.

\* Mutant: not asked whether the client is saved.
ReadyAnyway(t, cs) == [t EXCEPT !.ready = @ \cup cs]

\* for each client of a set
mark_clients_ready(t, cs) == [t EXCEPT !.ready = @ \cup (cs \ t.saved)]

mark_client_saved_ready(t, c) == IF c \in t.ready THEN t ELSE [t EXCEPT !.saved = @ \cup {c}]

mark_client_not_ready(t, c) ==
    [t EXCEPT !.ready = @ \ {c}, !.saved = @ \ {c}, !.lapsed = @ \ {c}]

client_is_ready(t, c) == c \in t.ready \cup t.saved

-----------------------------------------------------------------------------
\* What the poll listens to

listen_to_client(t, c) ==
    c \notin t.ignored /\ (t.grab \in {None, c} \/ c \in t.impervious)

\* set_poll_client, for each client of a set
set_poll_clients(t, cs) ==
    LET heard == {c \in cs \ t.shut : listen_to_client(t, c)}
    IN [t EXCEPT !.reads = (@ \ cs) \cup heard, !.seen = @ \ heard]

IgnoreClient(t, c) ==
    set_poll_clients([mark_client_not_ready(t, c) EXCEPT !.yield = TRUE,
                                                         !.ignored = @ \cup {c}], {c})

AttendClient(t, c) ==
    LET heard == set_poll_clients([t EXCEPT !.ignored = @ \ {c}], {c})
    IN IF listen_to_client(heard, c) THEN mark_clients_ready(heard, {c})
       ELSE mark_client_saved_ready(heard, c)

YieldControl(t) == [t EXCEPT !.yield = TRUE]

\* All that is remembered of the last poll is reset.
YieldControlNoInput(t, c) == [t EXCEPT !.yield = TRUE, !.seen = @ \ {c}, !.seenOut = @ \ {c}]

-----------------------------------------------------------------------------
\* Grabbing the server

\* Mutant: the saved clients stay where they are.
ForgetSaved(t) == t

mark_client_ungrab(t) == [t EXCEPT !.ready = @ \cup t.saved, !.saved = {}]

\* One of those that wait for the grab is woken, to try again: the first of the last word
\* of the bit set that is not empty.
FirstWaiter(waiters) ==
    LET last == Max({c \div 32 : c \in waiters})
    IN Min({c \in waiters : c \div 32 = last})

UngrabServer(t) ==
    LET free == IF t.grab = None THEN t
                ELSE set_poll_clients([t EXCEPT !.grab = None], t.live)
        all == mark_client_ungrab(free)
    IN IF all.waiters = {} THEN all
       ELSE LET next == FirstWaiter(all.waiters)
            IN AttendClient([all EXCEPT !.waiters = @ \ {next}], next)

\* Mutant: the other clients stay ready.
GrabButGoOn(t, c) ==
    IF t.grab \notin {None, c}
    THEN IgnoreClient([t EXCEPT !.head[c] = "grab", !.buf[c] = @ + Request,
                                !.waiters = @ \cup {c}], c)
    ELSE IF t.grab = None THEN set_poll_clients([t EXCEPT !.grab = c], t.live) ELSE t

\* While another client has the grab the request is put back and the client ignored.
GrabServer(t, c) ==
    IF t.grab \notin {None, c}
    THEN IgnoreClient([t EXCEPT !.head[c] = "grab", !.buf[c] = @ + Request,
                                !.waiters = @ \cup {c}], c)
    ELSE LET alone == IF t.grab = None THEN set_poll_clients([t EXCEPT !.grab = c], t.live)
                      ELSE t
         IN [alone EXCEPT !.ready = @ \cap {c}, !.saved = @ \cup (alone.ready \ {c})]

MakeClientGrabImpervious(t, c) ==
    set_poll_clients([t EXCEPT !.impervious = @ \cup {c}, !.lapsed = @ \ {c}], {c})

\* The client stays in the list of ready clients, whoever has the grab.
MakeClientGrabPervious(t, c) ==
    LET pervious == set_poll_clients([t EXCEPT !.impervious = @ \ {c}, !.yield = TRUE], {c})
    IN IF listen_to_client(pervious, c) THEN pervious
       ELSE [pervious EXCEPT !.lapsed = @ \cup {c}]

-----------------------------------------------------------------------------
\* The end of a connection

\* CloseDownFileDescriptor, for each client of a set
Unpolled(t, cs) ==
    [t EXCEPT !.reads = @ \ cs, !.seen = @ \ cs, !.writes = @ \ cs, !.seenOut = @ \ cs]

\* AbortClient, for each client of a set
AbortClients(t, cs) ==
    LET lost == cs \ t.shut
    IN mark_clients_ready(Unpolled([t EXCEPT !.shut = @ \cup lost], lost), lost)

\* A client that has the grab ungrabs; what is left of its input and output is lost.
CloseDownClient(t, c) ==
    LET ungrabbed == IF t.grab = c THEN UngrabServer(t) ELSE t
        closed == mark_client_not_ready(Unpolled(ungrabbed, {c}), c)
    IN [closed EXCEPT !.live = @ \ {c}, !.shut = @ \ {c}, !.waiters = @ \ {c},
                      !.ignored = @ \ {c}, !.impervious = @ \ {c},
                      !.out = @ \ {c}, !.pending = @ \ {c},
                      !.buf[c] = 0, !.head[c] = "any"]

-----------------------------------------------------------------------------
\* Output

\* Mutant: listening for the socket to take more does not reset what was remembered.
FlushUnreset(t, cs, taking) ==
    LET dead == cs \cap gone
        full == cs \ (gone \cup taking)
    IN [AbortClients(t, dead) EXCEPT
            !.out = (@ \ cs) \cup full, !.pending = (@ \ (cs \ dead)) \cup full,
            !.writes = @ \cup full]

\* FlushClient, for each client of a set, all with output to write: a write that fails for
\* good closes the descriptor, one that would block leaves the rest in the buffer and
\* listens for the socket to take more.  The sockets of the clients in taking take all of
\* it; any other fills up, whether or not the poll has just said that it had room.
FlushClients(t, cs, taking) ==
    LET dead == cs \cap gone
        full == cs \ (gone \cup taking)
    IN [AbortClients(t, dead) EXCEPT
            !.out = (@ \ cs) \cup full, !.pending = (@ \ (cs \ dead)) \cup full,
            !.writes = @ \cup full, !.seenOut = @ \ full]

\* Clients with input to be served are left for later.
FlushAllOutput(t, taking) ==
    IF ~t.newOutput THEN t
    ELSE LET later == {c \in t.pending : client_is_ready(t, c)}
         IN FlushClients([t EXCEPT !.newOutput = later # {}], (t.pending \ later) \cap t.out, taking)

\* Output goes out at once, unless some is buffered already and the buffer has space.
WriteToClient(t, c, fits, taking) ==
    IF c \in t.out /\ fits
    THEN [t EXCEPT !.newOutput = TRUE, !.pending = @ \cup {c}]
    ELSE LET rest == t.pending \ {c}
         IN FlushClients([t EXCEPT !.pending = rest, !.newOutput = @ /\ rest # {}], {c}, taking)

-----------------------------------------------------------------------------
\* Reading and executing requests

Whole(t, c) == t.buf[c] >= Request

\* ReadRequestFromClient for a client without a whole request in its buffer, with n
\* units at hand in its socket: after a partial request the client stays ready, and
\* the next turn finds nothing.
ReadFromSocket(t, c, n) ==
    IF n > 0 THEN
        LET read == [t EXCEPT !.buf[c] = @ + n]
        IN IF Whole(read, c) THEN read ELSE YieldControlNoInput(read, c)
    ELSE YieldControlNoInput(mark_client_not_ready(t, c), c)

\* The first half of the connection set-up: the request is rewritten to take in the data
\* of the authorisation, and put back.  It may be longer than what has arrived then: the
\* two units that were the whole of it count as one.
ProcInitialConnection(t, c, longer) ==
    LET back == [t EXCEPT !.head[c] = "establish", !.buf[c] = @ + IF longer THEN 1 ELSE Request]
    IN IF ~Whole(back, c) THEN YieldControlNoInput(back, c)
       ELSE YieldControl(IF listen_to_client(back, c) THEN mark_clients_ready(back, {c}) ELSE back)

Kinds == {"reply", "quiet", "grab", "ungrab", "impervious", "pervious", "sleep"}

Execute(t, c, kind, fits, taking) ==
    LET taken == [t EXCEPT !.buf[c] = @ - Request, !.head[c] = "any"]
    IN CASE kind = "initial" -> ProcInitialConnection(taken, c, FALSE)
         [] kind = "authorised" -> ProcInitialConnection(taken, c, TRUE)
         [] kind = "reply" -> WriteToClient(taken, c, fits, taking)
         [] kind = "quiet" -> taken
         [] kind = "grab" -> GrabServer(taken, c)
         [] kind = "ungrab" -> UngrabServer(taken)
         [] kind = "impervious" -> MakeClientGrabImpervious(taken, c)
         [] kind = "pervious" -> MakeClientGrabPervious(taken, c)
         [] kind = "sleep" -> IgnoreClient(taken, c)

\* What a client's next request can be: the first one is the connection set-up, which is
\* put back and executed again, and a request to grab that was put back is still there.
Possible(t, c) ==
    CASE t.head[c] = "setup" -> {"initial", "authorised"}
      [] t.head[c] = "establish" -> {"reply"}
      [] t.head[c] = "grab" -> {"grab"}
      [] t.head[c] = "any" -> Kinds

\* After the last request of a turn, Dispatch flushes and goes on to wait.  Nobody looks
\* at isItTimeToYield before the next turn, which starts with FALSE.
EndTurn(t) ==
    /\ \E taking \in SUBSET t.pending : s' = [FlushAllOutput(t, taking) EXCEPT !.yield = FALSE]
    /\ pc' = "block" /\ client' = None

\* After a request: a client whose descriptor was closed is closed down.
Continue(t, c) ==
    IF c \in t.shut THEN EndTurn(CloseDownClient(t, c))
    ELSE IF t.yield THEN EndTurn(t)
    ELSE s' = t /\ UNCHANGED <<pc, client>>

-----------------------------------------------------------------------------
\* The steps of the main loop

\* WaitForSomething up to the poll
BlockHandler ==
    /\ pc = "block"
    /\ \E taking \in SUBSET s.pending : s' = FlushAllOutput(s, taking)
    /\ pc' = "poll"
    /\ UNCHANGED <<client, wire, gone, inputs>>

\* What poll says of the clients: the end of a connection can be read, and some kinds of
\* connection also report it as an error.  The clients in taking have made room for output.
In(t) == {c \in t.reads : wire[c] > 0 \/ c \in gone}
Out(t, taking) == {c \in t.writes : c \in taking \/ c \in gone}

\* ClientReady for the clients in cs, without errors; what was remembered is not new.
Report(t, cs, taking) ==
    LET newIn == (In(t) \cap cs) \ t.seen
        newOut == (Out(t, taking) \cap cs) \ t.seenOut
    IN [t EXCEPT !.seen = (@ \ cs) \cup (In(t) \cap cs),
                 !.seenOut = (@ \ cs) \cup (Out(t, taking) \cap cs),
                 !.ready = @ \cup (newIn \ t.saved),
                 !.writes = @ \ newOut,
                 !.newOutput = @ \/ newOut # {}]

Polled(t) == t.live \ t.shut

\* The poll returns at once if clients are ready, and otherwise with an event, of a
\* client or of another descriptor.  Without any event nothing is looked at.
Wakes(t, taking, errors, other) == In(t) \cup Out(t, taking) \cup errors # {} \/ other

\* Closing a connection changes the array of descriptors, and ends the round.
ospoll_wait ==
    /\ pc = "poll"
    /\ \E taking \in SUBSET s.writes, errors \in SUBSET (gone \cap Polled(s)), other \in BOOLEAN :
        \/ /\ ~Wakes(s, taking, errors, other) /\ s.ready # {}
           /\ s' = s
        \/ /\ Wakes(s, taking, errors, other) /\ errors = {}
           /\ s' = Report(s, Polled(s), taking)
        \/ \E c \in errors, before \in SUBSET (Polled(s) \ errors) :
              s' = CloseDownClient(Report(s, before, taking), c)
    /\ pc' = IF s'.ready # {} THEN "pick" ELSE "block"
    /\ UNCHANGED <<client, wire, gone, inputs>>

\* Priorities decide which of the ready clients it is.
SmartScheduleClient(c) ==
    /\ pc = "pick" /\ c \in s.ready
    /\ pc' = "serve" /\ client' = c
    /\ UNCHANGED <<s, wire, gone, inputs>>

SliceIsUsedUp(c) ==
    /\ client = c
    /\ EndTurn(s)
    /\ UNCHANGED <<wire, gone, inputs>>

\* The part of ReadRequestFromClient that goes to the socket
ReadRequestFromClient(c) ==
    /\ client = c /\ ~Whole(s, c)
    /\ IF c \in s.shut \/ (wire[c] = 0 /\ c \in gone)
       THEN EndTurn(CloseDownClient(s, c)) /\ wire' = wire
       ELSE LET n == Min({wire[c], BufSize - s.buf[c]})
                read == ReadFromSocket(s, c, n)
            IN /\ IF Whole(read, c) THEN s' = read /\ UNCHANGED <<pc, client>> ELSE EndTurn(read)
               /\ wire' = [wire EXCEPT ![c] = @ - n]
    /\ UNCHANGED <<gone, inputs>>

ExecuteRequest(c) ==
    /\ client = c /\ Whole(s, c)
    /\ \E kind \in Possible(s, c), fits \in BOOLEAN, taking \in SUBSET {c} :
        Continue(Execute(s, c, kind, fits, taking), c)
    /\ UNCHANGED <<wire, gone, inputs>>

\* New connections are due: a work procedure is queued, which runs before the next poll.
QueueNewConnections ==
    /\ pc = "block" /\ Clients # s.live \cup gone
    /\ pc' = "connect"
    /\ UNCHANGED <<s, client, wire, gone, inputs>>

\* First the clients are closed down that could not be written to, one after the other.
CloseStraggler ==
    /\ pc = "connect" /\ s.shut # {}
    /\ s' = CloseDownClient(s, Min(s.shut))
    /\ UNCHANGED <<pc, client, wire, gone, inputs>>

\* Then a connection is made, and the client's first half request is made up.
EstablishNewConnections(c) ==
    /\ pc = "connect" /\ s.shut = {} /\ c \notin s.live \cup gone
    /\ s' = set_poll_clients([s EXCEPT !.live = @ \cup {c}, !.buf[c] = 1, !.head[c] = "setup"],
                             {c})
    /\ pc' = "block"
    /\ UNCHANGED <<client, wire, gone, inputs>>

\* Input is processed, and a client gets an event.
ProcessInputEvents(c) ==
    /\ pc = "block" /\ inputs < MaxInput /\ c \in s.live
    /\ \E fits \in BOOLEAN, taking \in SUBSET {c} : s' = WriteToClient(s, c, fits, taking)
    /\ inputs' = inputs + 1
    /\ UNCHANGED <<pc, client, wire, gone>>

\* What a client slept for has happened; a work procedure, a timer or a request finds out.
ClientWakeup(c) ==
    /\ pc = "block" /\ c \in s.ignored \ s.waiters
    /\ s' = AttendClient(s, c)
    /\ UNCHANGED <<pc, client, wire, gone, inputs>>

-----------------------------------------------------------------------------
\* The clients

Send(c) ==
    /\ c \in s.live \ gone /\ inputs < MaxInput
    /\ inputs' = inputs + 1
    /\ \E n \in 1 .. Request : wire' = [wire EXCEPT ![c] = @ + n]
    /\ UNCHANGED <<s, pc, client, gone>>

Leave(c) ==
    /\ c \in s.live \ gone /\ Cardinality(gone) < MaxGone
    /\ gone' = gone \cup {c}
    /\ UNCHANGED <<s, pc, client, wire, inputs>>

-----------------------------------------------------------------------------
\* Some clients are connected, and some of these impervious; the others may connect.
Init ==
    /\ \E live \in SUBSET Clients : \E impervious \in SUBSET live :
        s = [live |-> live, shut |-> {}, buf |-> [c \in Clients |-> 0],
            head |-> [c \in Clients |-> "any"], ready |-> {}, saved |-> {},
            ignored |-> {}, impervious |-> impervious, waiters |-> {}, grab |-> None,
            yield |-> FALSE, reads |-> live, seen |-> {}, writes |-> {}, seenOut |-> {},
            out |-> {}, pending |-> {}, newOutput |-> FALSE, lapsed |-> {}]
    /\ pc = "block" /\ client = None
    /\ wire = [c \in Clients |-> 0] /\ gone = {}
    /\ inputs = 0

Serve(c) == ReadRequestFromClient(c) \/ ExecuteRequest(c)

Dispatch ==
    \/ BlockHandler \/ CloseStraggler \/ ospoll_wait
    \/ \E c \in Clients :
        EstablishNewConnections(c) \/ SmartScheduleClient(c) \/ SliceIsUsedUp(c) \/ Serve(c)

\* What else the server does before it blocks or serves a client
OtherWork ==
    \/ QueueNewConnections
    \/ \E c \in Clients : ProcessInputEvents(c) \/ ClientWakeup(c)

\* A client acts while the server sleeps or serves this client.  What it does at other
\* times is not noticed before the next poll, and could as well be done in it.  That it
\* reads what it was sent shows where the server writes or polls: see taking.
ClientsAct ==
    \E c \in Clients : (pc = "poll" \/ client = c) /\ (Send(c) \/ Leave(c))

Next == Dispatch \/ OtherWork \/ ClientsAct

\* The loop goes on; the priorities bring every client that is ready again and again to
\* its turn, and again and again a turn is long enough to serve it.
Fairness ==
    /\ WF_vars(Dispatch)
    /\ \A c \in Clients : SF_vars(SmartScheduleClient(c)) /\ SF_vars(Serve(c))

Spec == Init /\ [][Next]_vars /\ Fairness

-----------------------------------------------------------------------------
\* Properties

\* The types; a client is in one of the two lists at most, and clients that are not
\* connected are in none.
TypeOK ==
    /\ s \in ServerState
    /\ s.ready \cap s.saved = {}
    /\ s.ready \cup s.saved \cup s.reads \cup s.writes \cup s.pending \subseteq s.live
    /\ pc \in {"block", "connect", "poll", "pick", "serve"} /\ client \in Clients \cup {None}
    /\ (pc = "serve") = (client # None)
    /\ wire \in [Clients -> 0 .. Request * MaxInput] /\ gone \subseteq Clients
    /\ inputs \in 0 .. MaxInput

\* No event is lost to edge triggering.  The input of a client that may be served is in
\* the lists' hands (the client is being served, ready, or saved for the end of a
\* grab), or the poll is going to report it; a whole request in the buffer is in the
\* lists' hands.  And output in the buffer is about to be flushed or the poll is going
\* to report that the socket takes it.
NothingIsForgotten ==
    \A c \in s.live \ s.shut :
        /\ listen_to_client(s, c) =>
            \/ client_is_ready(s, c)
            \/ ~Whole(s, c) /\ c \in s.reads /\ c \notin s.seen
        /\ Whole(s, c) /\ c \notin s.ignored => client_is_ready(s, c)
        /\ c \in s.out =>
            c \in s.pending /\ (s.newOutput \/ (c \in s.writes /\ c \notin s.seenOut))

\* Only clients that the grab allows are ready, other than those whose connection is
\* closed already, and those that gave up being impervious while another client had the
\* grab and have not run out of requests since.
GrabIsKept ==
    \A c \in s.ready : listen_to_client(s, c) \/ c \in s.shut \cup s.lapsed

\* Whether it arrives whole or in halves, before, during or after a grab: in the end
\* every request is executed, unless its client sleeps, waits for the grab or is kept
\* out by one.
EveryRequestIsServed ==
    \A c \in Clients :
        <>[](c \in s.live /\ s.buf[c] + wire[c] >= Request
                => c \in s.ignored \/ s.grab \notin {None, c})
=============================================================================
