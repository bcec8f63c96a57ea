--------------------------- MODULE ClientLoopProofs ---------------------------
(***************************************************************************)
(* Proofs about ClientLoop, for any set of clients, any size of buffer and *)
(* any bounds.                                                             *)
(***************************************************************************)
EXTENDS ClientLoop, FiniteSetTheorems, WellFoundedInduction, TLAPS

-----------------------------------------------------------------------------
\* The invariant.  Its parts are about a state t of the server, so that they can be
\* followed through the operations a step is made of.

\* Who is in no list, who in one at most
ListInv(t) ==
    /\ t.ready \cap t.saved = {}
    /\ t.ready \subseteq t.live /\ t.saved \subseteq t.live
    /\ t.reads \subseteq t.live \ t.shut /\ t.writes \subseteq t.live \ t.shut
    /\ t.shut \subseteq t.live /\ t.waiters \subseteq t.live
    /\ t.pending \subseteq t.live /\ t.out \subseteq t.live

\* A client whose descriptor is open is polled exactly if it may be served.
PollInv(t) == \A c \in t.live \ t.shut : c \in t.reads <=> listen_to_client(t, c)

\* Who is ignored is in no list, unless its descriptor is closed.
IgnoredInv(t) ==
    /\ t.ignored \subseteq t.live
    /\ \A c \in t.ready \cup t.saved : c \in t.ignored => c \in t.shut

\* The parts of NothingIsForgotten
ServedInv(t) ==
    \A c \in t.live \ t.shut :
        listen_to_client(t, c) =>
            client_is_ready(t, c) \/ (~Whole(t, c) /\ c \in t.reads /\ c \notin t.seen)

WholeInv(t) ==
    \A c \in t.live \ t.shut :
        Whole(t, c) /\ c \notin t.ignored => client_is_ready(t, c)

OutputInv(t) ==
    \A c \in t.live \ t.shut :
        c \in t.out =>
            c \in t.pending /\ (t.newOutput \/ (c \in t.writes /\ c \notin t.seenOut))

\* GrabIsKept
GrabInv(t) == \A c \in t.ready : listen_to_client(t, c) \/ c \in t.shut \cup t.lapsed

InputKept(t) ==
    /\ t \in ServerState
    /\ ListInv(t) /\ PollInv(t) /\ IgnoredInv(t)
    /\ ServedInv(t) /\ WholeInv(t) /\ GrabInv(t)

Kept(t) == InputKept(t) /\ OutputInv(t)

LoopInv ==
    /\ pc \in {"block", "connect", "poll", "pick", "serve"} /\ client \in Clients \cup {None}
    /\ (pc = "serve") = (client # None)
    /\ client # None => client \in s.ready

EnvInv ==
    /\ inputs \in 0 .. MaxInput /\ gone \subseteq Clients
    /\ wire \in [Clients -> Nat] /\ \A c \in Clients : wire[c] <= Request * inputs

\* Descriptors are closed only after the client has gone.
ShutInv == s.shut \subseteq gone

IInv == Kept(s) /\ ShutInv /\ LoopInv /\ EnvInv

-----------------------------------------------------------------------------
\* Parts of the server's state that an operation leaves alone

SameClients(t, u) == u.live = t.live /\ u.shut = t.shut /\ u.buf = t.buf /\ u.head = t.head
SameLists(t, u) == u.ready = t.ready /\ u.saved = t.saved /\ u.lapsed = t.lapsed
SameGrab(t, u) ==
    u.ignored = t.ignored /\ u.impervious = t.impervious /\ u.waiters = t.waiters /\ u.grab = t.grab
SameInput(t, u) == u.reads = t.reads /\ u.seen = t.seen
SameOutput(t, u) ==
    /\ u.writes = t.writes /\ u.seenOut = t.seenOut
    /\ u.out = t.out /\ u.pending = t.pending /\ u.newOutput = t.newOutput

Heard(t, cs) == {c \in cs \ t.shut : listen_to_client(t, c)}

\* What set_poll_clients changes: only the poll's input, and who may be served stays so.
LEMMA PollIs ==
    ASSUME NEW t \in ServerState, NEW cs \in SUBSET Clients,
           NEW u, u = set_poll_clients(t, cs)
    PROVE  /\ u \in ServerState
           /\ SameClients(t, u) /\ SameLists(t, u) /\ SameGrab(t, u) /\ SameOutput(t, u)
           /\ u.yield = t.yield
           /\ u.reads = (t.reads \ cs) \cup Heard(t, cs) /\ u.seen = t.seen \ Heard(t, cs)
<1>1. Heard(t, cs) \subseteq Clients
  BY DEF Heard
<1>2. u = [t EXCEPT !.reads = (@ \ cs) \cup Heard(t, cs), !.seen = @ \ Heard(t, cs)]
  BY DEF set_poll_clients, Heard
<1>3. (t.reads \ cs) \cup Heard(t, cs) \in SUBSET Clients /\ t.seen \ Heard(t, cs) \in SUBSET Clients
  BY <1>1 DEF ServerState
<1>4. u \in ServerState
  BY <1>2, <1>3 DEF ServerState
<1>5. u.reads = (t.reads \ cs) \cup Heard(t, cs) /\ u.seen = t.seen \ Heard(t, cs)
  BY <1>2 DEF ServerState
<1>6. SameClients(t, u) /\ SameLists(t, u) /\ u.yield = t.yield
  BY <1>2 DEF ServerState, SameClients, SameLists
<1>7. SameGrab(t, u) /\ SameOutput(t, u)
  BY <1>2 DEF ServerState, SameGrab, SameOutput
<1>8. QED
  BY <1>4, <1>5, <1>6, <1>7

LEMMA IgnoreKeeps ==
    ASSUME NEW t, Kept(t), NEW c \in t.live
    PROVE  /\ Kept(IgnoreClient(t, c))
           /\ SameClients(t, IgnoreClient(t, c)) /\ IgnoreClient(t, c).yield
<1> DEFINE v == [mark_client_not_ready(t, c) EXCEPT !.yield = TRUE, !.ignored = @ \cup {c}]
           u == IgnoreClient(t, c)
<1>1. t \in ServerState /\ c \in Clients
  BY DEF Kept, InputKept, ServerState
<1>2. /\ v \in ServerState /\ SameClients(t, v) /\ SameOutput(t, v) /\ SameInput(t, v)
      /\ v.ready = t.ready \ {c} /\ v.saved = t.saved \ {c} /\ v.lapsed = t.lapsed \ {c}
      /\ v.ignored = t.ignored \cup {c} /\ v.impervious = t.impervious
      /\ v.waiters = t.waiters /\ v.grab = t.grab /\ v.yield = TRUE
  BY <1>1 DEF ServerState, SameClients, SameOutput, SameInput, mark_client_not_ready
<1>3. u = set_poll_clients(v, {c})
  BY DEF IgnoreClient
<1> HIDE DEF v, u
<1>4. /\ u \in ServerState
      /\ SameClients(v, u) /\ SameLists(v, u) /\ SameGrab(v, u) /\ SameOutput(v, u)
      /\ u.yield = v.yield
      /\ u.reads = (v.reads \ {c}) \cup Heard(v, {c}) /\ u.seen = v.seen \ Heard(v, {c})
  BY <1>1, <1>2, <1>3, PollIs
<1>5. Heard(v, {c}) = {}
  BY <1>2 DEF Heard, listen_to_client
<1>6. /\ SameClients(t, u) /\ SameOutput(t, u) /\ u.yield
      /\ u.ready = t.ready \ {c} /\ u.saved = t.saved \ {c} /\ u.lapsed = t.lapsed \ {c}
      /\ u.ignored = t.ignored \cup {c} /\ u.impervious = t.impervious
      /\ u.waiters = t.waiters /\ u.grab = t.grab
      /\ u.reads = t.reads \ {c} /\ u.seen = t.seen
  BY <1>2, <1>4, <1>5 DEF SameClients, SameLists, SameGrab, SameInput, SameOutput
<1>7. ListInv(u)
  BY <1>6 DEF Kept, InputKept, ListInv, SameClients, SameOutput
<1>8. PollInv(u) /\ IgnoredInv(u) /\ GrabInv(u)
  BY <1>6 DEF Kept, InputKept, PollInv, IgnoredInv, GrabInv, listen_to_client, SameClients
<1>9. ServedInv(u) /\ WholeInv(u)
  BY <1>6 DEF Kept, InputKept, ServedInv, WholeInv, Whole, client_is_ready, listen_to_client, SameClients
<1>10. OutputInv(u)
  BY <1>6 DEF Kept, InputKept, OutputInv, SameClients, SameOutput
<1>11. QED
  BY <1>4, <1>6, <1>7, <1>8, <1>9, <1>10 DEF Kept, InputKept, u

LEMMA AttendKeeps ==
    ASSUME NEW t, Kept(t), NEW c \in t.live
    PROVE  /\ Kept(AttendClient(t, c)) /\ SameClients(t, AttendClient(t, c))
           /\ t.ready \subseteq AttendClient(t, c).ready
           /\ AttendClient(t, c).grab = t.grab /\ AttendClient(t, c).yield = t.yield
           /\ AttendClient(t, c).waiters = t.waiters
<1> DEFINE v == [t EXCEPT !.ignored = @ \ {c}]
           h == set_poll_clients(v, {c})
           u == AttendClient(t, c)
<1>1. t \in ServerState /\ c \in Clients
  BY DEF Kept, InputKept, ServerState
<1>2. /\ v \in ServerState /\ SameClients(t, v) /\ SameLists(t, v) /\ SameOutput(t, v)
      /\ SameInput(t, v)
      /\ v.ignored = t.ignored \ {c} /\ v.impervious = t.impervious
      /\ v.waiters = t.waiters /\ v.grab = t.grab /\ v.yield = t.yield
  BY <1>1 DEF ServerState, SameClients, SameLists, SameOutput, SameInput
<1>3. u = IF listen_to_client(h, c) THEN mark_clients_ready(h, {c})
          ELSE mark_client_saved_ready(h, c)
  BY DEF AttendClient
<1> HIDE DEF v, u
<1>4. /\ h \in ServerState
      /\ SameClients(v, h) /\ SameLists(v, h) /\ SameGrab(v, h) /\ SameOutput(v, h)
      /\ h.yield = v.yield
      /\ h.reads = (v.reads \ {c}) \cup Heard(v, {c}) /\ h.seen = v.seen \ Heard(v, {c})
  BY <1>1, <1>2, PollIs
<1> HIDE DEF h
<1>5. /\ u \in ServerState /\ SameClients(h, u) /\ SameGrab(h, u) /\ SameOutput(h, u)
      /\ SameInput(h, u) /\ u.yield = h.yield /\ u.lapsed = h.lapsed
      /\ u.ready = IF listen_to_client(h, c) /\ c \notin h.saved THEN h.ready \cup {c} ELSE h.ready
      /\ u.saved = IF ~listen_to_client(h, c) /\ c \notin h.ready THEN h.saved \cup {c} ELSE h.saved
  <2>1. CASE listen_to_client(h, c)
    <3>1. u = [h EXCEPT !.ready = @ \cup ({c} \ h.saved)]
      BY <1>3, <2>1 DEF mark_clients_ready
    <3>2. u \in ServerState /\ SameClients(h, u) /\ SameInput(h, u) /\ u.yield = h.yield
      BY <1>1, <1>4, <3>1 DEF ServerState, SameClients, SameInput
    <3>3. SameGrab(h, u) /\ SameOutput(h, u) /\ u.lapsed = h.lapsed /\ u.saved = h.saved
      BY <1>4, <3>1 DEF ServerState, SameGrab, SameOutput
    <3>4. u.ready = h.ready \cup ({c} \ h.saved)
      BY <1>4, <3>1 DEF ServerState
    <3>5. QED
      BY <2>1, <3>2, <3>3, <3>4
  <2>2. CASE ~listen_to_client(h, c) /\ c \notin h.ready
    <3>1. u = [h EXCEPT !.saved = @ \cup {c}]
      BY <1>3, <2>2 DEF mark_client_saved_ready
    <3>2. u \in ServerState /\ SameClients(h, u) /\ SameInput(h, u) /\ u.yield = h.yield
      BY <1>1, <1>4, <3>1 DEF ServerState, SameClients, SameInput
    <3>3. SameGrab(h, u) /\ SameOutput(h, u) /\ u.lapsed = h.lapsed /\ u.ready = h.ready
      BY <1>4, <3>1 DEF ServerState, SameGrab, SameOutput
    <3>4. u.saved = h.saved \cup {c}
      BY <1>4, <3>1 DEF ServerState
    <3>5. QED
      BY <2>2, <3>2, <3>3, <3>4
  <2>3. CASE ~listen_to_client(h, c) /\ c \in h.ready
    BY <1>3, <1>4, <2>3
       DEF mark_client_saved_ready, SameClients, SameGrab, SameOutput, SameInput
  <2>4. QED
    BY <2>1, <2>2, <2>3
<1>6. /\ SameClients(t, u) /\ SameOutput(t, u) /\ u.yield = t.yield /\ u.lapsed = t.lapsed
      /\ u.ignored = t.ignored \ {c} /\ u.impervious = t.impervious
      /\ u.waiters = t.waiters /\ u.grab = t.grab
      /\ u.reads = (t.reads \ {c}) \cup Heard(v, {c}) /\ u.seen = t.seen \ Heard(v, {c})
      /\ u.ready = IF listen_to_client(u, c) /\ c \notin t.saved THEN t.ready \cup {c} ELSE t.ready
      /\ u.saved = IF ~listen_to_client(u, c) /\ c \notin t.ready THEN t.saved \cup {c} ELSE t.saved
  BY <1>2, <1>4, <1>5
     DEF SameClients, SameLists, SameGrab, SameInput, SameOutput, listen_to_client
<1>7. Heard(v, {c}) = {d \in {c} \ t.shut : listen_to_client(u, c)}
  BY <1>2, <1>6 DEF Heard, listen_to_client, SameClients
<1>8. ListInv(u)
  BY <1>6, <1>7 DEF Kept, InputKept, ListInv, SameClients, SameOutput
<1>9. PollInv(u)
  BY <1>6, <1>7 DEF Kept, InputKept, PollInv, listen_to_client, SameClients
<1>10. IgnoredInv(u) /\ GrabInv(u)
  BY <1>6 DEF Kept, InputKept, IgnoredInv, GrabInv, listen_to_client, SameClients
<1>11. ServedInv(u)
  BY <1>6, <1>7 DEF Kept, InputKept, ServedInv, Whole, client_is_ready, listen_to_client, SameClients
<1>12. WholeInv(u)
  BY <1>6 DEF Kept, InputKept, WholeInv, Whole, client_is_ready, SameClients
<1>13. OutputInv(u)
  BY <1>6 DEF Kept, InputKept, OutputInv, SameClients, SameOutput
<1>14. QED
  BY <1>5, <1>6, <1>8, <1>9, <1>10, <1>11, <1>12, <1>13 DEF Kept, InputKept, u

-----------------------------------------------------------------------------
\* Grabs

\* A finite set of numbers has a greatest and a smallest one: a smallest set without them
\* could do without any of its elements.
HasMax(S) == \E m \in S : \A n \in S : m >= n
HasMin(S) == \E m \in S : \A n \in S : m =< n

LEMMA HasExtremes ==
    ASSUME NEW S \in SUBSET Nat, IsFiniteSet(S), S # {}
    PROVE  HasMax(S) /\ HasMin(S)
<1> DEFINE Bad == {T \in SUBSET S : T # {} /\ ~(HasMax(T) /\ HasMin(T))}
<1>1. SUFFICES ASSUME Bad # {} PROVE FALSE
  OBVIOUS
<1>2. IsWellFoundedOn(StrictSubsetOrdering(S), SUBSET S)
  BY FS_StrictSubsetOrderingWellFounded, FS_FiniteSubsetsOfFinite
<1>3. PICK T \in Bad : \A U \in Bad : <<U, T>> \notin StrictSubsetOrdering(S)
  BY <1>1, <1>2, WFMin
<1>4. PICK x : x \in T
  BY <1>3
<1> DEFINE U == T \ {x}
<1>5. T \in SUBSET S /\ U \in SUBSET S /\ x \in Nat /\ T \subseteq Nat
  BY <1>3, <1>4
<1>6. U \notin Bad
  BY <1>3, <1>4, <1>5 DEF StrictSubsetOrdering
<1>7. CASE U = {}
  <2>1. T = {x}
    BY <1>4, <1>7
  <2>2. HasMax(T) /\ HasMin(T)
    BY <1>5, <2>1 DEF HasMax, HasMin
  <2>3. QED
    BY <1>3, <2>2
<1>8. CASE U # {}
  <2>1. HasMax(U) /\ HasMin(U)
    BY <1>5, <1>6, <1>8
  <2>2. PICK m \in U : \A n \in U : m >= n
    BY <2>1 DEF HasMax
  <2>3. PICK k \in U : \A n \in U : k =< n
    BY <2>1 DEF HasMin
  <2>4. m \in Nat /\ k \in Nat /\ T = U \cup {x}
    BY <1>4, <1>5
  <2> HIDE DEF U
  <2>5. HasMax(T)
    BY <1>5, <2>2, <2>4 DEF HasMax
  <2>6. HasMin(T)
    BY <1>5, <2>3, <2>4 DEF HasMin
  <2>7. QED
    BY <1>3, <2>5, <2>6
<1>9. QED
  BY <1>7, <1>8

LEMMA MinIn ==
    ASSUME NEW S \in SUBSET Nat, IsFiniteSet(S), S # {}
    PROVE  Min(S) \in S
BY HasExtremes DEF HasMin, Min

LEMMA FirstWaiterWaits ==
    ASSUME NEW W \in SUBSET Clients, W # {}
    PROVE  FirstWaiter(W) \in W
<1> DEFINE words == {c \div 32 : c \in W}
           last == Max(words)
           there == {c \in W : c \div 32 = last}
<1>1. W \subseteq Nat /\ IsFiniteSet(W)
  BY LoopAssumption, FS_Subset
<1>2. words \in SUBSET Nat /\ words # {} /\ IsFiniteSet(words)
  <2>1. [c \in W |-> c \div 32] \in Surjection(W, words)
    BY DEF Surjection
  <2>2. IsFiniteSet(words)
    BY <1>1, <2>1, FS_Surjection
  <2>3. \A c \in W : c \div 32 \in Nat
    BY <1>1
  <2>4. QED
    BY <2>2, <2>3
<1>3. last \in words
  BY <1>2, HasExtremes DEF HasMax, Max
<1>4. there \in SUBSET Nat /\ there # {} /\ there \subseteq W
  BY <1>1, <1>3
<1>5. IsFiniteSet(there)
  BY <1>1, <1>4, FS_Subset
<1>6. Min(there) \in there
  BY <1>4, <1>5, MinIn
<1>7. QED
  BY <1>4, <1>6 DEF FirstWaiter

\* After a grab ends, all clients that are not ignored may be served.
LEMMA UngrabKeeps ==
    ASSUME NEW t, Kept(t)
    PROVE  /\ Kept(UngrabServer(t)) /\ SameClients(t, UngrabServer(t))
           /\ t.ready \subseteq UngrabServer(t).ready
           /\ UngrabServer(t).grab = None /\ UngrabServer(t).yield = t.yield
<1> DEFINE v == [t EXCEPT !.grab = None]
           f == IF t.grab = None THEN t ELSE set_poll_clients(v, t.live)
           a == mark_client_ungrab(f)
           next == FirstWaiter(a.waiters)
           w == [a EXCEPT !.waiters = @ \ {next}]
           u == UngrabServer(t)
<1>1. t \in ServerState /\ t.live \in SUBSET Clients
  BY DEF Kept, InputKept, ServerState
<1>2. /\ v \in ServerState /\ SameClients(t, v) /\ SameLists(t, v) /\ SameOutput(t, v)
      /\ SameInput(t, v)
      /\ v.ignored = t.ignored /\ v.impervious = t.impervious
      /\ v.waiters = t.waiters /\ v.grab = None /\ v.yield = t.yield
  BY <1>1 DEF ServerState, SameClients, SameLists, SameOutput, SameInput
<1>3. u = IF a.waiters = {} THEN a ELSE AttendClient(w, next)
  BY DEF UngrabServer
<1>4. a = [f EXCEPT !.ready = @ \cup f.saved, !.saved = {}]
  BY DEF mark_client_ungrab
<1> DEFINE all == Heard(v, t.live)
<1>5. /\ f \in ServerState /\ SameClients(t, f) /\ SameLists(t, f) /\ SameOutput(t, f)
      /\ f.ignored = t.ignored /\ f.impervious = t.impervious /\ f.waiters = t.waiters
      /\ f.grab = None /\ f.yield = t.yield
      /\ \A c \in t.live \ t.shut : c \in f.reads <=> c \notin t.ignored
      /\ f.reads \subseteq t.live \ t.shut
      /\ f.seen \subseteq t.seen
      /\ \A c \in t.live \ t.shut : listen_to_client(t, c) \/ c \in t.ignored \/ c \notin f.seen
  <2>1. CASE t.grab = None
    <3>1. f = t
      BY <2>1
    <3>2. QED
      BY <1>1, <2>1, <3>1
         DEF Kept, InputKept, SameClients, SameLists, SameOutput, PollInv, ListInv, listen_to_client
  <2>2. CASE t.grab # None
    <3>1. f = set_poll_clients(v, t.live)
      BY <2>2
    <3> HIDE DEF f, v
    <3>2. /\ f \in ServerState
          /\ SameClients(v, f) /\ SameLists(v, f) /\ SameGrab(v, f) /\ SameOutput(v, f)
          /\ f.yield = v.yield
          /\ f.reads = (v.reads \ t.live) \cup Heard(v, t.live)
          /\ f.seen = v.seen \ Heard(v, t.live)
      BY <1>1, <1>2, <3>1, PollIs
    <3>3. Heard(v, t.live) = {c \in t.live \ t.shut : c \notin t.ignored}
      BY <1>2 DEF Heard, listen_to_client, SameClients
    <3>4. v.reads = t.reads /\ v.seen = t.seen /\ t.reads \subseteq t.live
      BY <1>2 DEF SameInput, Kept, InputKept, ListInv
    <3>5. QED
      BY <1>2, <3>2, <3>3, <3>4 DEF SameClients, SameLists, SameOutput, SameGrab
  <2>3. QED
    BY <2>1, <2>2
<1> HIDE DEF f, v
<1>6. /\ a \in ServerState /\ SameClients(f, a) /\ SameInput(f, a) /\ a.yield = f.yield
      /\ a.lapsed = f.lapsed
  <2>1. f \in ServerState
    BY <1>5
  <2>2. f.ready \cup f.saved \in SUBSET Clients
    BY <2>1 DEF ServerState
  <2>3. a \in ServerState
    BY <1>4, <2>1, <2>2 DEF ServerState
  <2>4. SameClients(f, a) /\ SameInput(f, a) /\ a.yield = f.yield /\ a.lapsed = f.lapsed
    BY <1>4, <2>1 DEF ServerState, SameClients, SameInput
  <2>5. QED
    BY <2>3, <2>4
<1>7. SameGrab(f, a) /\ SameOutput(f, a)
  BY <1>4, <1>5 DEF ServerState, SameGrab, SameOutput
<1>8. a.ready = f.ready \cup f.saved /\ a.saved = {}
  BY <1>4, <1>5 DEF ServerState
<1> HIDE DEF a
<1>9. /\ SameClients(t, a) /\ SameOutput(t, a) /\ a.yield = t.yield
      /\ a.ignored = t.ignored /\ a.grab = None /\ a.waiters = t.waiters
      /\ a.ready = t.ready \cup t.saved /\ a.saved = {}
      /\ \A c \in t.live \ t.shut : c \in a.reads <=> c \notin t.ignored
      /\ a.reads \subseteq t.live \ t.shut
      /\ a.seen \subseteq t.seen
      /\ \A c \in t.live \ t.shut : listen_to_client(t, c) \/ c \in t.ignored \/ c \notin a.seen
  BY <1>5, <1>6, <1>7, <1>8 DEF SameClients, SameLists, SameInput, SameOutput, SameGrab
<1>10. ListInv(a)
  BY <1>9 DEF Kept, InputKept, ListInv, SameClients, SameOutput
<1>11. PollInv(a) /\ IgnoredInv(a)
  BY <1>9 DEF Kept, InputKept, PollInv, IgnoredInv, listen_to_client, SameClients
<1>12. GrabInv(a)
  BY <1>9, <1>10, <1>11 DEF GrabInv, IgnoredInv, listen_to_client, SameClients
<1>13. WholeInv(a)
  BY <1>9 DEF Kept, InputKept, WholeInv, Whole, client_is_ready, SameClients
<1>14. ServedInv(a)
  <2>1. SUFFICES ASSUME NEW c \in t.live \ t.shut, c \notin t.ignored, c \notin a.ready
                 PROVE  ~Whole(a, c) /\ c \in a.reads /\ c \notin a.seen
    BY <1>9 DEF ServedInv, SameClients, listen_to_client, client_is_ready
  <2>2. ~client_is_ready(t, c)
    BY <1>9, <2>1 DEF client_is_ready
  <2>3. ~Whole(t, c)
    BY <2>1, <2>2 DEF Kept, InputKept, WholeInv
  <2>4. c \in a.reads /\ ~Whole(a, c)
    BY <1>9, <2>1, <2>3 DEF Whole, SameClients
  <2>5. c \notin a.seen
    BY <1>9, <2>1, <2>2 DEF Kept, InputKept, ServedInv
  <2>6. QED
    BY <2>4, <2>5
<1>15. OutputInv(a)
  BY <1>9 DEF Kept, OutputInv, SameClients, SameOutput
<1>16. Kept(a)
  BY <1>6, <1>10, <1>11, <1>12, <1>13, <1>14, <1>15 DEF Kept, InputKept
<1>17. CASE a.waiters = {}
  BY <1>3, <1>9, <1>16, <1>17
<1>18. CASE a.waiters # {}
  <2>1. a.waiters \in SUBSET Clients /\ next \in a.waiters /\ next \in a.live
    BY <1>6, <1>10, <1>18, FirstWaiterWaits DEF ServerState, ListInv
  <2> HIDE DEF next
  <2>2. /\ w \in ServerState /\ SameClients(a, w) /\ SameLists(a, w) /\ SameInput(a, w)
        /\ w.yield = a.yield
    BY <1>6 DEF ServerState, SameClients, SameLists, SameInput
  <2>3. /\ SameOutput(a, w) /\ w.ignored = a.ignored /\ w.impervious = a.impervious
        /\ w.grab = a.grab /\ w.waiters = a.waiters \ {next}
    BY <1>6 DEF ServerState, SameOutput
  <2> HIDE DEF w
  <2>4. ListInv(w) /\ OutputInv(w)
    BY <1>16, <2>2, <2>3
       DEF Kept, InputKept, ListInv, OutputInv, SameClients, SameLists, SameInput, SameOutput
  <2>5. PollInv(w) /\ IgnoredInv(w) /\ GrabInv(w)
    BY <1>16, <2>2, <2>3
       DEF Kept, InputKept, PollInv, IgnoredInv, GrabInv, listen_to_client, SameClients,
           SameLists, SameInput
  <2>6. ServedInv(w) /\ WholeInv(w)
    BY <1>16, <2>2, <2>3
       DEF Kept, InputKept, ServedInv, WholeInv, Whole, client_is_ready, listen_to_client,
           SameClients, SameLists, SameInput
  <2>7. Kept(w)
    BY <2>2, <2>4, <2>5, <2>6 DEF Kept, InputKept
  <2>8. u = AttendClient(w, next)
    BY <1>3, <1>18
  <2> HIDE DEF u
  <2>9. /\ Kept(u) /\ SameClients(w, u) /\ w.ready \subseteq u.ready
        /\ u.grab = w.grab /\ u.yield = w.yield
    BY <2>1, <2>2, <2>7, <2>8, AttendKeeps DEF SameClients
  <2>10. QED
    BY <1>9, <2>2, <2>3, <2>9 DEF SameClients, SameLists, u
<1>19. QED
  BY <1>17, <1>18

\* A grab leaves only its client ready; a client that has to wait for the grab puts its
\* request back and is ignored.
LEMMA GrabKeeps ==
    ASSUME NEW t, Kept(t), NEW c \in t.ready, t.buf[c] + Request <= BufSize
    PROVE  /\ Kept(GrabServer(t, c))
           /\ GrabServer(t, c).live = t.live /\ GrabServer(t, c).shut = t.shut
           /\ GrabServer(t, c).yield \/ c \in GrabServer(t, c).ready
<1> DEFINE u == GrabServer(t, c)
<1>1. t \in ServerState /\ c \in Clients /\ c \in t.live /\ t.live \in SUBSET Clients
  BY DEF Kept, InputKept, ServerState, ListInv
<1>2. CASE t.grab \notin {None, c}
  <2> DEFINE v == [t EXCEPT !.head[c] = "grab", !.buf[c] = @ + Request, !.waiters = @ \cup {c}]
  <2>1. t.buf[c] + Request \in 0 .. BufSize
    BY <1>1, LoopAssumption DEF ServerState, Request
  <2>2. /\ v \in ServerState /\ v.live = t.live /\ v.shut = t.shut /\ SameLists(t, v)
        /\ SameInput(t, v)
    BY <1>1, <2>1 DEF ServerState, SameLists, SameInput
  <2>3. /\ SameOutput(t, v) /\ v.ignored = t.ignored /\ v.impervious = t.impervious
        /\ v.grab = t.grab /\ v.waiters = t.waiters \cup {c}
    BY <1>1 DEF ServerState, SameOutput
  <2>4. \A d \in Clients : d # c => v.buf[d] = t.buf[d]
    BY <1>1 DEF ServerState
  <2>5. u = IgnoreClient(v, c)
    BY <1>2 DEF GrabServer
  <2> HIDE DEF v, u
  <2>6. ListInv(v) /\ OutputInv(v)
    BY <1>1, <2>2, <2>3
       DEF Kept, InputKept, ListInv, OutputInv, SameLists, SameInput, SameOutput
  <2>7. PollInv(v) /\ IgnoredInv(v) /\ GrabInv(v)
    BY <2>2, <2>3
       DEF Kept, InputKept, PollInv, IgnoredInv, GrabInv, listen_to_client, SameLists, SameInput
  <2>8. ServedInv(v) /\ WholeInv(v)
    BY <1>1, <2>2, <2>3, <2>4
       DEF Kept, InputKept, ServedInv, WholeInv, Whole, client_is_ready, listen_to_client,
           SameLists, SameInput
  <2>9. Kept(v)
    BY <2>2, <2>6, <2>7, <2>8 DEF Kept, InputKept
  <2>10. Kept(u) /\ SameClients(v, u) /\ u.yield
    BY <1>1, <2>2, <2>5, <2>9, IgnoreKeeps
  <2>11. QED
    BY <2>2, <2>10 DEF SameClients, u
<1>3. CASE t.grab \in {None, c}
  <2> DEFINE v == [t EXCEPT !.grab = c]
             a == IF t.grab = None THEN set_poll_clients(v, t.live) ELSE t
  <2>1. /\ v \in ServerState /\ SameClients(t, v) /\ SameLists(t, v) /\ SameOutput(t, v)
        /\ SameInput(t, v)
        /\ v.ignored = t.ignored /\ v.impervious = t.impervious
        /\ v.waiters = t.waiters /\ v.grab = c /\ v.yield = t.yield
    BY <1>1 DEF ServerState, SameClients, SameLists, SameOutput, SameInput
  <2>2. u = [a EXCEPT !.ready = @ \cap {c}, !.saved = @ \cup (a.ready \ {c})]
    BY <1>3 DEF GrabServer
  <2>3. /\ a \in ServerState /\ SameClients(t, a) /\ SameLists(t, a) /\ SameOutput(t, a)
        /\ a.ignored = t.ignored /\ a.impervious = t.impervious /\ a.waiters = t.waiters
        /\ a.grab = c
        /\ a.reads \subseteq t.live \ t.shut /\ PollInv(a)
        /\ a.seen \subseteq t.seen
    <3>1. CASE t.grab = None
      <4>1. a = set_poll_clients(v, t.live)
        BY <3>1
      <4> HIDE DEF a, v
      <4>2. /\ a \in ServerState
            /\ SameClients(v, a) /\ SameLists(v, a) /\ SameGrab(v, a) /\ SameOutput(v, a)
            /\ a.reads = (v.reads \ t.live) \cup Heard(v, t.live)
            /\ a.seen = v.seen \ Heard(v, t.live)
        BY <1>1, <2>1, <4>1, PollIs
      <4>3. Heard(v, t.live) = {d \in t.live \ t.shut : listen_to_client(a, d)}
        BY <2>1, <4>2 DEF Heard, listen_to_client, SameClients, SameGrab
      <4>4. v.reads = t.reads /\ v.seen = t.seen /\ t.reads \subseteq t.live
        BY <2>1 DEF SameInput, Kept, InputKept, ListInv
      <4>5. a.reads = {d \in t.live \ t.shut : listen_to_client(a, d)}
        BY <4>2, <4>3, <4>4
      <4>6. PollInv(a)
        BY <2>1, <4>2, <4>5 DEF PollInv, SameClients
      <4>7. QED
        BY <2>1, <4>2, <4>4, <4>5, <4>6 DEF SameClients, SameLists, SameOutput, SameGrab
    <3>2. CASE t.grab = c /\ t.grab # None
      BY <1>1, <3>2 DEF Kept, InputKept, ListInv, SameClients, SameLists, SameOutput
    <3>3. QED
      BY <1>3, <3>1, <3>2
  <2> HIDE DEF a, v
  <2>4. a \in ServerState /\ a.ready \cap {c} \in SUBSET Clients
        /\ a.saved \cup (a.ready \ {c}) \in SUBSET Clients
    BY <2>3 DEF ServerState
  <2>5. u \in ServerState /\ SameClients(a, u) /\ SameInput(a, u)
    BY <2>2, <2>4 DEF ServerState, SameClients, SameInput
  <2>6. SameGrab(a, u) /\ SameOutput(a, u) /\ u.lapsed = a.lapsed
    BY <2>2, <2>4 DEF ServerState, SameGrab, SameOutput
  <2>7. u.ready = a.ready \cap {c} /\ u.saved = a.saved \cup (a.ready \ {c})
    BY <2>2, <2>4 DEF ServerState
  <2> HIDE DEF u
  <2>8. /\ SameClients(t, u) /\ SameOutput(t, u)
        /\ u.ignored = t.ignored /\ u.impervious = t.impervious /\ u.waiters = t.waiters
        /\ u.grab = c
        /\ u.ready = {c} /\ u.saved = t.saved \cup (t.ready \ {c})
        /\ u.reads \subseteq t.live \ t.shut /\ u.seen \subseteq t.seen
    BY <2>3, <2>5, <2>6, <2>7
       DEF SameClients, SameLists, SameGrab, SameInput, SameOutput
  <2>9. PollInv(u)
    BY <2>3, <2>5, <2>6 DEF PollInv, SameClients, SameInput, SameGrab, listen_to_client
  <2>10. ListInv(u)
    BY <1>1, <2>8 DEF Kept, InputKept, ListInv, SameClients, SameOutput
  <2>11. IgnoredInv(u) /\ GrabInv(u)
    BY <2>8 DEF Kept, InputKept, IgnoredInv, GrabInv, listen_to_client, SameClients
  <2>12. WholeInv(u)
    BY <2>8 DEF Kept, InputKept, WholeInv, Whole, client_is_ready, SameClients
  <2>13. ServedInv(u)
    <3>1. SUFFICES ASSUME NEW d \in t.live \ t.shut, listen_to_client(u, d),
                          ~client_is_ready(u, d)
                   PROVE  ~Whole(u, d) /\ d \in u.reads /\ d \notin u.seen
      BY <2>8 DEF ServedInv, SameClients
    <3>2. ~client_is_ready(t, d) /\ d # c
      BY <2>8, <3>1 DEF client_is_ready
    <3>3. listen_to_client(t, d)
      <4>1. c # None
        BY <1>1, LoopAssumption
      <4>2. QED
        BY <2>8, <3>1, <3>2, <4>1 DEF listen_to_client
    <3>4. ~Whole(t, d) /\ d \notin t.seen
      BY <3>1, <3>2, <3>3 DEF Kept, InputKept, ServedInv
    <3>5. QED
      BY <2>8, <2>9, <3>1, <3>4 DEF Whole, SameClients, PollInv
  <2>14. OutputInv(u)
    BY <2>8 DEF Kept, OutputInv, SameClients, SameOutput
  <2>15. QED
    BY <2>5, <2>8, <2>9, <2>10, <2>11, <2>12, <2>13, <2>14 DEF Kept, InputKept, SameClients, u
<1>4. QED
  BY <1>2, <1>3

LEMMA ImperviousKeeps ==
    ASSUME NEW t, Kept(t), NEW c \in t.ready
    PROVE  /\ Kept(MakeClientGrabImpervious(t, c))
           /\ SameClients(t, MakeClientGrabImpervious(t, c))
           /\ MakeClientGrabImpervious(t, c).ready = t.ready
<1> DEFINE v == [t EXCEPT !.impervious = @ \cup {c}, !.lapsed = @ \ {c}]
           u == MakeClientGrabImpervious(t, c)
<1>1. t \in ServerState /\ c \in Clients /\ c \in t.live
  BY DEF Kept, InputKept, ServerState, ListInv
<1>2. /\ v \in ServerState /\ SameClients(t, v) /\ SameOutput(t, v) /\ SameInput(t, v)
      /\ v.ready = t.ready /\ v.saved = t.saved /\ v.lapsed = t.lapsed \ {c}
      /\ v.ignored = t.ignored /\ v.impervious = t.impervious \cup {c}
      /\ v.waiters = t.waiters /\ v.grab = t.grab
  BY <1>1 DEF ServerState, SameClients, SameOutput, SameInput
<1>3. u = set_poll_clients(v, {c})
  BY DEF MakeClientGrabImpervious
<1> HIDE DEF v, u
<1>4. /\ u \in ServerState
      /\ SameClients(v, u) /\ SameLists(v, u) /\ SameGrab(v, u) /\ SameOutput(v, u)
      /\ u.reads = (v.reads \ {c}) \cup Heard(v, {c}) /\ u.seen = v.seen \ Heard(v, {c})
  BY <1>1, <1>2, <1>3, PollIs
<1>5. /\ SameClients(t, u) /\ SameOutput(t, u)
      /\ u.ready = t.ready /\ u.saved = t.saved /\ u.lapsed = t.lapsed \ {c}
      /\ u.ignored = t.ignored /\ u.impervious = t.impervious \cup {c}
      /\ u.waiters = t.waiters /\ u.grab = t.grab
      /\ u.reads = (t.reads \ {c}) \cup Heard(v, {c}) /\ u.seen = t.seen \ Heard(v, {c})
  BY <1>2, <1>4 DEF SameClients, SameLists, SameGrab, SameInput, SameOutput
<1>6. Heard(v, {c}) = {d \in {c} \ t.shut : listen_to_client(u, c)}
  BY <1>2, <1>5 DEF Heard, listen_to_client, SameClients
<1>7. ListInv(u) /\ OutputInv(u)
  BY <1>1, <1>5, <1>6 DEF Kept, InputKept, ListInv, OutputInv, SameClients, SameOutput
<1>8. PollInv(u)
  BY <1>5, <1>6 DEF Kept, InputKept, PollInv, listen_to_client, SameClients
<1>9. IgnoredInv(u)
  BY <1>5 DEF Kept, InputKept, IgnoredInv, SameClients
<1>10. GrabInv(u)
  <2>1. c \in t.shut \/ c \notin t.ignored
    BY DEF Kept, InputKept, IgnoredInv
  <2>2. QED
    BY <1>5, <2>1 DEF Kept, InputKept, GrabInv, listen_to_client, SameClients
<1>11. ServedInv(u)
  <2>1. SUFFICES ASSUME NEW d \in t.live \ t.shut, listen_to_client(u, d),
                        ~client_is_ready(u, d)
                 PROVE  ~Whole(u, d) /\ d \in u.reads /\ d \notin u.seen
    BY <1>5 DEF ServedInv, SameClients
  <2>2. d # c /\ ~client_is_ready(t, d) /\ listen_to_client(t, d)
    BY <1>5, <2>1 DEF client_is_ready, listen_to_client
  <2>3. ~Whole(t, d) /\ d \in t.reads /\ d \notin t.seen
    BY <2>1, <2>2 DEF Kept, InputKept, ServedInv
  <2>4. QED
    BY <1>5, <2>2, <2>3 DEF Whole, SameClients
<1>12. WholeInv(u)
  BY <1>5 DEF Kept, InputKept, WholeInv, Whole, client_is_ready, SameClients
<1>13. QED
  BY <1>4, <1>5, <1>7, <1>8, <1>9, <1>10, <1>11, <1>12 DEF Kept, InputKept, u

LEMMA PerviousKeeps ==
    ASSUME NEW t, Kept(t), NEW c \in t.ready
    PROVE  /\ Kept(MakeClientGrabPervious(t, c))
           /\ SameClients(t, MakeClientGrabPervious(t, c))
           /\ MakeClientGrabPervious(t, c).yield
<1> DEFINE v == [t EXCEPT !.impervious = @ \ {c}, !.yield = TRUE]
           p == set_poll_clients(v, {c})
           u == MakeClientGrabPervious(t, c)
<1>1. t \in ServerState /\ c \in Clients /\ c \in t.live
  BY DEF Kept, InputKept, ServerState, ListInv
<1>2. /\ v \in ServerState /\ SameClients(t, v) /\ SameOutput(t, v) /\ SameInput(t, v)
      /\ SameLists(t, v)
      /\ v.ignored = t.ignored /\ v.impervious = t.impervious \ {c}
      /\ v.waiters = t.waiters /\ v.grab = t.grab /\ v.yield = TRUE
  BY <1>1 DEF ServerState, SameClients, SameOutput, SameInput, SameLists
<1>3. u = IF listen_to_client(p, c) THEN p ELSE [p EXCEPT !.lapsed = @ \cup {c}]
  BY DEF MakeClientGrabPervious
<1> HIDE DEF v, u
<1>4. /\ p \in ServerState
      /\ SameClients(v, p) /\ SameLists(v, p) /\ SameGrab(v, p) /\ SameOutput(v, p)
      /\ p.yield = v.yield
      /\ p.reads = (v.reads \ {c}) \cup Heard(v, {c}) /\ p.seen = v.seen \ Heard(v, {c})
  BY <1>1, <1>2, PollIs
<1> HIDE DEF p
<1>5. /\ u \in ServerState /\ SameClients(p, u) /\ SameGrab(p, u) /\ SameOutput(p, u)
      /\ SameInput(p, u) /\ u.yield = p.yield /\ u.ready = p.ready /\ u.saved = p.saved
      /\ p.lapsed \subseteq u.lapsed /\ (listen_to_client(p, c) \/ c \in u.lapsed)
  <2>1. CASE listen_to_client(p, c)
    BY <1>3, <1>4, <2>1 DEF SameClients, SameGrab, SameOutput, SameInput
  <2>2. CASE ~listen_to_client(p, c)
    <3>1. u = [p EXCEPT !.lapsed = @ \cup {c}]
      BY <1>3, <2>2
    <3>2. u \in ServerState /\ SameClients(p, u) /\ SameGrab(p, u) /\ u.yield = p.yield
      BY <1>1, <1>4, <3>1 DEF ServerState, SameClients, SameGrab
    <3>3. /\ SameOutput(p, u) /\ SameInput(p, u) /\ u.ready = p.ready /\ u.saved = p.saved
          /\ u.lapsed = p.lapsed \cup {c}
      BY <1>4, <3>1 DEF ServerState, SameOutput, SameInput
    <3>4. QED
      BY <3>2, <3>3
  <2>3. QED
    BY <2>1, <2>2
<1>6. /\ SameClients(t, u) /\ SameOutput(t, u)
      /\ u.ready = t.ready /\ u.saved = t.saved /\ t.lapsed \subseteq u.lapsed /\ u.yield
      /\ u.ignored = t.ignored /\ u.impervious = t.impervious \ {c}
      /\ u.waiters = t.waiters /\ u.grab = t.grab
      /\ u.reads = (t.reads \ {c}) \cup Heard(v, {c}) /\ u.seen = t.seen \ Heard(v, {c})
      /\ (listen_to_client(u, c) \/ c \in u.lapsed)
  BY <1>2, <1>4, <1>5
     DEF SameClients, SameLists, SameGrab, SameInput, SameOutput, listen_to_client
<1>7. Heard(v, {c}) = {d \in {c} \ t.shut : listen_to_client(u, c)}
  BY <1>2, <1>6 DEF Heard, listen_to_client, SameClients
<1>8. ListInv(u) /\ OutputInv(u)
  BY <1>1, <1>6, <1>7 DEF Kept, InputKept, ListInv, OutputInv, SameClients, SameOutput
<1>9. PollInv(u)
  BY <1>6, <1>7 DEF Kept, InputKept, PollInv, listen_to_client, SameClients
<1>10. IgnoredInv(u)
  BY <1>6 DEF Kept, InputKept, IgnoredInv, SameClients
<1>11. GrabInv(u)
  BY <1>6 DEF Kept, InputKept, GrabInv, listen_to_client, SameClients
<1>12. ServedInv(u)
  <2>1. SUFFICES ASSUME NEW d \in t.live \ t.shut, listen_to_client(u, d),
                        ~client_is_ready(u, d)
                 PROVE  ~Whole(u, d) /\ d \in u.reads /\ d \notin u.seen
    BY <1>6 DEF ServedInv, SameClients
  <2>2. d # c /\ ~client_is_ready(t, d) /\ listen_to_client(t, d)
    BY <1>6, <2>1 DEF client_is_ready, listen_to_client
  <2>3. ~Whole(t, d) /\ d \in t.reads /\ d \notin t.seen
    BY <2>1, <2>2 DEF Kept, InputKept, ServedInv
  <2>4. QED
    BY <1>6, <2>2, <2>3 DEF Whole, SameClients
<1>13. WholeInv(u)
  BY <1>6 DEF Kept, InputKept, WholeInv, Whole, client_is_ready, SameClients
<1>14. QED
  BY <1>5, <1>6, <1>8, <1>9, <1>10, <1>11, <1>12, <1>13 DEF Kept, InputKept, u

-----------------------------------------------------------------------------
\* Output, and the end of a connection

\* Flushing the output of the clients cs mends what OutputInv says of them.
LEMMA FlushKeeps ==
    ASSUME NEW t, InputKept(t), t.shut \subseteq gone, NEW taking, NEW cs, cs \subseteq t.live,
           \A c \in (t.live \ t.shut) \ cs :
               c \in t.out =>
                   c \in t.pending /\ (t.newOutput \/ (c \in t.writes /\ c \notin t.seenOut))
    PROVE  /\ Kept(FlushClients(t, cs, taking))
           /\ FlushClients(t, cs, taking).live = t.live /\ FlushClients(t, cs, taking).shut \subseteq gone
           /\ t.ready \subseteq FlushClients(t, cs, taking).ready
           /\ FlushClients(t, cs, taking).yield = t.yield
<1> DEFINE dead == cs \cap gone
           full == cs \ (gone \cup taking)
           lost == dead \ t.shut
           v == [t EXCEPT !.shut = @ \cup lost]
           p == Unpolled(v, lost)
           a == AbortClients(t, dead)
           u == FlushClients(t, cs, taking)
<1>1. t \in ServerState /\ t.live \in SUBSET Clients
  BY DEF InputKept, ServerState
<1>2. full \subseteq t.live \ t.shut /\ lost \subseteq t.live /\ lost \subseteq gone
      /\ full \subseteq Clients /\ lost \subseteq Clients
  BY <1>1
<1>3. a = mark_clients_ready(p, lost)
  BY DEF AbortClients
<1>4. u = [a EXCEPT !.out = (@ \ cs) \cup full, !.pending = (@ \ (cs \ dead)) \cup full,
                    !.writes = @ \cup full, !.seenOut = @ \ full]
  BY DEF FlushClients
<1>5. full \cap lost = {} /\ full \subseteq cs /\ full \cap dead = {}
      /\ (cs \cap t.live) \ (t.shut \cup lost) \subseteq cs \ dead
  OBVIOUS
<1> HIDE DEF dead, full, lost
<1>6. /\ v \in ServerState /\ v.live = t.live /\ v.buf = t.buf /\ v.shut = t.shut \cup lost
      /\ SameLists(t, v) /\ SameGrab(t, v) /\ v.yield = t.yield
  BY <1>1, <1>2 DEF ServerState, SameLists, SameGrab
<1>7. SameInput(t, v) /\ SameOutput(t, v)
  BY <1>1, <1>2 DEF ServerState, SameInput, SameOutput
<1> HIDE DEF v
<1>8. /\ p \in ServerState /\ SameClients(v, p) /\ SameLists(v, p) /\ p.yield = v.yield
  BY <1>6 DEF ServerState, SameClients, SameLists, Unpolled
<1>9. SameGrab(v, p) /\ p.out = v.out /\ p.pending = v.pending /\ p.newOutput = v.newOutput
  BY <1>6 DEF ServerState, SameGrab, Unpolled
<1>10. /\ p.reads = v.reads \ lost /\ p.seen = v.seen \ lost
       /\ p.writes = v.writes \ lost /\ p.seenOut = v.seenOut \ lost
  BY <1>6 DEF ServerState, Unpolled
<1> HIDE DEF p
<1>11. a = [p EXCEPT !.ready = @ \cup (lost \ p.saved)]
  BY <1>3 DEF mark_clients_ready
<1>12. p.ready \cup (lost \ p.saved) \in SUBSET Clients
  BY <1>2, <1>8 DEF ServerState
<1>13. a \in ServerState /\ SameClients(p, a) /\ SameGrab(p, a) /\ a.yield = p.yield
  BY <1>8, <1>11, <1>12 DEF ServerState, SameClients, SameGrab
<1>14. /\ SameInput(p, a) /\ SameOutput(p, a) /\ a.saved = p.saved /\ a.lapsed = p.lapsed
       /\ a.ready = p.ready \cup (lost \ p.saved)
  BY <1>8, <1>11 DEF ServerState, SameInput, SameOutput
<1> HIDE DEF a
<1>15. /\ (a.out \ cs) \cup full \in SUBSET Clients
       /\ (a.pending \ (cs \ dead)) \cup full \in SUBSET Clients
       /\ a.writes \cup full \in SUBSET Clients /\ a.seenOut \ full \in SUBSET Clients
  BY <1>2, <1>13 DEF ServerState
<1>16. u \in ServerState
  <2>1. PICK o, q, w, e \in SUBSET Clients :
             /\ o = (a.out \ cs) \cup full /\ q = (a.pending \ (cs \ dead)) \cup full
             /\ w = a.writes \cup full /\ e = a.seenOut \ full
    BY <1>15
  <2>2. u = [a EXCEPT !.out = o, !.pending = q, !.writes = w, !.seenOut = e]
    BY <1>4, <2>1
  <2> DEFINE b == [a EXCEPT !.out = o, !.pending = q]
  <2>3. b \in ServerState
    BY <1>13 DEF ServerState
  <2>4. u = [b EXCEPT !.writes = w, !.seenOut = e]
    BY <2>2
  <2> HIDE DEF b
  <2>5. [b EXCEPT !.writes = w, !.seenOut = e] \in ServerState
    BY <2>3 DEF ServerState
  <2>6. QED
    BY <2>4, <2>5, Zenon
<1>17. /\ SameClients(a, u) /\ SameLists(a, u) /\ SameInput(a, u) /\ u.yield = a.yield
       /\ u.newOutput = a.newOutput
  BY <1>4, <1>13 DEF ServerState, SameClients, SameLists, SameInput
<1>18. SameGrab(a, u)
  BY <1>4, <1>13 DEF ServerState, SameGrab
<1>19. /\ u.out = (a.out \ cs) \cup full /\ u.pending = (a.pending \ (cs \ dead)) \cup full
       /\ u.writes = a.writes \cup full /\ u.seenOut = a.seenOut \ full
  BY <1>4, <1>13 DEF ServerState
<1> HIDE DEF u
<1>20. /\ u.live = t.live /\ u.shut = t.shut \cup lost /\ u.buf = t.buf /\ u.yield = t.yield
       /\ u.ready = t.ready \cup (lost \ t.saved) /\ u.saved = t.saved /\ u.lapsed = t.lapsed
       /\ SameGrab(t, u)
       /\ u.reads = t.reads \ lost /\ u.seen = t.seen \ lost
       /\ u.writes = (t.writes \ lost) \cup full /\ u.seenOut = (t.seenOut \ lost) \ full
       /\ u.out = (t.out \ cs) \cup full /\ u.pending = (t.pending \ (cs \ dead)) \cup full
       /\ u.newOutput = t.newOutput
  BY <1>6, <1>7, <1>8, <1>9, <1>10, <1>13, <1>14, <1>17, <1>18, <1>19
     DEF SameClients, SameLists, SameGrab, SameInput, SameOutput
<1>21. ListInv(u)
  BY <1>2, <1>5, <1>20 DEF InputKept, ListInv, SameGrab
<1>22. PollInv(u) /\ IgnoredInv(u)
  BY <1>20 DEF InputKept, PollInv, IgnoredInv, listen_to_client, SameGrab
<1>23. GrabInv(u)
  BY <1>20 DEF InputKept, GrabInv, listen_to_client, SameGrab
<1>24. ServedInv(u) /\ WholeInv(u)
  BY <1>20
     DEF InputKept, ServedInv, WholeInv, Whole, client_is_ready, listen_to_client, SameGrab
<1>25. OutputInv(u)
  <2>1. SUFFICES ASSUME NEW c \in t.live \ (t.shut \cup lost), c \in u.out
                 PROVE  /\ c \in u.pending
                        /\ u.newOutput \/ (c \in u.writes /\ c \notin u.seenOut)
    BY <1>20 DEF OutputInv
  <2>2. CASE c \in full
    BY <1>20, <2>2
  <2>3. CASE c \notin full
    BY <1>20, <2>1, <2>3
  <2>4. QED
    BY <2>2, <2>3
<1>26. Kept(u)
  BY <1>16, <1>21, <1>22, <1>23, <1>24, <1>25 DEF Kept, InputKept
<1>27. QED
  BY <1>2, <1>20, <1>26 DEF u

LEMMA FlushAllKeeps ==
    ASSUME NEW t, Kept(t), t.shut \subseteq gone, NEW taking
    PROVE  /\ Kept(FlushAllOutput(t, taking))
           /\ FlushAllOutput(t, taking).live = t.live /\ FlushAllOutput(t, taking).shut \subseteq gone
<1> DEFINE later == {c \in t.pending : client_is_ready(t, c)}
           cs == (t.pending \ later) \cap t.out
           v == [t EXCEPT !.newOutput = later # {}]
           u == FlushAllOutput(t, taking)
<1>1. CASE ~t.newOutput
  BY <1>1 DEF FlushAllOutput
<1>2. CASE t.newOutput
  <2>1. u = FlushClients(v, cs, taking)
    BY <1>2 DEF FlushAllOutput
  <2>2. t \in ServerState /\ cs \subseteq t.live
    BY DEF Kept, InputKept, ListInv
  <2>3. /\ v \in ServerState /\ SameClients(t, v) /\ SameLists(t, v) /\ SameInput(t, v)
        /\ SameGrab(t, v)
    BY <2>2 DEF ServerState, SameClients, SameLists, SameInput, SameGrab
  <2>4. /\ v.writes = t.writes /\ v.seenOut = t.seenOut /\ v.out = t.out
        /\ v.pending = t.pending /\ v.newOutput = (later # {})
    BY <2>2 DEF ServerState
  <2> HIDE DEF v
  <2>5. ListInv(v) /\ PollInv(v) /\ IgnoredInv(v)
    BY <2>3, <2>4
       DEF Kept, InputKept, ListInv, PollInv, IgnoredInv, listen_to_client, SameClients,
           SameLists, SameInput, SameGrab
  <2>6. ServedInv(v) /\ WholeInv(v) /\ GrabInv(v)
    BY <2>3
       DEF Kept, InputKept, ServedInv, WholeInv, GrabInv, Whole, client_is_ready,
           listen_to_client, SameClients, SameLists, SameInput, SameGrab
  <2>7. InputKept(v)
    BY <2>3, <2>5, <2>6 DEF InputKept
  <2>8. ASSUME NEW c \in (v.live \ v.shut) \ cs, c \in v.out
        PROVE  c \in v.pending /\ v.newOutput
    BY <2>3, <2>4, <2>8 DEF Kept, OutputInv, SameClients
  <2>9. QED
    BY <2>1, <2>2, <2>3, <2>7, <2>8, FlushKeeps DEF SameClients
<1>3. QED
  BY <1>1, <1>2

LEMMA WriteKeeps ==
    ASSUME NEW t, Kept(t), t.shut \subseteq gone, NEW c \in t.live, NEW fits, NEW taking
    PROVE  /\ Kept(WriteToClient(t, c, fits, taking))
           /\ WriteToClient(t, c, fits, taking).live = t.live
           /\ WriteToClient(t, c, fits, taking).shut \subseteq gone
           /\ t.ready \subseteq WriteToClient(t, c, fits, taking).ready
<1> DEFINE u == WriteToClient(t, c, fits, taking)
<1>1. t \in ServerState /\ c \in Clients
  BY DEF Kept, InputKept, ServerState
<1>2. CASE c \in t.out /\ fits
  <2>1. u = [t EXCEPT !.newOutput = TRUE, !.pending = @ \cup {c}]
    BY <1>2 DEF WriteToClient
  <2> HIDE DEF u
  <2>2. /\ u \in ServerState /\ SameClients(t, u) /\ SameLists(t, u) /\ SameInput(t, u)
        /\ SameGrab(t, u)
    BY <1>1, <2>1 DEF ServerState, SameClients, SameLists, SameInput, SameGrab
  <2>3. /\ u.writes = t.writes /\ u.seenOut = t.seenOut /\ u.out = t.out
        /\ u.pending = t.pending \cup {c} /\ u.newOutput
    BY <1>1, <2>1 DEF ServerState
  <2>4. ListInv(u) /\ PollInv(u) /\ IgnoredInv(u)
    BY <2>2, <2>3
       DEF Kept, InputKept, ListInv, PollInv, IgnoredInv, listen_to_client, SameClients,
           SameLists, SameInput, SameGrab
  <2>5. ServedInv(u) /\ WholeInv(u) /\ GrabInv(u)
    BY <2>2
       DEF Kept, InputKept, ServedInv, WholeInv, GrabInv, Whole, client_is_ready,
           listen_to_client, SameClients, SameLists, SameInput, SameGrab
  <2>6. OutputInv(u)
    BY <2>2, <2>3 DEF Kept, OutputInv, SameClients
  <2>7. QED
    BY <2>2, <2>4, <2>5, <2>6 DEF Kept, InputKept, SameClients, SameLists, u
<1>3. CASE ~(c \in t.out /\ fits)
  <2> DEFINE rest == t.pending \ {c}
             v == [t EXCEPT !.pending = rest, !.newOutput = @ /\ rest # {}]
  <2>1. u = FlushClients(v, {c}, taking)
    BY <1>3 DEF WriteToClient
  <2>2. PICK n \in BOOLEAN : n = (t.newOutput /\ rest # {})
    OBVIOUS
  <2>3. PICK r \in SUBSET Clients : r = rest
    BY <1>1 DEF ServerState
  <2>4. v = [t EXCEPT !.pending = r, !.newOutput = n]
    BY <2>2, <2>3, Zenon
  <2> HIDE DEF v, u
  <2>5. /\ v \in ServerState /\ SameClients(t, v) /\ SameLists(t, v) /\ SameInput(t, v)
        /\ SameGrab(t, v) /\ v.yield = t.yield
    BY <1>1, <2>4 DEF ServerState, SameClients, SameLists, SameInput, SameGrab
  <2>6. /\ v.writes = t.writes /\ v.seenOut = t.seenOut /\ v.out = t.out
        /\ v.pending = r /\ v.newOutput = n
    BY <1>1, <2>4 DEF ServerState
  <2>7. ListInv(v) /\ PollInv(v) /\ IgnoredInv(v)
    BY <2>3, <2>5, <2>6
       DEF Kept, InputKept, ListInv, PollInv, IgnoredInv, listen_to_client, SameClients,
           SameLists, SameInput, SameGrab
  <2>8. ServedInv(v) /\ WholeInv(v) /\ GrabInv(v)
    BY <2>5
       DEF Kept, InputKept, ServedInv, WholeInv, GrabInv, Whole, client_is_ready,
           listen_to_client, SameClients, SameLists, SameInput, SameGrab
  <2>9. InputKept(v)
    BY <2>5, <2>7, <2>8 DEF InputKept
  <2>10. ASSUME NEW d \in (v.live \ v.shut) \ {c}, d \in v.out
        PROVE  d \in v.pending /\ (v.newOutput \/ (d \in v.writes /\ d \notin v.seenOut))
    BY <2>2, <2>3, <2>5, <2>6, <2>10 DEF Kept, OutputInv, SameClients
  <2>11. {c} \subseteq v.live /\ v.shut \subseteq gone
    BY <2>5 DEF SameClients
  <2>12. /\ Kept(u) /\ u.live = v.live /\ u.shut \subseteq gone
         /\ v.ready \subseteq u.ready
    BY <2>1, <2>9, <2>10, <2>11, FlushKeeps
  <2>13. QED
    BY <2>5, <2>12 DEF SameClients, SameLists, u
<1>4. QED
  BY <1>2, <1>3

\* A closed client is in no list any more; nobody else is forgotten, and its grab is over.
LEMMA CloseKeeps ==
    ASSUME NEW t, Kept(t), NEW c \in t.live
    PROVE  /\ Kept(CloseDownClient(t, c))
           /\ CloseDownClient(t, c).live = t.live \ {c}
           /\ CloseDownClient(t, c).shut = t.shut \ {c}
<1> DEFINE g == IF t.grab = c THEN UngrabServer(t) ELSE t
           p == Unpolled(g, {c})
           n == mark_client_not_ready(p, c)
           u == CloseDownClient(t, c)
<1>1. Kept(g) /\ SameClients(t, g)
  BY UngrabKeeps DEF SameClients
<1>2. u = [n EXCEPT !.live = @ \ {c}, !.shut = @ \ {c}, !.waiters = @ \ {c},
                    !.ignored = @ \ {c}, !.impervious = @ \ {c},
                    !.out = @ \ {c}, !.pending = @ \ {c}, !.buf[c] = 0, !.head[c] = "any"]
  BY DEF CloseDownClient
<1> HIDE DEF g
<1>3. g \in ServerState /\ c \in Clients
  BY <1>1 DEF Kept, InputKept, ServerState, SameClients
<1>4. /\ p \in ServerState /\ SameClients(g, p) /\ SameLists(g, p) /\ SameGrab(g, p)
  BY <1>3 DEF ServerState, SameClients, SameLists, SameGrab, Unpolled
<1>5. /\ p.out = g.out /\ p.pending = g.pending /\ p.newOutput = g.newOutput
      /\ p.reads = g.reads \ {c} /\ p.seen = g.seen \ {c}
      /\ p.writes = g.writes \ {c} /\ p.seenOut = g.seenOut \ {c}
  BY <1>3 DEF ServerState, Unpolled
<1> HIDE DEF p
<1>6. n \in ServerState /\ SameClients(p, n) /\ SameGrab(p, n)
  BY <1>4 DEF ServerState, SameClients, SameGrab, mark_client_not_ready
<1>7. /\ SameInput(p, n) /\ SameOutput(p, n)
      /\ n.ready = p.ready \ {c} /\ n.saved = p.saved \ {c} /\ n.lapsed = p.lapsed \ {c}
  BY <1>4 DEF ServerState, SameInput, SameOutput, mark_client_not_ready
<1> HIDE DEF n
<1>8. PICK a1, a2, a3, a4, a5, a6, a7 \in SUBSET Clients :
         /\ a1 = n.live \ {c} /\ a2 = n.shut \ {c} /\ a3 = n.waiters \ {c}
         /\ a4 = n.ignored \ {c} /\ a5 = n.impervious \ {c}
         /\ a6 = n.out \ {c} /\ a7 = n.pending \ {c}
  BY <1>6 DEF ServerState
<1> DEFINE v == [n EXCEPT !.live = a1, !.shut = a2, !.waiters = a3]
           w == [v EXCEPT !.ignored = a4, !.impervious = a5, !.out = a6]
           y == [w EXCEPT !.pending = a7]
           z == [y EXCEPT !.buf[c] = 0, !.head[c] = "any"]
<1>9. u = [n EXCEPT !.live = a1, !.shut = a2, !.waiters = a3, !.ignored = a4, !.impervious = a5,
                     !.out = a6, !.pending = a7, !.buf[c] = 0, !.head[c] = "any"]
  BY <1>2, <1>8, Zenon
<1>10. u = z
  BY <1>9, Zenon
<1>11. v \in ServerState /\ SameLists(n, v) /\ SameInput(n, v)
  BY <1>6 DEF ServerState, SameLists, SameInput
<1>12. /\ v.live = a1 /\ v.shut = a2 /\ v.waiters = a3 /\ SameOutput(n, v)
       /\ v.buf = n.buf /\ v.grab = n.grab
  BY <1>6 DEF ServerState, SameOutput
<1> HIDE DEF v
<1>13. w \in ServerState /\ SameLists(v, w) /\ SameInput(v, w)
  BY <1>11 DEF ServerState, SameLists, SameInput
<1>14. /\ w.live = v.live /\ w.shut = v.shut /\ w.buf = v.buf /\ w.waiters = v.waiters
       /\ w.grab = v.grab
       /\ w.ignored = a4 /\ w.impervious = a5 /\ w.out = a6
  BY <1>11 DEF ServerState
<1>15. w.pending = v.pending /\ w.newOutput = v.newOutput /\ w.writes = v.writes
       /\ w.seenOut = v.seenOut
  BY <1>11 DEF ServerState
<1> HIDE DEF w
<1>16. y \in ServerState /\ SameLists(w, y) /\ SameInput(w, y)
  BY <1>13 DEF ServerState, SameLists, SameInput
<1>17. /\ y.live = w.live /\ y.shut = w.shut /\ y.buf = w.buf /\ SameGrab(w, y)
       /\ y.pending = a7 /\ y.newOutput = w.newOutput /\ y.writes = w.writes
       /\ y.seenOut = w.seenOut /\ y.out = w.out
  BY <1>13 DEF ServerState, SameGrab
<1> HIDE DEF y
<1>18. 0 \in 0 .. BufSize
  BY LoopAssumption
<1>19. z \in ServerState /\ SameLists(y, z) /\ SameInput(y, z)
  BY <1>3, <1>16, <1>18 DEF ServerState, SameLists, SameInput
<1>20. /\ z.live = y.live /\ z.shut = y.shut /\ SameGrab(y, z) /\ SameOutput(y, z)
       /\ z.buf = [y.buf EXCEPT ![c] = 0]
  BY <1>16 DEF ServerState, SameGrab, SameOutput
<1> HIDE DEF z
<1>21. /\ z.live = g.live \ {c} /\ z.shut = g.shut \ {c} /\ z.waiters = g.waiters \ {c}
       /\ z.ignored = g.ignored \ {c} /\ z.impervious = g.impervious \ {c}
       /\ z.grab = g.grab
       /\ z.ready = g.ready \ {c} /\ z.saved = g.saved \ {c} /\ z.lapsed = g.lapsed \ {c}
       /\ z.reads = g.reads \ {c} /\ z.seen = g.seen \ {c}
       /\ z.writes = g.writes \ {c} /\ z.seenOut = g.seenOut \ {c}
       /\ z.out = g.out \ {c} /\ z.pending = g.pending \ {c} /\ z.newOutput = g.newOutput
  BY <1>4, <1>5, <1>6, <1>7, <1>8, <1>11, <1>12, <1>13, <1>14, <1>15, <1>16, <1>17, <1>19, <1>20
     DEF SameClients, SameLists, SameGrab, SameInput, SameOutput
<1>22. \A d \in Clients : d # c => z.buf[d] = g.buf[d]
  BY <1>3, <1>4, <1>6, <1>12, <1>14, <1>17, <1>20 DEF SameClients, ServerState
<1>23. g.live \subseteq Clients
  BY <1>3 DEF ServerState
<1>24. ListInv(z) /\ IgnoredInv(z)
  BY <1>1, <1>21 DEF Kept, InputKept, ListInv, IgnoredInv
<1>25. PollInv(z) /\ GrabInv(z)
  BY <1>1, <1>21 DEF Kept, InputKept, PollInv, GrabInv, listen_to_client
<1>26. ServedInv(z)
  <2>1. SUFFICES ASSUME NEW d \in z.live \ z.shut, listen_to_client(z, d),
                        ~client_is_ready(z, d)
                 PROVE  ~Whole(z, d) /\ d \in z.reads /\ d \notin z.seen
    BY DEF ServedInv
  <2>2. d \in g.live \ g.shut /\ d # c /\ d \in Clients
    BY <1>21, <1>23, <2>1
  <2>3. ~client_is_ready(g, d) /\ listen_to_client(g, d)
    BY <1>21, <2>1, <2>2 DEF client_is_ready, listen_to_client
  <2>4. ~Whole(g, d) /\ d \in g.reads /\ d \notin g.seen
    BY <1>1, <2>2, <2>3 DEF Kept, InputKept, ServedInv
  <2>5. QED
    BY <1>21, <1>22, <2>2, <2>4 DEF Whole
<1>27. WholeInv(z)
  <2>1. SUFFICES ASSUME NEW d \in z.live \ z.shut, Whole(z, d), d \notin z.ignored
                 PROVE  client_is_ready(z, d)
    BY DEF WholeInv
  <2>2. d \in g.live \ g.shut /\ d # c /\ d \in Clients
    BY <1>21, <1>23, <2>1
  <2>3. Whole(g, d) /\ d \notin g.ignored
    BY <1>21, <1>22, <2>1, <2>2 DEF Whole
  <2>4. client_is_ready(g, d)
    BY <1>1, <2>2, <2>3 DEF Kept, InputKept, WholeInv
  <2>5. QED
    BY <1>21, <2>2, <2>4 DEF client_is_ready
<1>28. OutputInv(z)
  BY <1>1, <1>21 DEF Kept, OutputInv
<1>29. Kept(z)
  BY <1>19, <1>24, <1>25, <1>26, <1>27, <1>28 DEF Kept, InputKept
<1>30. QED
  BY <1>1, <1>10, <1>21, <1>29 DEF SameClients

\* What the poll reports goes into the lists.
LEMMA ReportKeeps ==
    ASSUME NEW t, Kept(t), NEW cs, cs \subseteq Polled(t), NEW taking
    PROVE  Kept(Report(t, cs, taking)) /\ SameClients(t, Report(t, cs, taking))
<1> DEFINE newIn == (In(t) \cap cs) \ t.seen
           newOut == (Out(t, taking) \cap cs) \ t.seenOut
           u == Report(t, cs, taking)
<1>1. t \in ServerState /\ cs \subseteq t.live \ t.shut /\ cs \subseteq Clients
      /\ In(t) \subseteq t.reads /\ Out(t, taking) \subseteq t.writes
  BY DEF Kept, InputKept, ServerState, Polled, In, Out
<1>2. PICK a1, a2, a3, a4 \in SUBSET Clients, o \in BOOLEAN :
         /\ a1 = (t.seen \ cs) \cup (In(t) \cap cs)
         /\ a2 = (t.seenOut \ cs) \cup (Out(t, taking) \cap cs)
         /\ a3 = t.ready \cup (newIn \ t.saved) /\ a4 = t.writes \ newOut
         /\ o = (t.newOutput \/ newOut # {})
  BY <1>1 DEF ServerState
<1>3. u = [t EXCEPT !.seen = a1, !.seenOut = a2, !.ready = a3, !.writes = a4, !.newOutput = o]
  BY <1>2, Zenon DEF Report
<1> DEFINE v == [t EXCEPT !.seen = a1, !.seenOut = a2]
           w == [v EXCEPT !.ready = a3, !.writes = a4, !.newOutput = o]
<1>4. u = w
  BY <1>3
<1>5. /\ v \in ServerState /\ SameClients(t, v) /\ SameLists(t, v) /\ SameGrab(t, v)
  BY <1>1 DEF ServerState, SameClients, SameLists, SameGrab
<1>6. /\ v.seen = a1 /\ v.seenOut = a2 /\ v.reads = t.reads
      /\ v.out = t.out /\ v.pending = t.pending
  BY <1>1 DEF ServerState
<1> HIDE DEF v
<1>7. /\ w \in ServerState /\ SameClients(v, w) /\ SameGrab(v, w) /\ SameInput(v, w)
  BY <1>5 DEF ServerState, SameClients, SameInput, SameGrab
<1>8. /\ w.ready = a3 /\ w.saved = v.saved /\ w.lapsed = v.lapsed
      /\ w.seenOut = v.seenOut /\ w.out = v.out /\ w.pending = v.pending
      /\ w.writes = a4 /\ w.newOutput = o
  BY <1>5 DEF ServerState
<1> HIDE DEF w, newIn, newOut
<1>9. /\ SameClients(t, w) /\ SameGrab(t, w)
      /\ w.ready = t.ready \cup (newIn \ t.saved) /\ w.saved = t.saved /\ w.lapsed = t.lapsed
      /\ w.reads = t.reads /\ w.seen = (t.seen \ cs) \cup (In(t) \cap cs)
      /\ w.writes = t.writes \ newOut /\ w.seenOut = (t.seenOut \ cs) \cup (Out(t, taking) \cap cs)
      /\ w.out = t.out /\ w.pending = t.pending
      /\ w.newOutput = (t.newOutput \/ newOut # {})
  BY <1>2, <1>5, <1>6, <1>7, <1>8 DEF SameClients, SameGrab, SameLists, SameInput
<1>10. ListInv(w)
  BY <1>1, <1>9 DEF Kept, InputKept, ListInv, SameClients, SameGrab, newIn
<1>11. newIn \subseteq t.reads /\ newIn \subseteq t.live \ t.shut
       /\ \A c \in newIn : listen_to_client(t, c)
  BY <1>1 DEF Kept, InputKept, PollInv, newIn
<1>12. PollInv(w)
  BY <1>9 DEF Kept, InputKept, PollInv, listen_to_client, SameClients, SameGrab
<1>13. IgnoredInv(w) /\ GrabInv(w)
  BY <1>9, <1>11 DEF Kept, InputKept, IgnoredInv, GrabInv, listen_to_client, SameClients, SameGrab
<1>14. WholeInv(w)
  BY <1>9 DEF Kept, InputKept, WholeInv, Whole, client_is_ready, SameClients, SameGrab
<1>15. ServedInv(w)
  <2>1. SUFFICES ASSUME NEW d \in t.live \ t.shut, listen_to_client(w, d),
                        ~client_is_ready(w, d)
                 PROVE  ~Whole(w, d) /\ d \in w.reads /\ d \notin w.seen
    BY <1>9 DEF ServedInv, SameClients
  <2>2. ~client_is_ready(t, d) /\ listen_to_client(t, d) /\ d \notin newIn
    BY <1>9, <2>1 DEF client_is_ready, listen_to_client, SameGrab
  <2>3. ~Whole(t, d) /\ d \in t.reads /\ d \notin t.seen
    BY <2>1, <2>2 DEF Kept, InputKept, ServedInv
  <2>4. d \notin w.seen
    BY <1>9, <2>2, <2>3 DEF newIn
  <2>5. QED
    BY <1>9, <2>3, <2>4 DEF Whole, SameClients
<1>16. OutputInv(w)
  BY <1>1, <1>9 DEF Kept, OutputInv, SameClients, newOut
<1>17. Kept(w)
  BY <1>7, <1>10, <1>12, <1>13, <1>14, <1>15, <1>16 DEF Kept, InputKept
<1>18. QED
  BY <1>4, <1>9, <1>17

-----------------------------------------------------------------------------
\* Reading and executing requests

\* What yielding for want of input leaves of the server's state.
Yielded(t, c, u) ==
    /\ SameClients(t, u) /\ SameLists(t, u) /\ SameGrab(t, u)
    /\ u.reads = t.reads /\ u.seen = t.seen \ {c}
    /\ u.writes = t.writes /\ u.seenOut = t.seenOut \ {c}
    /\ u.out = t.out /\ u.pending = t.pending /\ u.newOutput = t.newOutput
    /\ u.yield = TRUE

LEMMA YieldIs ==
    ASSUME NEW t \in ServerState, NEW c
    PROVE  /\ YieldControlNoInput(t, c) \in ServerState
           /\ Yielded(t, c, YieldControlNoInput(t, c))
<1> DEFINE u == YieldControlNoInput(t, c)
<1>1. u \in ServerState
  BY DEF ServerState, YieldControlNoInput
<1>2. SameClients(t, u) /\ SameLists(t, u) /\ u.yield = TRUE
  BY DEF ServerState, SameClients, SameLists, YieldControlNoInput
<1>3. SameGrab(t, u) /\ u.reads = t.reads /\ u.seen = t.seen \ {c}
  BY DEF ServerState, SameGrab, YieldControlNoInput
<1>4. /\ u.writes = t.writes /\ u.seenOut = t.seenOut \ {c}
      /\ u.out = t.out /\ u.pending = t.pending /\ u.newOutput = t.newOutput
  BY DEF ServerState, YieldControlNoInput
<1> HIDE DEF u
<1>5. Yielded(t, c, u)
  BY <1>2, <1>3, <1>4 DEF Yielded
<1>6. QED
  BY <1>1, <1>5 DEF u

LEMMA YieldKeeps ==
    ASSUME NEW t, Kept(t), NEW c
    PROVE  /\ Kept(YieldControlNoInput(t, c)) /\ SameClients(t, YieldControlNoInput(t, c))
           /\ SameLists(t, YieldControlNoInput(t, c)) /\ YieldControlNoInput(t, c).yield
<1> DEFINE u == YieldControlNoInput(t, c)
<1>1. t \in ServerState
  BY DEF Kept, InputKept
<1>2. u \in ServerState /\ Yielded(t, c, u)
  BY <1>1, YieldIs
<1> HIDE DEF u
<1>3. /\ u \in ServerState /\ SameClients(t, u) /\ SameLists(t, u) /\ SameGrab(t, u)
      /\ u.reads = t.reads /\ u.seen = t.seen \ {c}
      /\ u.writes = t.writes /\ u.seenOut = t.seenOut \ {c}
      /\ u.out = t.out /\ u.pending = t.pending /\ u.newOutput = t.newOutput
      /\ u.yield = TRUE
  BY <1>2 DEF Yielded
<1>4. ListInv(u) /\ IgnoredInv(u) /\ OutputInv(u)
  BY <1>3 DEF Kept, InputKept, ListInv, IgnoredInv, OutputInv, SameClients, SameLists, SameGrab
<1>5. PollInv(u) /\ GrabInv(u)
  BY <1>3
     DEF Kept, InputKept, PollInv, GrabInv, listen_to_client, SameClients, SameLists, SameGrab
<1>6. ServedInv(u) /\ WholeInv(u)
  BY <1>3
     DEF Kept, InputKept, ServedInv, WholeInv, Whole, client_is_ready, listen_to_client,
         SameClients, SameLists, SameGrab
<1>7. QED
  BY <1>3, <1>4, <1>5, <1>6 DEF Kept, InputKept, u

\* isItTimeToYield is no part of the invariant.
LEMMA FlagKeeps ==
    ASSUME NEW t, Kept(t), NEW flag \in BOOLEAN, NEW u, u = [t EXCEPT !.yield = flag]
    PROVE  Kept(u) /\ SameClients(t, u) /\ SameLists(t, u) /\ u.yield = flag
<1>1. t \in ServerState
  BY DEF Kept, InputKept
<1>2. /\ u \in ServerState /\ SameClients(t, u) /\ SameLists(t, u) /\ SameGrab(t, u)
      /\ u.yield = flag
  BY <1>1 DEF ServerState, SameClients, SameLists, SameGrab
<1>3. SameOutput(t, u) /\ SameInput(t, u)
  BY <1>1 DEF ServerState, SameOutput, SameInput
<1>4. ListInv(u) /\ IgnoredInv(u) /\ OutputInv(u)
  BY <1>2, <1>3
     DEF Kept, InputKept, ListInv, IgnoredInv, OutputInv, SameClients, SameLists, SameGrab,
         SameInput, SameOutput
<1>5. PollInv(u) /\ GrabInv(u)
  BY <1>2, <1>3
     DEF Kept, InputKept, PollInv, GrabInv, listen_to_client, SameClients, SameLists, SameGrab,
         SameInput
<1>6. ServedInv(u) /\ WholeInv(u)
  BY <1>2, <1>3
     DEF Kept, InputKept, ServedInv, WholeInv, Whole, client_is_ready, listen_to_client,
         SameClients, SameLists, SameGrab, SameInput
<1>7. QED
  BY <1>2, <1>4, <1>5, <1>6 DEF Kept, InputKept

Heads == {"any", "setup", "establish", "grab"}

Refilled(t, c, n, h) == [t EXCEPT !.head[c] = h, !.buf[c] = n]

\* What is in the buffer of a client that is ready does not matter.
LEMMA BufferKeeps ==
    ASSUME NEW t, Kept(t), NEW c \in t.ready, NEW n \in 0 .. BufSize, NEW h \in Heads
    PROVE  /\ Kept(Refilled(t, c, n, h)) /\ SameLists(t, Refilled(t, c, n, h))
           /\ Refilled(t, c, n, h).live = t.live /\ Refilled(t, c, n, h).shut = t.shut
           /\ Refilled(t, c, n, h).buf[c] = n
<1> DEFINE v == Refilled(t, c, n, h)
<1>1. t \in ServerState /\ c \in Clients /\ t.live \subseteq Clients
  BY DEF Kept, InputKept, ServerState
<1>2. /\ v \in ServerState /\ SameLists(t, v) /\ SameGrab(t, v)
      /\ v.live = t.live /\ v.shut = t.shut
  BY <1>1 DEF ServerState, SameLists, SameGrab, Heads, Refilled
<1>3. /\ SameOutput(t, v) /\ SameInput(t, v) /\ v.buf[c] = n
      /\ \A d \in Clients : d # c => v.buf[d] = t.buf[d]
  BY <1>1 DEF ServerState, SameOutput, SameInput, Refilled
<1> HIDE DEF v
<1>4. ListInv(v) /\ IgnoredInv(v) /\ OutputInv(v)
  BY <1>2, <1>3
     DEF Kept, InputKept, ListInv, IgnoredInv, OutputInv, SameLists, SameGrab, SameInput, SameOutput
<1>5. PollInv(v) /\ GrabInv(v)
  BY <1>2, <1>3
     DEF Kept, InputKept, PollInv, GrabInv, listen_to_client, SameLists, SameGrab, SameInput
<1>6. client_is_ready(v, c)
  BY <1>2 DEF SameLists, client_is_ready
<1>7. ServedInv(v) /\ WholeInv(v)
  BY <1>1, <1>2, <1>3, <1>6
     DEF Kept, InputKept, ServedInv, WholeInv, Whole, client_is_ready, listen_to_client,
         SameLists, SameGrab, SameInput
<1>8. QED
  BY <1>2, <1>3, <1>4, <1>5, <1>7 DEF Kept, InputKept, v

\* A client is taken out of the list only when the poll has nothing unreported of it.
LEMMA ReadKeeps ==
    ASSUME NEW t, Kept(t), NEW c \in t.ready, c \notin t.shut, ~Whole(t, c),
           NEW n \in Nat, t.buf[c] + n <= BufSize
    PROVE  /\ Kept(ReadFromSocket(t, c, n))
           /\ ReadFromSocket(t, c, n).live = t.live /\ ReadFromSocket(t, c, n).shut = t.shut
           /\ n > 0 => ReadFromSocket(t, c, n).ready = t.ready
           /\ Whole(ReadFromSocket(t, c, n), c) => n > 0
<1> DEFINE u == ReadFromSocket(t, c, n)
<1>1. t \in ServerState /\ c \in Clients /\ c \in t.live
  BY DEF Kept, InputKept, ServerState, ListInv
<1>2. CASE n > 0
  <2> DEFINE r == [t EXCEPT !.buf[c] = @ + n]
  <2>1. t.buf[c] + n \in 0 .. BufSize /\ t.head[c] \in Heads
    BY <1>1, LoopAssumption DEF ServerState, Heads
  <2>2. r = Refilled(t, c, t.buf[c] + n, t.head[c])
    BY <1>1 DEF ServerState, Refilled
  <2>3. u = IF Whole(r, c) THEN r ELSE YieldControlNoInput(r, c)
    BY <1>2 DEF ReadFromSocket
  <2> HIDE DEF r
  <2>4. Kept(r) /\ SameLists(t, r) /\ r.live = t.live /\ r.shut = t.shut
    BY <2>1, <2>2, BufferKeeps
  <2>5. QED
    BY <1>2, <2>3, <2>4, YieldKeeps DEF SameClients, SameLists
<1>3. CASE n = 0
  <2> DEFINE v == mark_client_not_ready(t, c)
  <2>1. u = YieldControlNoInput(v, c)
    BY <1>3 DEF ReadFromSocket
  <2>2. v \in ServerState /\ SameClients(t, v) /\ SameGrab(t, v)
    BY <1>1 DEF ServerState, SameClients, SameGrab, mark_client_not_ready
  <2>3. /\ SameOutput(t, v) /\ SameInput(t, v) /\ v.ready = t.ready \ {c}
        /\ v.saved = t.saved \ {c} /\ v.lapsed = t.lapsed \ {c}
    BY <1>1 DEF ServerState, SameOutput, SameInput, mark_client_not_ready
  <2> HIDE DEF v
  <2>4. u \in ServerState /\ Yielded(v, c, u)
    BY <2>1, <2>2, YieldIs
  <2> HIDE DEF u
  <2>5. /\ SameClients(v, u) /\ SameGrab(v, u) /\ SameLists(v, u)
        /\ u.reads = v.reads /\ u.seen = v.seen \ {c}
        /\ u.writes = v.writes /\ u.seenOut = v.seenOut \ {c}
        /\ u.out = v.out /\ u.pending = v.pending /\ u.newOutput = v.newOutput
    BY <2>4 DEF Yielded
  <2>6. /\ SameClients(t, u) /\ SameGrab(t, u)
        /\ u.writes = t.writes /\ u.seenOut = t.seenOut \ {c}
        /\ u.out = t.out /\ u.pending = t.pending /\ u.newOutput = t.newOutput
        /\ u.ready = t.ready \ {c} /\ u.saved = t.saved \ {c} /\ u.lapsed = t.lapsed \ {c}
        /\ u.reads = t.reads /\ u.seen = t.seen \ {c}
    BY <2>2, <2>3, <2>4, <2>5 DEF SameClients, SameGrab, SameOutput, SameLists, SameInput
  <2>7. ListInv(u) /\ IgnoredInv(u) /\ OutputInv(u)
    BY <2>6 DEF Kept, InputKept, ListInv, IgnoredInv, OutputInv, SameClients, SameGrab
  <2>8. PollInv(u) /\ GrabInv(u)
    BY <2>6 DEF Kept, InputKept, PollInv, GrabInv, listen_to_client, SameClients, SameGrab
  <2>9. WholeInv(u)
    BY <2>6 DEF Kept, InputKept, WholeInv, Whole, client_is_ready, SameClients, SameGrab
  <2>10. ServedInv(u)
    <3>1. SUFFICES ASSUME NEW d \in t.live \ t.shut, listen_to_client(u, d),
                          ~client_is_ready(u, d)
                   PROVE  ~Whole(u, d) /\ d \in u.reads /\ d \notin u.seen
      BY <2>6 DEF ServedInv, SameClients
    <3>2. CASE d = c
      BY <2>6, <2>8, <3>1, <3>2 DEF PollInv, Whole, SameClients
    <3>3. CASE d # c
      <4>1. ~client_is_ready(t, d) /\ listen_to_client(t, d)
        BY <2>6, <3>1, <3>3 DEF client_is_ready, listen_to_client, SameGrab
      <4>2. QED
        BY <2>6, <3>1, <4>1 DEF Kept, InputKept, ServedInv, Whole, SameClients
    <3>4. QED
      BY <3>2, <3>3
  <2>11. Kept(u) /\ ~Whole(u, c)
    BY <2>4, <2>6, <2>7, <2>8, <2>9, <2>10 DEF Kept, InputKept, Whole, SameClients
  <2>12. QED
    BY <1>3, <2>6, <2>11 DEF SameClients, u
<1>4. QED
  BY <1>2, <1>3

\* The connection set-up stays at the head of the buffer, whole or not.
LEMMA InitialKeeps ==
    ASSUME NEW t, Kept(t), NEW c \in t.ready, t.buf[c] + Request <= BufSize,
           NEW longer \in BOOLEAN
    PROVE  /\ Kept(ProcInitialConnection(t, c, longer))
           /\ ProcInitialConnection(t, c, longer).live = t.live
           /\ ProcInitialConnection(t, c, longer).shut = t.shut
           /\ ProcInitialConnection(t, c, longer).yield
<1> DEFINE back == [t EXCEPT !.head[c] = "establish", !.buf[c] = @ + IF longer THEN 1 ELSE Request]
           heard == IF listen_to_client(back, c) THEN mark_clients_ready(back, {c}) ELSE back
           u == ProcInitialConnection(t, c, longer)
<1>1. t \in ServerState /\ c \in Clients
  BY DEF Kept, InputKept, ServerState
<1>2. PICK n \in 0 .. BufSize : n = t.buf[c] + IF longer THEN 1 ELSE Request
  BY <1>1, LoopAssumption DEF ServerState, Request
<1>3. back = Refilled(t, c, n, "establish")
  BY <1>1, <1>2 DEF ServerState, Refilled
<1>4. u = IF ~Whole(back, c) THEN YieldControlNoInput(back, c) ELSE YieldControl(heard)
  BY DEF ProcInitialConnection
<1> HIDE DEF back, u
<1>5. Kept(back) /\ SameLists(t, back) /\ back.live = t.live /\ back.shut = t.shut
  BY <1>3, BufferKeeps DEF Heads
<1>6. heard = back
  <2>1. back \in ServerState /\ back.ready \cup ({c} \ back.saved) = back.ready
    BY <1>5 DEF Kept, InputKept, SameLists
  <2>2. mark_clients_ready(back, {c}) = back
    BY <2>1 DEF mark_clients_ready, ServerState
  <2>3. QED
    BY <2>2
<1> HIDE DEF heard
<1>7. CASE ~Whole(back, c)
  BY <1>4, <1>5, <1>7, YieldKeeps DEF SameClients, u
<1>8. CASE Whole(back, c)
  <2>1. u = [back EXCEPT !.yield = TRUE]
    BY <1>4, <1>6, <1>8 DEF YieldControl
  <2>2. Kept(u) /\ SameClients(back, u) /\ u.yield = TRUE
    BY <1>5, <2>1, FlagKeeps
  <2>3. QED
    BY <1>5, <2>2 DEF SameClients, u
<1>9. QED
  BY <1>7, <1>8

AllKinds == Kinds \cup {"initial", "authorised"}

\* Whatever a request does, its client goes on being served only from the list.
LEMMA ExecuteKeeps ==
    ASSUME NEW t, Kept(t), t.shut \subseteq gone, NEW c \in t.ready, Whole(t, c),
           NEW kind \in AllKinds, NEW fits, NEW taking
    PROVE  /\ Kept(Execute(t, c, kind, fits, taking))
           /\ Execute(t, c, kind, fits, taking).live = t.live
           /\ Execute(t, c, kind, fits, taking).shut \subseteq gone
           /\ \/ Execute(t, c, kind, fits, taking).yield
              \/ c \in Execute(t, c, kind, fits, taking).ready
<1> DEFINE v == [t EXCEPT !.buf[c] = @ - Request, !.head[c] = "any"]
           u == Execute(t, c, kind, fits, taking)
<1>1. t \in ServerState /\ c \in Clients /\ c \in t.live
  BY DEF Kept, InputKept, ServerState, ListInv
<1>2. PICK n \in 0 .. BufSize : n = t.buf[c] - Request /\ n + Request <= BufSize
  BY <1>1, LoopAssumption DEF ServerState, Whole, Request
<1>3. v = Refilled(t, c, n, "any")
  BY <1>1, <1>2 DEF ServerState, Refilled
<1> HIDE DEF v
<1>4. Kept(v) /\ SameLists(t, v) /\ v.live = t.live /\ v.shut = t.shut /\ v.buf[c] = n
  BY <1>3, BufferKeeps DEF Heads
<1>5. v.buf[c] + Request <= BufSize
  BY <1>2, <1>4
<1>6. c \in v.ready /\ c \in v.live /\ v.shut \subseteq gone
  BY <1>1, <1>4 DEF SameLists
<1>7. CASE kind = "initial"
  <2>1. u = ProcInitialConnection(v, c, FALSE)
    BY <1>7 DEF Execute, v
  <2>2. /\ Kept(ProcInitialConnection(v, c, FALSE))
        /\ ProcInitialConnection(v, c, FALSE).live = v.live
        /\ ProcInitialConnection(v, c, FALSE).shut = v.shut
        /\ ProcInitialConnection(v, c, FALSE).yield
    BY <1>4, <1>5, <1>6, InitialKeeps
  <2>3. QED
    BY <1>4, <1>6, <2>1, <2>2
<1>8. CASE kind = "authorised"
  <2>1. u = ProcInitialConnection(v, c, TRUE)
    BY <1>8 DEF Execute, v
  <2>2. /\ Kept(ProcInitialConnection(v, c, TRUE))
        /\ ProcInitialConnection(v, c, TRUE).live = v.live
        /\ ProcInitialConnection(v, c, TRUE).shut = v.shut
        /\ ProcInitialConnection(v, c, TRUE).yield
    BY <1>4, <1>5, <1>6, InitialKeeps
  <2>3. QED
    BY <1>4, <1>6, <2>1, <2>2
<1>9. CASE kind = "reply"
  <2>1. u = WriteToClient(v, c, fits, taking)
    BY <1>9 DEF Execute, v
  <2>2. QED
    BY <1>4, <1>6, <2>1, WriteKeeps
<1>10. CASE kind = "quiet"
  <2>1. u = v
    BY <1>10 DEF Execute, v
  <2>2. QED
    BY <1>4, <1>6, <2>1
<1>11. CASE kind = "grab"
  <2>1. u = GrabServer(v, c)
    BY <1>11 DEF Execute, v
  <2>2. QED
    BY <1>4, <1>5, <1>6, <2>1, GrabKeeps
<1>12. CASE kind = "ungrab"
  <2>1. u = UngrabServer(v)
    BY <1>12 DEF Execute, v
  <2>2. QED
    BY <1>4, <1>6, <2>1, UngrabKeeps DEF SameClients
<1>13. CASE kind = "impervious"
  <2>1. u = MakeClientGrabImpervious(v, c)
    BY <1>13 DEF Execute, v
  <2>2. QED
    BY <1>4, <1>6, <2>1, ImperviousKeeps DEF SameClients
<1>14. CASE kind = "pervious"
  <2>1. u = MakeClientGrabPervious(v, c)
    BY <1>14 DEF Execute, v
  <2>2. QED
    BY <1>4, <1>6, <2>1, PerviousKeeps DEF SameClients
<1>15. CASE kind = "sleep"
  <2>1. u = IgnoreClient(v, c)
    BY <1>15 DEF Execute, v
  <2>2. QED
    BY <1>4, <1>6, <2>1, IgnoreKeeps DEF SameClients
<1>16. QED
  BY <1>7, <1>8, <1>9, <1>10, <1>11, <1>12, <1>13, <1>14, <1>15 DEF AllKinds, Kinds

LEMMA EndTurnKeeps ==
    ASSUME NEW t, Kept(t), t.shut \subseteq gone, EndTurn(t)
    PROVE  Kept(s') /\ s'.shut \subseteq gone /\ pc' = "block" /\ client' = None
<1>1. PICK taking : s' = [FlushAllOutput(t, taking) EXCEPT !.yield = FALSE]
  BY DEF EndTurn
<1>2. PICK f : f = FlushAllOutput(t, taking)
  OBVIOUS
<1>3. Kept(f) /\ f.shut \subseteq gone
  BY <1>2, FlushAllKeeps
<1>4. PICK u : u = s'
  OBVIOUS
<1>5. Kept(u) /\ SameClients(f, u)
  BY <1>1, <1>2, <1>3, <1>4, FlagKeeps
<1>6. QED
  BY <1>3, <1>4, <1>5 DEF EndTurn, SameClients

-----------------------------------------------------------------------------
\* The steps

LEMMA InitInv == Init => IInv
<1>1. SUFFICES ASSUME Init PROVE IInv
  OBVIOUS
<1>2. PICK live \in SUBSET Clients : \E impervious \in SUBSET live :
         s = [live |-> live, shut |-> {}, buf |-> [c \in Clients |-> 0],
              head |-> [c \in Clients |-> "any"], ready |-> {}, saved |-> {},
              ignored |-> {}, impervious |-> impervious, waiters |-> {}, grab |-> None,
              yield |-> FALSE, reads |-> live, seen |-> {}, writes |-> {}, seenOut |-> {},
              out |-> {}, pending |-> {}, newOutput |-> FALSE, lapsed |-> {}]
  BY <1>1 DEF Init
<1>3. PICK impervious \in SUBSET live :
         s = [live |-> live, shut |-> {}, buf |-> [c \in Clients |-> 0],
              head |-> [c \in Clients |-> "any"], ready |-> {}, saved |-> {},
              ignored |-> {}, impervious |-> impervious, waiters |-> {}, grab |-> None,
              yield |-> FALSE, reads |-> live, seen |-> {}, writes |-> {}, seenOut |-> {},
              out |-> {}, pending |-> {}, newOutput |-> FALSE, lapsed |-> {}]
  BY <1>2
<1>4. [c \in Clients |-> 0] \in [Clients -> 0 .. BufSize]
  BY LoopAssumption
<1>5. s \in ServerState
  BY <1>3, <1>4 DEF ServerState
<1>6. ListInv(s) /\ IgnoredInv(s) /\ OutputInv(s) /\ GrabInv(s)
  BY <1>3 DEF ListInv, IgnoredInv, OutputInv, GrabInv
<1>7. PollInv(s)
  BY <1>3 DEF PollInv, listen_to_client
<1>8. \A c \in Clients : ~Whole(s, c)
  BY <1>3 DEF Whole, Request
<1>9. ServedInv(s) /\ WholeInv(s)
  BY <1>3, <1>8 DEF ServedInv, WholeInv
<1>10. LoopInv
  BY <1>1 DEF Init, LoopInv
<1>11. EnvInv
  BY <1>1, LoopAssumption DEF Init, EnvInv, Request
<1>12. ShutInv
  BY <1>3 DEF ShutInv
<1>13. QED
  BY <1>5, <1>6, <1>7, <1>9, <1>10, <1>11, <1>12 DEF IInv, Kept, InputKept

\* The end of a turn, and the steps that leave the environment alone
LEMMA TurnInv ==
    ASSUME IInv, NEW t, Kept(t), t.shut \subseteq gone, EndTurn(t),
           UNCHANGED <<gone, inputs>>,
           wire' \in [Clients -> Nat] /\ \A c \in Clients : wire'[c] <= wire[c]
    PROVE  IInv'
<1>1. Kept(s') /\ s'.shut \subseteq gone /\ pc' = "block" /\ client' = None
  BY EndTurnKeeps
<1>2. Kept(s)'
  BY <1>1
<1>3. ShutInv' /\ LoopInv'
  BY <1>1 DEF ShutInv, LoopInv
<1>4. EnvInv'
  BY LoopAssumption DEF IInv, EnvInv, Request
<1>5. QED
  BY <1>2, <1>3, <1>4 DEF IInv

\* What follows from the invariant for the client that is being served
LEMMA Serving ==
    ASSUME IInv, NEW c \in Clients, client = c
    PROVE  pc = "serve" /\ c \in s.ready /\ c \in s.live /\ s.shut \subseteq gone
<1>1. c # None
  BY LoopAssumption
<1>2. QED
  BY <1>1 DEF IInv, LoopInv, Kept, InputKept, ListInv, ShutInv

LEMMA StepInv == IInv /\ [Next]_vars => IInv'
<1>1. SUFFICES ASSUME IInv, [Next]_vars PROVE IInv'
  OBVIOUS
<1>2. Kept(s) /\ s.shut \subseteq gone /\ s.live \subseteq Clients /\ EnvInv /\ LoopInv
  BY <1>1 DEF IInv, ShutInv, Kept, InputKept, ServerState
<1>3. CASE BlockHandler
  <2>1. Kept(s') /\ s'.shut \subseteq gone /\ pc' = "poll" /\ client' = None
        /\ UNCHANGED <<wire, gone, inputs>>
    BY <1>2, <1>3, FlushAllKeeps DEF BlockHandler, LoopInv
  <2>2. QED
    BY <1>2, <2>1 DEF IInv, ShutInv, LoopInv, EnvInv
<1>4. CASE QueueNewConnections
  BY <1>2, <1>4 DEF QueueNewConnections, IInv, ShutInv, LoopInv, EnvInv
<1>5. CASE CloseStraggler
  <2>1. Min(s.shut) \in s.shut
    <3>1. s.shut \in SUBSET Nat /\ s.shut # {} /\ s.shut \subseteq Clients
      BY <1>2, <1>5, LoopAssumption DEF CloseStraggler, Kept, InputKept, ListInv
    <3>2. QED
      BY <3>1, LoopAssumption, FS_Subset, MinIn
  <2>2. Min(s.shut) \in s.live
    BY <1>2, <2>1 DEF Kept, InputKept, ListInv
  <2>3. /\ Kept(s') /\ s'.shut \subseteq gone
        /\ UNCHANGED <<pc, client, wire, gone, inputs>> /\ pc = "connect"
    BY <1>2, <1>5, <2>2, CloseKeeps DEF CloseStraggler
  <2>4. QED
    BY <1>2, <2>3 DEF IInv, ShutInv, LoopInv, EnvInv
<1>6. ASSUME NEW c \in Clients, EstablishNewConnections(c) PROVE IInv'
  <2> DEFINE v == [s EXCEPT !.live = @ \cup {c}, !.buf[c] = 1, !.head[c] = "setup"]
  <2>1. s \in ServerState /\ 1 \in 0 .. BufSize /\ c \notin s.live
    BY <1>2, <1>6, LoopAssumption DEF Kept, InputKept, Request, EstablishNewConnections
  <2>2. /\ v \in ServerState /\ SameLists(s, v) /\ SameGrab(s, v)
        /\ v.live = s.live \cup {c} /\ v.shut = s.shut /\ v.buf = [s.buf EXCEPT ![c] = 1]
    BY <2>1 DEF ServerState, SameLists, SameGrab
  <2>3. SameInput(s, v) /\ SameOutput(s, v)
    BY <2>1 DEF ServerState, SameInput, SameOutput
  <2>4. s' = set_poll_clients(v, {c}) /\ pc' = "block"
        /\ UNCHANGED <<client, wire, gone, inputs>> /\ pc = "connect"
    BY <1>6 DEF EstablishNewConnections
  <2> HIDE DEF v
  <2>5. PICK u : u = s'
    OBVIOUS
  <2>6. /\ u \in ServerState
        /\ SameClients(v, u) /\ SameLists(v, u) /\ SameGrab(v, u) /\ SameOutput(v, u)
        /\ u.reads = (v.reads \ {c}) \cup Heard(v, {c}) /\ u.seen = v.seen \ Heard(v, {c})
    BY <2>2, <2>4, <2>5, PollIs
  <2>7. Heard(v, {c}) = {d \in {c} \ s.shut : listen_to_client(u, c)}
    BY <2>2, <2>6 DEF Heard, listen_to_client, SameGrab
  <2>8. /\ u.live = s.live \cup {c} /\ u.shut = s.shut /\ u.buf = [s.buf EXCEPT ![c] = 1]
        /\ SameLists(s, u) /\ SameGrab(s, u) /\ SameOutput(s, u)
        /\ u.reads = (s.reads \ {c}) \cup Heard(v, {c}) /\ u.seen = s.seen \ Heard(v, {c})
    BY <2>2, <2>3, <2>6 DEF SameClients, SameLists, SameGrab, SameInput, SameOutput
  <2>9. s.buf \in [Clients -> 0 .. BufSize]
    BY <2>1 DEF ServerState
  <2>10. u.buf[c] = 1 /\ \A d \in Clients : d # c => u.buf[d] = s.buf[d]
    BY <2>8, <2>9
  <2>11. ListInv(u) /\ IgnoredInv(u)
    BY <1>2, <2>7, <2>8
       DEF Kept, InputKept, ListInv, IgnoredInv, SameLists, SameGrab, SameOutput
  <2>12. PollInv(u)
    BY <1>2, <2>7, <2>8 DEF Kept, InputKept, PollInv, listen_to_client, SameGrab
  <2>13. GrabInv(u)
    BY <1>2, <2>8 DEF Kept, InputKept, GrabInv, listen_to_client, SameLists, SameGrab
  <2>14. ServedInv(u)
    <3>1. SUFFICES ASSUME NEW d \in u.live \ u.shut, listen_to_client(u, d),
                          ~client_is_ready(u, d)
                   PROVE  ~Whole(u, d) /\ d \in u.reads /\ d \notin u.seen
      BY DEF ServedInv
    <3>2. CASE d = c
      BY <2>7, <2>8, <2>10, <3>1, <3>2 DEF Whole, Request
    <3>3. CASE d # c
      <4>1. d \in s.live \ s.shut /\ ~client_is_ready(s, d) /\ listen_to_client(s, d)
        BY <2>8, <3>1, <3>3 DEF client_is_ready, listen_to_client, SameLists, SameGrab
      <4>2. ~Whole(s, d) /\ d \in s.reads /\ d \notin s.seen /\ d \in Clients
        BY <1>2, <4>1 DEF Kept, InputKept, ServedInv
      <4>3. QED
        BY <2>8, <2>10, <3>3, <4>2 DEF Whole
    <3>4. QED
      BY <3>2, <3>3
  <2>15. WholeInv(u)
    <3>1. SUFFICES ASSUME NEW d \in u.live \ u.shut, Whole(u, d), d \notin u.ignored
                   PROVE  client_is_ready(u, d)
      BY DEF WholeInv
    <3>2. d # c
      BY <2>10, <3>1 DEF Whole, Request
    <3>3. d \in s.live \ s.shut /\ d \in Clients /\ d \notin s.ignored
      BY <1>2, <2>8, <3>1, <3>2 DEF SameGrab
    <3>4. Whole(s, d)
      BY <2>10, <3>1, <3>2, <3>3 DEF Whole
    <3>5. client_is_ready(s, d)
      BY <1>2, <3>3, <3>4 DEF Kept, InputKept, WholeInv
    <3>6. QED
      BY <2>8, <3>5 DEF client_is_ready, SameLists
  <2>16. OutputInv(u)
    BY <1>2, <2>1, <2>8 DEF Kept, InputKept, ListInv, OutputInv, SameOutput
  <2>17. QED
    BY <1>2, <2>4, <2>5, <2>6, <2>8, <2>11, <2>12, <2>13, <2>14, <2>15, <2>16
       DEF IInv, ShutInv, LoopInv, EnvInv, Kept, InputKept
<1>7. CASE ospoll_wait
  <2>1. Kept(s') /\ s'.shut \subseteq gone
    <3>1. PICK taking \in SUBSET s.writes, errors \in SUBSET (gone \cap Polled(s)) :
             \/ s' = s
             \/ s' = Report(s, Polled(s), taking)
             \/ \E c \in errors, before \in SUBSET (Polled(s) \ errors) :
                   s' = CloseDownClient(Report(s, before, taking), c)
      BY <1>7 DEF ospoll_wait
    <3>2. CASE s' = s
      BY <1>2, <3>2
    <3>3. CASE s' = Report(s, Polled(s), taking)
      BY <1>2, <3>3, ReportKeeps DEF SameClients
    <3>4. ASSUME NEW c \in errors, NEW before \in SUBSET (Polled(s) \ errors),
                 s' = CloseDownClient(Report(s, before, taking), c)
          PROVE  Kept(s') /\ s'.shut \subseteq gone
      <4>1. Kept(Report(s, before, taking)) /\ SameClients(s, Report(s, before, taking))
        BY <1>2, ReportKeeps
      <4>2. c \in Report(s, before, taking).live
        BY <4>1 DEF SameClients, Polled
      <4>3. QED
        BY <1>2, <3>4, <4>1, <4>2, CloseKeeps DEF SameClients
    <3>5. QED
      BY <3>1, <3>2, <3>3, <3>4
  <2>2. pc' \in {"pick", "block"} /\ client' = None /\ UNCHANGED <<wire, gone, inputs>>
    BY <1>2, <1>7 DEF ospoll_wait, LoopInv
  <2>3. QED
    BY <1>2, <2>1, <2>2 DEF IInv, ShutInv, LoopInv, EnvInv
<1>8. ASSUME NEW c \in Clients, SmartScheduleClient(c) PROVE IInv'
  <2>1. c # None
    BY LoopAssumption
  <2>2. QED
    BY <1>2, <1>8, <2>1 DEF SmartScheduleClient, IInv, ShutInv, LoopInv, EnvInv
<1>9. ASSUME NEW c \in Clients, SliceIsUsedUp(c) PROVE IInv'
  <2>1. wire' \in [Clients -> Nat] /\ \A d \in Clients : wire'[d] <= wire[d]
    BY <1>2, <1>9 DEF SliceIsUsedUp, EnvInv
  <2>2. QED
    BY <1>1, <1>2, <1>9, <2>1, TurnInv DEF SliceIsUsedUp
<1>10. ASSUME NEW c \in Clients, ReadRequestFromClient(c) PROVE IInv'
  <2>1. pc = "serve" /\ c \in s.ready /\ c \in s.live /\ client = c
    BY <1>1, <1>10, Serving DEF ReadRequestFromClient
  <2>2. wire \in [Clients -> Nat]
    BY <1>2 DEF EnvInv
  <2>3. CASE c \in s.shut \/ (wire[c] = 0 /\ c \in gone)
    <3>1. EndTurn(CloseDownClient(s, c)) /\ wire' = wire /\ UNCHANGED <<gone, inputs>>
      BY <1>10, <2>3 DEF ReadRequestFromClient
    <3>2. Kept(CloseDownClient(s, c)) /\ CloseDownClient(s, c).shut \subseteq gone
      BY <1>2, <2>1, CloseKeeps
    <3>3. wire' \in [Clients -> Nat] /\ \A d \in Clients : wire'[d] <= wire[d]
      BY <2>2, <3>1
    <3>4. QED
      BY <1>1, <3>1, <3>2, <3>3, TurnInv
  <2>4. CASE ~(c \in s.shut \/ (wire[c] = 0 /\ c \in gone))
    <3> DEFINE n == Min({wire[c], BufSize - s.buf[c]})
               read == ReadFromSocket(s, c, n)
    <3>1. /\ ~Whole(s, c)
          /\ IF Whole(read, c) THEN s' = read /\ UNCHANGED <<pc, client>> ELSE EndTurn(read)
          /\ wire' = [wire EXCEPT ![c] = @ - n] /\ UNCHANGED <<gone, inputs>>
      BY <1>10, <2>4 DEF ReadRequestFromClient
    <3>2. s.buf[c] \in 0 .. BufSize /\ BufSize \in Nat
      BY <1>2, LoopAssumption DEF Kept, InputKept, ServerState
    <3>3. n \in Nat /\ n <= wire[c] /\ n <= BufSize - s.buf[c]
      <4>1. PICK i, j \in Nat : i = wire[c] /\ j = BufSize - s.buf[c]
        BY <2>2, <3>2
      <4>2. HasMin({i, j})
        BY DEF HasMin
      <4>3. Min({i, j}) \in {i, j} /\ \A k \in {i, j} : Min({i, j}) <= k
        BY <4>2 DEF HasMin, Min
      <4>4. QED
        BY <4>1, <4>3
    <3> HIDE DEF n
    <3>4. s.buf[c] + n <= BufSize
      BY <3>2, <3>3
    <3>5. /\ Kept(read) /\ read.shut \subseteq gone /\ (n > 0 => read.ready = s.ready)
          /\ (Whole(read, c) => n > 0)
      BY <1>2, <2>1, <2>4, <3>1, <3>3, <3>4, ReadKeeps
    <3>6. wire' \in [Clients -> Nat] /\ \A d \in Clients : wire'[d] <= wire[d]
      BY <2>2, <3>1, <3>3
    <3> HIDE DEF read
    <3>7. CASE Whole(read, c)
      <4>1. s' = read /\ UNCHANGED <<pc, client, gone, inputs>> /\ c \in s'.ready
        BY <2>1, <3>1, <3>5, <3>7
      <4>2. EnvInv'
        BY <1>2, <3>6, <4>1, LoopAssumption DEF EnvInv, Request
      <4>3. QED
        BY <1>2, <2>1, <3>5, <4>1, <4>2 DEF IInv, ShutInv, LoopInv
    <3>8. CASE ~Whole(read, c)
      BY <1>1, <3>1, <3>5, <3>6, <3>8, TurnInv
    <3>9. QED
      BY <3>7, <3>8
  <2>5. QED
    BY <2>3, <2>4
<1>11. ASSUME NEW c \in Clients, ExecuteRequest(c) PROVE IInv'
  <2>1. pc = "serve" /\ c \in s.ready /\ client = c
    BY <1>1, <1>11, Serving DEF ExecuteRequest
  <2>2. PICK kind \in Possible(s, c), fits \in BOOLEAN, taking \in SUBSET {c} :
           Continue(Execute(s, c, kind, fits, taking), c)
    BY <1>11 DEF ExecuteRequest
  <2>3. kind \in AllKinds
    <3>1. s.head[c] \in Heads
      BY <1>2 DEF Kept, InputKept, ServerState, Heads
    <3>2. QED
      BY <3>1 DEF Possible, AllKinds, Kinds, Heads
  <2>4. Whole(s, c) /\ UNCHANGED <<wire, gone, inputs>>
    BY <1>11 DEF ExecuteRequest
  <2>5. PICK u : u = Execute(s, c, kind, fits, taking)
    OBVIOUS
  <2>6. Kept(u) /\ u.live = s.live /\ u.shut \subseteq gone /\ (u.yield \/ c \in u.ready)
    BY <1>2, <2>1, <2>3, <2>4, <2>5, ExecuteKeeps
  <2>7. wire' \in [Clients -> Nat] /\ \A d \in Clients : wire'[d] <= wire[d]
    BY <1>2, <2>4 DEF EnvInv
  <2>8. CASE c \in u.shut
    <3>1. EndTurn(CloseDownClient(u, c))
      BY <2>2, <2>5, <2>8 DEF Continue
    <3>2. c \in u.live
      BY <2>6, <2>8 DEF Kept, InputKept, ListInv
    <3>3. Kept(CloseDownClient(u, c)) /\ CloseDownClient(u, c).shut \subseteq gone
      BY <2>6, <3>2, CloseKeeps
    <3>4. QED
      BY <1>1, <2>4, <2>7, <3>1, <3>3, TurnInv
  <2>9. CASE c \notin u.shut /\ u.yield
    <3>1. EndTurn(u)
      BY <2>2, <2>5, <2>9 DEF Continue
    <3>2. QED
      BY <1>1, <2>4, <2>6, <2>7, <3>1, TurnInv
  <2>10. CASE c \notin u.shut /\ ~u.yield
    <3>1. s' = u /\ UNCHANGED <<pc, client>> /\ c \in s'.ready
      BY <2>2, <2>5, <2>6, <2>10 DEF Continue
    <3>2. QED
      BY <1>2, <2>1, <2>4, <2>6, <3>1 DEF IInv, ShutInv, LoopInv, EnvInv
  <2>11. QED
    BY <2>8, <2>9, <2>10
<1>12. ASSUME NEW c \in Clients, ProcessInputEvents(c) PROVE IInv'
  <2>1. /\ pc = "block" /\ inputs < MaxInput /\ c \in s.live /\ inputs' = inputs + 1
        /\ UNCHANGED <<pc, client, wire, gone>>
    BY <1>12 DEF ProcessInputEvents
  <2>2. Kept(s') /\ s'.shut \subseteq gone
    BY <1>2, <1>12, <2>1, WriteKeeps DEF ProcessInputEvents
  <2>3. EnvInv'
    BY <1>2, <2>1, LoopAssumption DEF EnvInv, Request
  <2>4. QED
    BY <1>2, <2>1, <2>2, <2>3 DEF IInv, ShutInv, LoopInv
<1>13. ASSUME NEW c \in Clients, ClientWakeup(c) PROVE IInv'
  <2>1. /\ pc = "block" /\ c \in s.ignored /\ s' = AttendClient(s, c)
        /\ UNCHANGED <<pc, client, wire, gone, inputs>>
    BY <1>13 DEF ClientWakeup
  <2>2. c \in s.live
    BY <1>2, <2>1 DEF Kept, InputKept, IgnoredInv
  <2>3. Kept(s') /\ s'.shut \subseteq gone
    BY <1>2, <2>1, <2>2, AttendKeeps DEF SameClients
  <2>4. QED
    BY <1>2, <2>1, <2>3 DEF IInv, ShutInv, LoopInv, EnvInv
<1>14. ASSUME NEW c \in Clients, Send(c) PROVE IInv'
  <2>1. PICK n \in 1 .. Request : wire' = [wire EXCEPT ![c] = @ + n]
    BY <1>14 DEF Send
  <2>2. inputs < MaxInput /\ inputs' = inputs + 1 /\ UNCHANGED <<s, pc, client, gone>>
    BY <1>14 DEF Send
  <2>3. EnvInv'
    BY <1>2, <2>1, <2>2, LoopAssumption DEF EnvInv, Request
  <2>4. QED
    BY <1>2, <2>2, <2>3 DEF IInv, ShutInv, LoopInv
<1>15. ASSUME NEW c \in Clients, Leave(c) PROVE IInv'
  BY <1>2, <1>15 DEF Leave, IInv, ShutInv, LoopInv, EnvInv
<1>16. CASE UNCHANGED vars
  BY <1>2, <1>16 DEF vars, IInv, ShutInv, LoopInv, EnvInv
<1>17. CASE Dispatch
  BY <1>3, <1>5, <1>6, <1>7, <1>8, <1>9, <1>10, <1>11, <1>17 DEF Dispatch, Serve
<1>18. CASE OtherWork
  BY <1>4, <1>12, <1>13, <1>18 DEF OtherWork
<1>19. CASE ClientsAct
  BY <1>14, <1>15, <1>19 DEF ClientsAct
<1>20. QED
  BY <1>1, <1>16, <1>17, <1>18, <1>19 DEF Next

LEMMA AlwaysInv == Spec => []IInv
<1>1. QED
  BY InitInv, StepInv, PTL DEF Spec

-----------------------------------------------------------------------------
\* The theorems

\* The types, and that a client is in one of the two lists at most.
THEOREM TypeCorrect == Spec => []TypeOK
<1>1. IInv => TypeOK
  <2>1. SUFFICES ASSUME IInv PROVE TypeOK
    OBVIOUS
  <2>2. s \in ServerState /\ ListInv(s) /\ LoopInv /\ EnvInv
    BY <2>1 DEF IInv, Kept, InputKept
  <2>3. wire \in [Clients -> 0 .. Request * MaxInput]
    BY <2>2, LoopAssumption DEF EnvInv, Request
  <2>4. QED
    BY <2>2, <2>3 DEF TypeOK, ListInv, LoopInv, EnvInv
<1>2. QED
  BY <1>1, AlwaysInv, PTL

\* No event of the edge-triggered poll, no request in a buffer and no output that waits
\* for its socket is ever forgotten.
THEOREM NobodyIsForgotten == Spec => []NothingIsForgotten
<1>1. IInv => NothingIsForgotten
  BY DEF IInv, Kept, InputKept, ServedInv, WholeInv, OutputInv, NothingIsForgotten
<1>2. QED
  BY <1>1, AlwaysInv, PTL

\* Only clients that the grab allows are ready to be served.
THEOREM GrabsAreKept == Spec => []GrabIsKept
<1>1. IInv => GrabIsKept
  BY DEF IInv, Kept, InputKept, GrabInv, GrabIsKept
<1>2. QED
  BY <1>1, AlwaysInv, PTL
=============================================================================
