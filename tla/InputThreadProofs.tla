-------------------------- MODULE InputThreadProofs --------------------------
(***************************************************************************)
(* Proofs about InputThread, for any set of descriptors, any number of     *)
(* calls and inputs, and whatever size of read.                            *)
(***************************************************************************)
EXTENDS InputThread, TLAPS

-----------------------------------------------------------------------------
\* The list of devices

\* Entries are told apart by their ids, which are those of calls made.
FreshInv ==
    /\ \A e \in devs : e.id <= calls
    /\ \A d, e \in devs : d.id = e.id => d = e

\* A descriptor has one entry that lives and one that waits for its removal, at most;
\* with both, the first is the one to be removed, and the thread has seen neither.
ListInv ==
    /\ \A d, e \in devs : d.fd = e.fd /\ d.state # "removed" /\ e.state # "removed" => d = e
    /\ \A d, e \in devs : d.fd = e.fd /\ d.state = "removed" /\ e.state = "removed" => d = e
    /\ \A d, e \in devs : d.fd = e.fd /\ d.state = "removed" /\ e.state # "removed"
                            => d.id < e.id /\ e.state = "added"

\* What the drivers believe
RegisteredInv ==
    ~MayHurry =>
        /\ OnlyRegisteredDevicesRead
        /\ \A fd \in Fds : registered[fd] # None =>
              \E e \in devs : e.fd = fd /\ e.id = registered[fd] /\ e.state # "removed"

\* What the thread polls
PolledInv ==
    /\ PolledDevicesExist
    /\ \A e \in devs : e.state = "running" => polled[e.fd] = e.id

\* A descriptor to be called back for still has its input, or its pipe its byte.
ReadyInv ==
    /\ \A fd \in Fds : fd \in ready => input[fd] > 0
    /\ Pipe \in ready => hotplug > 0 \/ ~open

\* The thread stops when the pipe is closed, and not before.
RunningInv ==
    /\ worker \in {"loop", "update", "wait", "serve"} /\ ~running => ~open
    /\ worker = "ended" => ~open

\* A change is announced, in the pipe, or about to be looked for.
ChangeInv ==
    /\ (\E e \in devs : e.state # "running") => changed
    /\ changed /\ open =>
        main = "announce" \/ hotplug > 0 \/ worker \notin {"wait", "ended"}

IInv ==
    /\ TypeOK /\ FreshInv /\ ListInv /\ RegisteredInv /\ PolledInv
    /\ ReadyInv /\ RunningInv /\ ChangeInv

-----------------------------------------------------------------------------
\* Lemmas about the loops over the list

LEMMA FirstIsThere ==
    ASSUME NEW fd, NEW states, NEW e \in First(fd, states)
    PROVE  /\ e \in devs /\ e.fd = fd /\ e.state \in states
           /\ \A d \in devs : d.fd = fd /\ d.state \in states => e.id <= d.id
BY DEF First

\* Among the live entries there is no choice.
LEMMA FirstLive ==
    ASSUME TypeOK, ListInv, NEW fd, NEW e \in devs,
           e.fd = fd, e.state # "removed"
    PROVE  First(fd, {"added", "running"}) = {e}
<1>1. \A d \in devs : d.fd = fd /\ d.state \in {"added", "running"} => d = e
  BY DEF ListInv
<1>2. e.state \in {"added", "running"} /\ e.id <= e.id
  BY DEF TypeOK, Device, States, Ids
<1> QED BY <1>1, <1>2 DEF First

\* The last change is the entry that is added, if there is one, and otherwise the one
\* that is removed.
LEMMA LastIsAdded ==
    ASSUME TypeOK, ListInv, NEW e \in devs, e.state = "added"
    PROVE  LastChange(e.fd) = {e}
<1>1. \A d \in devs : d.fd = e.fd /\ d.state # "running" => d = e \/ d.id < e.id
  BY DEF ListInv
<1>2. \A d \in devs : d.id \in Int
  BY DEF TypeOK, Device, Ids
<1>3. e.state # "running"
  OBVIOUS
<1> QED BY <1>1, <1>2, <1>3 DEF LastChange

LEMMA LastIsRemoved ==
    ASSUME TypeOK, ListInv, NEW e \in devs, e.state = "removed",
           \A d \in devs : d.fd = e.fd => d.state = "removed"
    PROVE  LastChange(e.fd) = {e}
<1>1. \A d \in devs : d.fd = e.fd => d = e
  BY DEF ListInv
<1>2. e.id <= e.id /\ e.state # "running"
  BY DEF TypeOK, Device, Ids
<1> QED BY <1>1, <1>2 DEF LastChange

LEMMA PolledAdded ==
    ASSUME TypeOK, ListInv, NEW e \in devs, e.state = "added"
    PROVE  Polled[e.fd] = e.id
<1>1. LastChange(e.fd) = {e} /\ e.fd \in Fds
  BY LastIsAdded DEF TypeOK, Device
<1>2. (CHOOSE d \in LastChange(e.fd) : TRUE) = e
  BY <1>1
<1> QED BY <1>1, <1>2 DEF Polled

LEMMA PolledRemoved ==
    ASSUME TypeOK, ListInv, NEW e \in devs, e.state = "removed",
           \A d \in devs : d.fd = e.fd => d.state = "removed"
    PROVE  Polled[e.fd] = None
<1>1. LastChange(e.fd) = {e} /\ e.fd \in Fds
  BY LastIsRemoved DEF TypeOK, Device
<1>2. (CHOOSE d \in LastChange(e.fd) : TRUE) = e
  BY <1>1
<1> QED BY <1>1, <1>2 DEF Polled

LEMMA PolledKept ==
    ASSUME NEW fd \in Fds, \A d \in devs : d.fd = fd => d.state = "running"
    PROVE  Polled[fd] = polled[fd]
BY DEF Polled, LastChange

LEMMA PolledType ==
    ASSUME TypeOK
    PROVE  Polled \in [Fds -> Ids \cup {None}]
<1>1. ASSUME NEW fd \in Fds, LastChange(fd) # {}
      PROVE  (CHOOSE d \in LastChange(fd) : TRUE) \in devs
  BY <1>1 DEF LastChange
<1>2. \A d \in devs : d.id \in Ids
  BY DEF TypeOK, Device
<1>3. \A fd \in Fds : polled[fd] \in Ids \cup {None}
  BY DEF TypeOK
<1>4. \A fd \in Fds : Polled[fd] \in Ids \cup {None}
  BY <1>1, <1>2, <1>3 DEF Polled
<1> QED BY <1>4 DEF Polled

-----------------------------------------------------------------------------

LEMMA InitIInv == Init => IInv
<1> SUFFICES ASSUME Init PROVE IInv
  OBVIOUS
<1> USE DEF Init
<1>1. TypeOK
  <2>1. polled \in [Fds -> Ids \cup {None}] /\ registered \in [Fds -> Ids \cup {None}]
    OBVIOUS
  <2>2. input \in [Fds -> Nat] /\ calls \in 0 .. MaxCalls /\ inputs \in 0 .. MaxInputs
    BY BoundsAssumption
  <2> QED BY <2>1, <2>2 DEF TypeOK
<1>2. FreshInv /\ ListInv
  BY DEF FreshInv, ListInv
<1>3. RegisteredInv
  BY DEF RegisteredInv, OnlyRegisteredDevicesRead
<1>4. PolledInv
  BY DEF PolledInv, PolledDevicesExist
<1>5. ReadyInv /\ RunningInv /\ ChangeInv
  BY DEF ReadyInv, RunningInv, ChangeInv
<1> QED BY <1>1, <1>2, <1>3, <1>4, <1>5 DEF IInv

-----------------------------------------------------------------------------
\* Types

LEMMA DrainedType == \A bytes \in Nat : Drained(bytes) \in Nat
BY ChunkAssumption DEF Drained

LEMMA MarkedType ==
    ASSUME TypeOK, NEW e \in devs
    PROVE  Marked(e) \subseteq Device
BY DEF TypeOK, Marked, Device, States

LEMMA StepType == IInv /\ [Next]_vars => TypeOK'
<1> SUFFICES ASSUME IInv, [Next]_vars PROVE TypeOK'
  OBVIOUS
<1>0. TypeOK /\ ReadyInv
  BY DEF IInv
<1> USE BoundsAssumption, <1>0
    DEF shared, threadVars
<1>1. CASE MainGoesOn \/ WokenOtherwise \/ InputThreadInit \/ InputThreadFini
  <2>1. CASE Woken
    <3>1. wake' \in Nat
      BY <2>1, DrainedType DEF Woken, TypeOK
    <3> QED BY <2>1, <3>1 DEF Woken, TypeOK
  <2>2. CASE FillHotplugPipe
    <3>1. hotplug' \in Nat
      BY <2>2 DEF FillHotplugPipe, TypeOK
    <3> QED BY <2>2, <3>1 DEF FillHotplugPipe, TypeOK
  <2>3. CASE ProcessInputEvents
    BY <2>3 DEF ProcessInputEvents, TypeOK
  <2>4. CASE WaitForSomething
    BY <2>4 DEF WaitForSomething, TypeOK
  <2>5. CASE Joined
    BY <2>5 DEF Joined, TypeOK
  <2>6. CASE WokenOtherwise
    BY <2>6 DEF WokenOtherwise, TypeOK
  <2>7. CASE InputThreadInit
    BY <2>7 DEF InputThreadInit, TypeOK
  <2>8. CASE InputThreadFini
    BY <2>8 DEF InputThreadFini, TypeOK
  <2> QED BY <1>1, <2>1, <2>2, <2>3, <2>4, <2>5, <2>6, <2>7, <2>8 DEF MainGoesOn
<1>2. ASSUME NEW fd \in Fds, InputThreadRegisterDev(fd) PROVE TypeOK'
  <2>1. calls + 1 \in Ids /\ calls' = calls + 1 /\ calls' \in 0 .. MaxCalls
    BY <1>2 DEF InputThreadRegisterDev, Announce, TypeOK, Ids
  <2>2. devs' \subseteq Device /\ registered' \in [Fds -> Ids \cup {None}]
    <3>1. CASE \E e \in First(fd, {"added", "running"}) :
                  devs' = devs /\ registered' = [registered EXCEPT ![fd] = e.id]
      <4>1. PICK e \in First(fd, {"added", "running"}) :
                  devs' = devs /\ registered' = [registered EXCEPT ![fd] = e.id]
        BY <3>1
      <4>2. e.id \in Ids
        BY FirstIsThere DEF TypeOK, Device
      <4> QED BY <4>1, <4>2 DEF TypeOK
    <3>2. CASE /\ devs' = devs \cup {[fd |-> fd, id |-> calls + 1, state |-> "added"]}
               /\ registered' = [registered EXCEPT ![fd] = calls + 1]
      BY <2>1, <3>2 DEF TypeOK, Device, States
    <3> QED BY <1>2, <3>1, <3>2 DEF InputThreadRegisterDev
  <2> QED BY <1>2, <2>1, <2>2 DEF InputThreadRegisterDev, Announce, TypeOK
<1>3. ASSUME NEW fd \in Fds, InputThreadUnregisterDev(fd) PROVE TypeOK'
  <2>1. PICK e \in First(fd, States) : devs' = Marked(e)
    BY <1>3 DEF InputThreadUnregisterDev
  <2>2. devs' \subseteq Device
    BY <2>1, FirstIsThere, MarkedType
  <2>3. calls' \in 0 .. MaxCalls
    BY <1>3 DEF InputThreadUnregisterDev, Announce, TypeOK
  <2> QED BY <1>3, <2>2, <2>3 DEF InputThreadUnregisterDev, Announce, TypeOK
<1>4. CASE Enter \/ LookForChanges \/ ospoll_wait \/ KickMainThread
  <2>1. CASE Enter
    BY <2>1 DEF Enter, TypeOK
  <2>2. CASE LookForChanges
    BY <2>2 DEF LookForChanges, TypeOK
  <2>3. CASE ospoll_wait
    BY <2>3 DEF ospoll_wait, Readable, TypeOK
  <2>4. CASE KickMainThread
    BY <2>4 DEF KickMainThread, TypeOK
  <2> QED BY <1>4, <2>1, <2>2, <2>3, <2>4
<1>5. CASE UpdateDevices
  <2>1. devs' \subseteq Device
    BY <1>5 DEF UpdateDevices, TypeOK, Device, States
  <2> QED BY <1>5, <2>1, PolledType DEF UpdateDevices, TypeOK
<1>6. CASE InputThreadPipeNotify
  <2>1. hotplug' \in Nat
    BY <1>6, DrainedType DEF InputThreadPipeNotify, TypeOK
  <2> QED BY <1>6, <2>1 DEF InputThreadPipeNotify, TypeOK
<1>7. ASSUME NEW fd \in Fds, InputReady(fd) PROVE TypeOK'
  <2>1. input[fd] - 1 \in Nat
    BY <1>7 DEF InputReady, ReadyInv, TypeOK
  <2>2. input' \in [Fds -> Nat] /\ queue' \in Nat
    BY <1>7, <2>1 DEF InputReady, TypeOK
  <2> QED BY <1>7, <2>2 DEF InputReady, TypeOK
<1>8. ASSUME NEW fd \in Fds, InputArrives(fd) PROVE TypeOK'
  BY <1>8 DEF InputArrives, TypeOK
<1>9. CASE UNCHANGED vars
  BY <1>9 DEF vars, TypeOK
<1> QED
  BY <1>1, <1>2, <1>3, <1>4, <1>5, <1>6, <1>7, <1>8, <1>9 DEF Next, Work

-----------------------------------------------------------------------------
\* The list

Lists == <<devs, polled, registered, calls>>

ListsInv == FreshInv /\ ListInv /\ RegisteredInv /\ PolledInv

\* Nobody but the two calls, the thread's update and the end of the server touches the list.
LEMMA ListsKept ==
    ASSUME ListsInv, UNCHANGED Lists
    PROVE  ListsInv'
BY DEF ListsInv, Lists, FreshInv, ListInv, RegisteredInv, OnlyRegisteredDevicesRead,
       PolledInv, PolledDevicesExist

LEMMA RegisterKeepsLists ==
    ASSUME TypeOK, TypeOK', ListsInv, NEW fd \in Fds, InputThreadRegisterDev(fd)
    PROVE  ListsInv'
<1> USE DEF ListsInv
<1>0. /\ calls' = calls + 1 /\ polled' = polled
      /\ calls \in Nat
      /\ \A e \in devs : e.id \in Nat /\ e.state \in States /\ e.fd \in Fds
  BY DEF InputThreadRegisterDev, Announce, threadVars, TypeOK, Device, Ids
<1>1. CASE \E e \in First(fd, {"added", "running"}) :
              devs' = devs /\ registered' = [registered EXCEPT ![fd] = e.id]
  <2>1. PICK e \in First(fd, {"added", "running"}) :
              devs' = devs /\ registered' = [registered EXCEPT ![fd] = e.id]
    BY <1>1
  <2>2. e \in devs /\ e.fd = fd /\ e.state # "removed"
    BY FirstIsThere
  <2>3. \A d \in devs : d.fd = fd /\ d.state # "removed" => d = e
    BY <2>2 DEF ListInv
  <2>4. FreshInv' /\ ListInv' /\ PolledInv'
    BY <1>0, <2>1 DEF FreshInv, ListInv, PolledInv, PolledDevicesExist
  <2>5. RegisteredInv'
    BY <2>1, <2>2, <2>3 DEF RegisteredInv, OnlyRegisteredDevicesRead, TypeOK
  <2> QED BY <2>4, <2>5
<1>2. CASE /\ First(fd, {"added", "running"}) = {}
           /\ devs' = devs \cup {[fd |-> fd, id |-> calls + 1, state |-> "added"]}
           /\ registered' = [registered EXCEPT ![fd] = calls + 1]
  <2> DEFINE new == [fd |-> fd, id |-> calls + 1, state |-> "added"]
  <2>1. /\ new.fd = fd /\ new.id = calls + 1 /\ new.state = "added"
        /\ devs' = devs \cup {new}
    BY <1>2
  <2> HIDE DEF new
  <2>2. \A e \in devs : e.id < new.id
    BY <1>0, <2>1 DEF FreshInv
  <2>3. \A e \in devs : e.fd = fd => e.state = "removed"
    BY <1>2, FirstLive, TypeOK
  <2>4. FreshInv'
    BY <1>0, <2>1, <2>2 DEF FreshInv
  <2>5. ListInv'
    BY <2>1, <2>2, <2>3 DEF ListInv
  <2>6. PolledInv'
    BY <1>0, <2>1 DEF PolledInv, PolledDevicesExist
  <2>7. RegisteredInv'
    <3>1. registered'[fd] = new.id /\ \A f \in Fds : f # fd => registered'[f] = registered[f]
      BY <1>2, <2>1 DEF TypeOK
    <3> QED BY <1>0, <2>1, <2>3, <3>1 DEF RegisteredInv, OnlyRegisteredDevicesRead
  <2> QED BY <2>4, <2>5, <2>6, <2>7
<1> QED BY <1>1, <1>2 DEF InputThreadRegisterDev

LEMMA UnregisterKeepsLists ==
    ASSUME TypeOK, TypeOK', ListsInv, NEW fd \in Fds, InputThreadUnregisterDev(fd)
    PROVE  ListsInv'
<1> USE DEF ListsInv
<1>0. /\ calls' = calls + 1 /\ polled' = polled
      /\ calls \in Nat
      /\ registered' = [registered EXCEPT ![fd] = None]
      /\ MayUnregister(fd)
      /\ \A e \in devs : e.id \in Nat /\ e.state \in States /\ e.fd \in Fds
  BY DEF InputThreadUnregisterDev, Announce, threadVars, TypeOK, Device, Ids
<1>1. PICK e \in First(fd, States) : devs' = Marked(e)
  BY DEF InputThreadUnregisterDev
<1>2. e \in devs /\ e.fd = fd /\ \A d \in devs : d.fd = fd => e.id <= d.id
  BY <1>0, <1>1, FirstIsThere
<1> DEFINE old == [e EXCEPT !.state = "removed"]
<1>3. /\ old.fd = fd /\ old.id = e.id /\ old.state = "removed"
      /\ devs' = (devs \ {e}) \cup {old}
  BY <1>1, <1>2 DEF Marked, TypeOK, Device
<1> HIDE DEF old
\* An entry that waits for its removal is before the one that lives.
<1>4. \A d \in devs : d.fd = fd /\ d # e => e.state = "removed" /\ d.state = "added"
  <2> SUFFICES ASSUME NEW d \in devs, d.fd = fd, d # e
               PROVE  e.state = "removed" /\ d.state = "added"
    OBVIOUS
  <2>1. ~(d.id < e.id)
    BY <1>0, <1>2
  <2> QED BY <1>0, <1>2, <2>1 DEF ListInv
<1>5. \A d \in devs : d.fd = fd /\ d # e => e.id < d.id
  BY <1>2, <1>4 DEF ListInv
<1>6. FreshInv'
  BY <1>0, <1>2, <1>3 DEF FreshInv
<1>7. ListInv'
  BY <1>2, <1>3, <1>4, <1>5 DEF ListInv
<1>8. PolledInv'
  <2>1. PolledDevicesExist'
    BY <1>0, <1>2, <1>3 DEF PolledInv, PolledDevicesExist
  <2>2. \A d \in devs' : d.state = "running" => d \in devs
    BY <1>3
  <2> QED BY <1>0, <2>1, <2>2 DEF PolledInv
<1>9. RegisteredInv'
  <2> SUFFICES ASSUME ~MayHurry
               PROVE  /\ OnlyRegisteredDevicesRead'
                      /\ \A f \in Fds : registered'[f] # None =>
                            \E d \in devs' : d.fd = f /\ d.id = registered'[f]
                                             /\ d.state # "removed"
    BY DEF RegisteredInv
  <2>1. registered'[fd] = None /\ \A f \in Fds : f # fd => registered'[f] = registered[f]
    BY <1>0 DEF TypeOK
  <2>2. \A d \in devs : d.fd = fd /\ d.state = "removed" => registered[fd] = None
    BY <1>0 DEF MayUnregister
  <2>3. \A d \in devs : d.id # None
    BY <1>0, NoneAssumption
  <2>4. \A d \in devs : d.fd = fd => d = e
    BY <1>2, <1>4, <2>2, <2>3 DEF RegisteredInv, OnlyRegisteredDevicesRead
  <2>5. OnlyRegisteredDevicesRead'
    BY <1>0, <1>3, <2>1, <2>4 DEF RegisteredInv, OnlyRegisteredDevicesRead
  <2>6. ASSUME NEW f \in Fds, registered'[f] # None
        PROVE  \E d \in devs' : d.fd = f /\ d.id = registered'[f] /\ d.state # "removed"
    <3>1. f # fd /\ registered[f] # None
      BY <2>1, <2>6
    <3>2. PICK d \in devs : d.fd = f /\ d.id = registered[f] /\ d.state # "removed"
      BY <3>1 DEF RegisteredInv
    <3> QED BY <1>2, <1>3, <2>1, <3>1, <3>2
  <2> QED BY <2>5, <2>6
<1> QED BY <1>6, <1>7, <1>8, <1>9

LEMMA UpdateKeepsLists ==
    ASSUME TypeOK, TypeOK', ListsInv, UpdateDevices
    PROVE  ListsInv'
<1> USE DEF ListsInv
<1>0. /\ calls' = calls /\ polled' = Polled /\ registered' = registered
      /\ \A e \in devs : e.id \in Nat /\ e.state \in States /\ e.fd \in Fds
  BY DEF UpdateDevices, TypeOK, Device, Ids
\* Each entry comes from one that lived, with the same descriptor and id.
<1>1. \A e \in devs' : /\ e.state = "running"
                       /\ \E d \in devs : d.state # "removed" /\ d.fd = e.fd /\ d.id = e.id
                                          /\ e = [d EXCEPT !.state = "running"]
  BY DEF UpdateDevices, TypeOK, Device
<1>2. \A d \in devs : d.state # "removed" =>
          \E e \in devs' : e.fd = d.fd /\ e.id = d.id /\ e.state # "removed"
  <2> SUFFICES ASSUME NEW d \in devs, d.state # "removed"
               PROVE  \E e \in devs' : e.fd = d.fd /\ e.id = d.id /\ e.state # "removed"
    OBVIOUS
  <2>1. [d EXCEPT !.state = "running"] \in devs'
    BY DEF UpdateDevices
  <2> QED BY <2>1 DEF TypeOK, Device
<1>3. FreshInv'
  BY <1>0, <1>1 DEF FreshInv
<1>4. ListInv'
  BY <1>1 DEF ListInv
<1>5. RegisteredInv'
  <2> SUFFICES ASSUME ~MayHurry
               PROVE  /\ OnlyRegisteredDevicesRead'
                      /\ \A f \in Fds : registered'[f] # None =>
                            \E d \in devs' : d.fd = f /\ d.id = registered'[f]
                                             /\ d.state # "removed"
    BY DEF RegisteredInv
  <2>1. OnlyRegisteredDevicesRead'
    BY <1>0, <1>1 DEF RegisteredInv, OnlyRegisteredDevicesRead
  <2>2. ASSUME NEW f \in Fds, registered'[f] # None
        PROVE  \E d \in devs' : d.fd = f /\ d.id = registered'[f] /\ d.state # "removed"
    BY <1>0, <1>2, <2>2 DEF RegisteredInv
  <2> QED BY <2>1, <2>2
<1>6. \A d \in devs : d.state # "removed" => Polled[d.fd] = d.id
  <2> SUFFICES ASSUME NEW d \in devs, d.state # "removed"
               PROVE  Polled[d.fd] = d.id
    OBVIOUS
  <2>1. CASE d.state = "added"
    BY <2>1, PolledAdded
  <2>2. CASE d.state = "running"
    <3>1. \A e \in devs : e.fd = d.fd => e.state = "running"
      BY <1>0, <2>2 DEF ListInv, States
    <3> QED BY <1>0, <2>2, <3>1, PolledKept DEF PolledInv
  <2> QED BY <1>0, <2>1, <2>2 DEF States
<1>7. \A fd \in Fds : Polled[fd] # None =>
          \E d \in devs : d.fd = fd /\ d.id = Polled[fd] /\ d.state # "removed"
  <2> SUFFICES ASSUME NEW fd \in Fds, Polled[fd] # None
               PROVE  \E d \in devs : d.fd = fd /\ d.id = Polled[fd] /\ d.state # "removed"
    OBVIOUS
  <2>1. CASE \E d \in devs : d.fd = fd /\ d.state # "removed"
    BY <1>6, <2>1
  <2>2. CASE \A d \in devs : d.fd = fd => d.state = "removed"
    <3>1. CASE \E d \in devs : d.fd = fd
      BY <2>2, <3>1, PolledRemoved
    <3>2. CASE \A d \in devs : d.fd # fd
      BY <3>2, PolledKept DEF PolledInv, PolledDevicesExist
    <3> QED BY <3>1, <3>2
  <2> QED BY <2>1, <2>2
<1>8. PolledInv'
  <2>1. PolledDevicesExist'
    BY <1>0, <1>2, <1>7 DEF PolledDevicesExist
  <2>2. \A e \in devs' : e.state = "running" => polled'[e.fd] = e.id
    BY <1>0, <1>1, <1>6
  <2> QED BY <2>1, <2>2 DEF PolledInv
<1> QED BY <1>3, <1>4, <1>5, <1>8

LEMMA StepLists == IInv /\ [Next]_vars => ListsInv'
<1> SUFFICES ASSUME IInv, [Next]_vars PROVE ListsInv'
  OBVIOUS
<1>0. TypeOK /\ TypeOK' /\ ListsInv
  BY StepType DEF IInv, ListsInv
<1> USE DEF shared, threadVars, Lists
<1>1. CASE MainGoesOn \/ WokenOtherwise \/ InputThreadInit \/ InputThreadFini
  <2>1. CASE Joined
    BY <1>0, <2>1 DEF Joined, ListsInv, FreshInv, ListInv, RegisteredInv, PolledInv,
                      OnlyRegisteredDevicesRead, PolledDevicesExist
  <2>2. CASE FillHotplugPipe \/ ProcessInputEvents \/ WaitForSomething \/ Woken
    BY <1>0, <2>2, ListsKept DEF FillHotplugPipe, ProcessInputEvents, WaitForSomething, Woken
  <2>3. CASE WokenOtherwise \/ InputThreadInit \/ InputThreadFini
    BY <1>0, <2>3, ListsKept DEF WokenOtherwise, InputThreadInit, InputThreadFini
  <2> QED BY <1>1, <2>1, <2>2, <2>3 DEF MainGoesOn
<1>2. ASSUME NEW fd \in Fds, InputThreadRegisterDev(fd) PROVE ListsInv'
  BY <1>0, <1>2, RegisterKeepsLists
<1>3. ASSUME NEW fd \in Fds, InputThreadUnregisterDev(fd) PROVE ListsInv'
  BY <1>0, <1>3, UnregisterKeepsLists
<1>4. CASE UpdateDevices
  BY <1>0, <1>4, UpdateKeepsLists
<1>5. CASE Enter \/ LookForChanges \/ ospoll_wait \/ InputThreadPipeNotify \/ KickMainThread
  BY <1>0, <1>5, ListsKept
     DEF Enter, LookForChanges, ospoll_wait, InputThreadPipeNotify, KickMainThread
<1>6. ASSUME NEW fd \in Fds, InputReady(fd) \/ InputArrives(fd) PROVE ListsInv'
  BY <1>0, <1>6, ListsKept DEF InputReady, InputArrives
<1>7. CASE UNCHANGED vars
  BY <1>0, <1>7, ListsKept DEF vars
<1> QED BY <1>1, <1>2, <1>3, <1>4, <1>5, <1>6, <1>7 DEF Next, Work

-----------------------------------------------------------------------------
\* What the thread hears

SignalsInv == ReadyInv /\ RunningInv /\ ChangeInv

LEMMA StepSignals == IInv /\ [Next]_vars => SignalsInv'
<1> SUFFICES ASSUME IInv, [Next]_vars PROVE SignalsInv'
  OBVIOUS
<1>0. TypeOK /\ ReadyInv /\ RunningInv /\ ChangeInv
  BY DEF IInv
<1> USE <1>0, PipeAssumption
    DEF shared, threadVars, SignalsInv, ReadyInv, RunningInv, ChangeInv, Pipe, TypeOK
<1>1. CASE MainGoesOn \/ WokenOtherwise \/ InputThreadInit \/ InputThreadFini
  <2>1. CASE Joined
    BY <2>1 DEF Joined
  <2>2. CASE FillHotplugPipe
    BY <2>2 DEF FillHotplugPipe
  <2>3. CASE ProcessInputEvents \/ WaitForSomething \/ Woken \/ WokenOtherwise
    BY <2>3 DEF ProcessInputEvents, WaitForSomething, Woken, WokenOtherwise
  <2>4. CASE InputThreadInit
    BY <2>4 DEF InputThreadInit
  <2>5. CASE InputThreadFini
    BY <2>5 DEF InputThreadFini
  <2> QED BY <1>1, <2>1, <2>2, <2>3, <2>4, <2>5 DEF MainGoesOn
<1>2. ASSUME NEW fd \in Fds, InputThreadRegisterDev(fd) \/ InputThreadUnregisterDev(fd)
      PROVE  SignalsInv'
  <2>1. /\ changed' = TRUE /\ main' = "announce"
        /\ UNCHANGED <<hotplug, open, ready, worker, running, input>>
    BY <1>2 DEF InputThreadRegisterDev, InputThreadUnregisterDev, Announce
  <2> QED BY <2>1
<1>3. CASE Enter
  BY <1>3 DEF Enter
<1>4. CASE LookForChanges
  BY <1>4 DEF LookForChanges
<1>5. CASE UpdateDevices
  <2>1. \A e \in devs' : e.state = "running"
    BY <1>5 DEF UpdateDevices, Device
  <2>2. /\ changed' = FALSE /\ worker = "update" /\ worker' = "wait"
        /\ UNCHANGED <<hotplug, open, running, ready, main, input>>
    BY <1>5 DEF UpdateDevices
  <2> QED BY <2>1, <2>2
<1>6. CASE ospoll_wait
  BY <1>6 DEF ospoll_wait, Readable
<1>7. CASE InputThreadPipeNotify
  BY <1>7 DEF InputThreadPipeNotify
<1>8. CASE KickMainThread
  BY <1>8 DEF KickMainThread
<1>9. ASSUME NEW fd \in Fds, InputReady(fd) PROVE SignalsInv'
  <2>1. \A f \in Fds : f # fd => input'[f] = input[f]
    BY <1>9 DEF InputReady
  <2> QED BY <1>9, <2>1 DEF InputReady
<1>10. ASSUME NEW fd \in Fds, InputArrives(fd) PROVE SignalsInv'
  <2>1. \A f \in Fds : input[f] > 0 => input'[f] > 0
    BY <1>10 DEF InputArrives
  <2> QED BY <1>10, <2>1 DEF InputArrives
<1>11. CASE UNCHANGED vars
  BY <1>11 DEF vars
<1> QED
  BY <1>1, <1>2, <1>3, <1>4, <1>5, <1>6, <1>7, <1>8, <1>9, <1>10, <1>11 DEF Next, Work

LEMMA Invariant == Spec => []IInv
<1>1. IInv /\ [Next]_vars => IInv'
  BY StepType, StepLists, StepSignals DEF IInv, ListsInv, SignalsInv
<1> QED BY InitIInv, <1>1, PTL DEF Spec

-----------------------------------------------------------------------------

\* The list, the poll set and the pipes keep their types; in particular no read takes
\* an event from a descriptor that has none.
THEOREM TypeCorrect == Spec => []TypeOK
<1>1. IInv => TypeOK
  BY DEF IInv
<1> QED BY Invariant, <1>1, PTL

\* InputReady is only called with entries that are in the list: the thread frees none
\* whose descriptor it polls, however calls and updates follow each other.
THEOREM CalledBackWithExistingDevices == Spec => []PolledDevicesExist
<1>1. IInv => PolledDevicesExist
  BY DEF IInv, PolledInv
<1> QED BY Invariant, <1>1, PTL

\* After InputThreadUnregisterDev the device is not read any more, if no descriptor is
\* unregistered twice before the thread has run (with that, input_thread_reuse refutes it).
THEOREM UnregisteredDevicesUnread ==
    ASSUME ~MayHurry
    PROVE  Spec => []OnlyRegisteredDevicesRead
<1>1. IInv => OnlyRegisteredDevicesRead
  BY DEF IInv, RegisteredInv
<1> QED BY Invariant, <1>1, PTL

\* The thread is asleep in ospoll_wait, and nothing is in the pipe or about to be put
\* there.
SleepsUndisturbed == worker = "wait" /\ hotplug = 0 /\ open /\ main # "announce"

\* The unlocked look at changed misses nothing: an input thread that sleeps, and that no
\* byte in the hotplug pipe is going to wake, polls exactly the registered devices.
THEOREM NoChangeMissed ==
    ASSUME ~MayHurry
    PROVE  Spec => [](SleepsUndisturbed => polled = registered)
<1>1. IInv => (SleepsUndisturbed => polled = registered)
  <2> SUFFICES ASSUME IInv, SleepsUndisturbed PROVE polled = registered
    OBVIOUS
  <2>1. TypeOK /\ RegisteredInv /\ PolledInv /\ ChangeInv
    BY DEF IInv
  <2>2. \A e \in devs : e.state = "running"
    BY <2>1 DEF ChangeInv, SleepsUndisturbed
  <2>3. \A fd \in Fds : polled[fd] = registered[fd]
    <3> TAKE fd \in Fds
    <3>1. CASE registered[fd] # None
      BY <2>1, <2>2, <3>1 DEF RegisteredInv, PolledInv
    <3>2. CASE polled[fd] # None
      BY <2>1, <2>2, <3>2
         DEF RegisteredInv, OnlyRegisteredDevicesRead, PolledInv, PolledDevicesExist
    <3> QED BY <3>1, <3>2
  <2>4. polled \in [Fds -> Ids \cup {None}] /\ registered \in [Fds -> Ids \cup {None}]
    BY <2>1 DEF TypeOK
  <2> QED BY <2>3, <2>4
<1> QED BY Invariant, <1>1, PTL

-----------------------------------------------------------------------------

\* The main thread does not go to sleep over an event, and is going to be woken for what
\* is enqueued while it sleeps.
WokenForEvents ==
    main = "asleep" /\ queue > 0 => worker = "serve" \/ wake > 0

\* The safety part of EventsAreProcessed: between an event and the byte that wakes the
\* main thread, the input thread is on its way to write that byte.
THEOREM SleeperIsWoken == Spec => []WokenForEvents
<1>1. Init => WokenForEvents
  BY DEF Init, WokenForEvents
<1>2. TypeOK /\ WokenForEvents /\ [Next]_vars => WokenForEvents'
  <2> SUFFICES ASSUME TypeOK, WokenForEvents, [Next]_vars PROVE WokenForEvents'
    OBVIOUS
  <2> USE DEF WokenForEvents, TypeOK, shared, threadVars
  <2>1. CASE MainGoesOn
    BY <2>1 DEF MainGoesOn, FillHotplugPipe, ProcessInputEvents, WaitForSomething, Woken, Joined
  <2>2. CASE WokenOtherwise \/ InputThreadInit \/ InputThreadFini
    BY <2>2 DEF WokenOtherwise, InputThreadInit, InputThreadFini
  <2>3. ASSUME NEW fd \in Fds, InputThreadRegisterDev(fd) \/ InputThreadUnregisterDev(fd)
        PROVE  WokenForEvents'
    <3>1. main' = "announce"
      BY <2>3 DEF InputThreadRegisterDev, InputThreadUnregisterDev, Announce
    <3> QED BY <3>1
  <2>4. CASE Enter \/ LookForChanges \/ UpdateDevices \/ ospoll_wait
    BY <2>4 DEF Enter, LookForChanges, UpdateDevices, ospoll_wait
  <2>5. CASE InputThreadPipeNotify \/ KickMainThread
    BY <2>5 DEF InputThreadPipeNotify, KickMainThread
  <2>6. ASSUME NEW fd \in Fds, InputReady(fd) \/ InputArrives(fd) PROVE WokenForEvents'
    BY <2>6 DEF InputReady, InputArrives
  <2>7. CASE UNCHANGED vars
    BY <2>7 DEF vars
  <2> QED BY <2>1, <2>2, <2>3, <2>4, <2>5, <2>6, <2>7 DEF Next, Work
<1> QED BY TypeCorrect, <1>1, <1>2, PTL DEF Spec

=============================================================================
