----------------------------- MODULE TouchPromise -----------------------------
(***************************************************************************)
(* What a touch sequence looks like from outside: whoever is shown a touch *)
(* is shown its begin first and its end last, is told of the ownership at  *)
(* most once, between the two, and by the time the server forgets the      *)
(* touch everyone who saw it begin has seen it end.                        *)
(***************************************************************************)
EXTENDS FiniteSets, Sequences, SequencesExt

CONSTANTS Clients
VARIABLES log, alive, open
vars == <<log, alive, open>>

Legal == {<<>>, <<"begin">>, <<"begin", "end">>,
          <<"begin", "ownership">>, <<"begin", "ownership", "end">>}

Owns(l, c) == Len(l[c]) > 0 /\ Last(l[c]) = "ownership"
Sound(l, who) ==
    /\ \A c \in who : l[c] \in Legal
    /\ \A c, d \in who : Owns(l, c) /\ Owns(l, d) => c = d
Finished(l, who) == \A c \in who : l[c] = <<>> \/ Last(l[c]) = "end"

Init ==
    /\ log = [c \in Clients |-> <<>>]
    /\ alive = Clients
    /\ open = FALSE

Open ==
    /\ ~open
    /\ open' = TRUE
    /\ alive' = alive
    /\ Sound(log', alive)

\* Clients may vanish; the others only ever see more.
Show ==
    /\ open
    /\ alive' \subseteq alive
    /\ \A c \in alive' : IsPrefix(log[c], log'[c])
    /\ Sound(log', alive')
    /\ open' = ~open => Finished(log', alive')
    /\ open' \in BOOLEAN

Leave ==
    /\ ~open
    /\ alive' \subseteq alive
    /\ UNCHANGED <<log, open>>

Next == Open \/ Show \/ Leave

Spec == Init /\ [][Next]_vars
=============================================================================
