------------------------------ MODULE AlertStream ------------------------------
(***************************************************************************)
(* What the alerts of a node promise to the users of the notifier, without  *)
(* values, thresholds, rows, connections or handlers.                       *)
(*                                                                          *)
(* The alert of a metric goes on and off by turns, and every turn is an     *)
(* event.  An event is told once at most.  It may be lost, and then it is    *)
(* never told.                                                              *)
(***************************************************************************)
EXTENDS Naturals

CONSTANT Metrics

VARIABLES
    number,  \* how often the alert of a metric has gone on
    on,      \* metrics whose alert is on
    open,    \* events that nobody was told yet
    told,    \* events the notifier was given
    lost     \* events nobody will be told

vars == <<number, on, open, told, lost>>

Init ==
    /\ number = [m \in Metrics |-> 0]
    /\ on = {}
    /\ open = {}
    /\ told = {}
    /\ lost = {}

\* The event of a metric whose alert goes off, or on for the next time.
Turn(m) ==
    IF m \in on
    THEN [metric |-> m, number |-> number[m], type |-> "alert_resolved"]
    ELSE [metric |-> m, number |-> number[m] + 1, type |-> "alert_created"]

\* A sample turns some alerts; their events are to be told, or are lost at once.
Evaluate(turned) ==
    /\ number' = [m \in Metrics |-> IF m \in turned \ on THEN number[m] + 1 ELSE number[m]]
    /\ on' = (on \ turned) \cup (turned \ on)
    /\ \/ open' = open \cup {Turn(m) : m \in turned} /\ UNCHANGED lost
       \/ lost' = lost \cup {Turn(m) : m \in turned} /\ UNCHANGED open
    /\ UNCHANGED told

\* One event is told, and some others may be lost with it.
Tell(e, dropped) ==
    /\ open' = open \ (dropped \cup {e})
    /\ told' = told \cup {e}
    /\ lost' = lost \cup dropped
    /\ UNCHANGED <<number, on>>

Lose(dropped) ==
    /\ open' = open \ dropped
    /\ lost' = lost \cup dropped
    /\ UNCHANGED <<number, on, told>>

Next ==
    \/ \E turned \in SUBSET Metrics : Evaluate(turned)
    \/ \E e \in open : \E dropped \in SUBSET (open \ {e}) : Tell(e, dropped)
    \/ \E dropped \in SUBSET open : Lose(dropped)

Spec == Init /\ [][Next]_vars

=============================================================================
