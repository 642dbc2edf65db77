--------------------------------- MODULE Alerts ---------------------------------
(***************************************************************************)
(* The alerts of a node: the thresholds, the evaluation of its samples, and *)
(* the way of an event from there to the notifier (db.py, app.py).          *)
(*                                                                          *)
(* A connection of the node has a handler.  One is registered at a time, but *)
(* a handler that was dismissed goes on with the message it has in hand and  *)
(* with those that reach it until its socket is closed, if it ever is.       *)
(* What lies between two awaits is one action; the broadcast of an event to *)
(* the UI lies between its audit record and the notifier.                   *)
(***************************************************************************)
EXTENDS Naturals, Sequences

CONSTANTS
    NumMetrics,  \* metrics 1 .. NumMetrics, in the order they are evaluated in
    Values,      \* values of a sample and of a threshold
    Off,         \* no threshold, or no value in a sample
    Handlers,    \* connections of the node
    None,        \* no connection
    MaxAlerts    \* bound of the alerts of a metric

ASSUME AlertsAssumption ==
    /\ NumMetrics \in Nat
    /\ Values \subseteq Nat
    /\ Off \notin Nat
    /\ None \notin Handlers
    /\ MaxAlerts \in Nat

VARIABLES
    thresholds,  \* the settings row
    alerts,      \* rows of the alerts table per metric, oldest first
    handler,     \* where the handlers stand
    registered,  \* the handler whose connection is in the hub
    hand,        \* events of the message a handler works at
    told,        \* events the notifier was given
    lost         \* events that no handler has any more and nobody was told

vars == <<thresholds, alerts, handler, registered, hand, told, lost>>

Metrics == 1 .. NumMetrics

Levels == [Metrics -> Values \cup {Off}]

\* A row keeps the threshold and the value it was judged by last.
Row(status, threshold, value) ==
    [status |-> status, threshold |-> threshold, value |-> value]

Rows == [status : {"active", "resolved"}, threshold : Values, value : Values]

Event(metric, number, type) == [metric |-> metric, number |-> number, type |-> type]

Events == [metric : Metrics, number : 1 .. MaxAlerts, type : {"alert_created", "alert_resolved"}]

Init ==
    /\ thresholds \in Levels
    /\ alerts = [m \in Metrics |-> <<>>]
    /\ handler = [h \in Handlers |-> "unused"]
    /\ registered = None
    /\ hand = [h \in Handlers |-> {}]
    /\ told = {}
    /\ lost = {}

-----------------------------------------------------------------------------
(***************************************************************************)
(* The evaluation of a sample                                               *)
(***************************************************************************)

Active(rows) == {i \in DOMAIN rows : rows[i].status = "active"}

\* The newest active alert.
Latest(rows) == CHOOSE i \in Active(rows) : \A j \in Active(rows) : j <= i

\* A wrong variant: an alert is resolved below its threshold only.
JudgeStrictly(rows, threshold, value) ==
    IF threshold = Off \/ value = Off
    THEN rows
    ELSE IF Active(rows) = {}
         THEN IF value > threshold THEN Append(rows, Row("active", threshold, value)) ELSE rows
         ELSE [rows EXCEPT ![Latest(rows)] =
                  Row(IF value < threshold THEN "resolved" ELSE "active", threshold, value)]

\* A wrong variant: a missing value resolves an alert.
JudgeMissing(rows, threshold, value) ==
    IF threshold = Off
    THEN rows
    ELSE IF Active(rows) = {}
         THEN IF value # Off /\ value > threshold
              THEN Append(rows, Row("active", threshold, value)) ELSE rows
         ELSE [rows EXCEPT ![Latest(rows)] =
                  Row(IF value # Off /\ value > threshold THEN "active" ELSE "resolved",
                      threshold, value)]

\* The alerts of a metric after a value was held against its threshold: nothing
\* happens without both.
Judge(rows, threshold, value) ==
    IF threshold = Off \/ value = Off
    THEN rows
    ELSE IF Active(rows) = {}
         THEN IF value > threshold THEN Append(rows, Row("active", threshold, value)) ELSE rows
         ELSE [rows EXCEPT ![Latest(rows)] =
                  Row(IF value > threshold THEN "active" ELSE "resolved", threshold, value)]

\* The events of an evaluation that has turned the rows of m into new.
Raised(m, rows, new) ==
    IF Len(new) > Len(rows)
    THEN {Event(m, Len(new), "alert_created")}
    ELSE IF Active(rows) # {} /\ new[Latest(rows)].status = "resolved"
         THEN {Event(m, Latest(rows), "alert_resolved")}
         ELSE {}

-----------------------------------------------------------------------------
(***************************************************************************)
(* The handler                                                              *)
(***************************************************************************)

\* The finally block of the handler that ends.
Leaves(h) == registered' = IF registered = h THEN None ELSE registered

\* The handler goes on with the rest of its events.  The next one is recorded
\* and broadcast, or the record raises and ends the handler; after the last one
\* the handler waits for a message.
Goes(h, rest) ==
    \/ /\ handler' = [handler EXCEPT ![h] = IF rest = {} THEN "receiving" ELSE "telling"]
       /\ hand' = [hand EXCEPT ![h] = rest]
       /\ UNCHANGED <<registered, lost>>
    \/ /\ handler' = [handler EXCEPT ![h] = "ended"]
       /\ hand' = [hand EXCEPT ![h] = {}]
       /\ lost' = lost \cup rest
       /\ Leaves(h)

Connect(h) ==
    /\ handler[h] = "unused"
    /\ registered = None
    /\ handler' = [handler EXCEPT ![h] = "receiving"]
    /\ registered' = h
    /\ UNCHANGED <<thresholds, alerts, hand, told, lost>>

\* A wrong variant: the next message is taken while the events of the last one
\* are being told.
ReceiveMeanwhile(h, sample) ==
    /\ handler[h] \in {"receiving", "telling"}
    /\ alerts' = [m \in Metrics |-> Judge(alerts[m], thresholds[m], sample[m])]
    /\ \A m \in Metrics : Len(alerts'[m]) <= MaxAlerts
    /\ Goes(h, hand[h] \cup UNION {Raised(m, alerts[m], alerts'[m]) : m \in Metrics})
    /\ UNCHANGED <<thresholds, told>>

\* A metrics message is saved and evaluated in one piece, whoever is registered.
Receive(h, sample) ==
    /\ handler[h] = "receiving"
    /\ alerts' = [m \in Metrics |-> Judge(alerts[m], thresholds[m], sample[m])]
    /\ \A m \in Metrics : Len(alerts'[m]) <= MaxAlerts
    /\ Goes(h, UNION {Raised(m, alerts[m], alerts'[m]) : m \in Metrics})
    /\ UNCHANGED <<thresholds, told>>

\* A wrong variant: the event stays the next one.
TellAgain(h) ==
    /\ handler[h] = "telling"
    /\ \E e \in hand[h] :
          /\ \A other \in hand[h] : e.metric <= other.metric
          /\ told' = told \cup {e}
          /\ Goes(h, hand[h])
    /\ UNCHANGED <<thresholds, alerts>>

\* The broadcast of the next event has ended; the notifier gets the event.
Tell(h) ==
    /\ handler[h] = "telling"
    /\ \E e \in hand[h] :
          /\ \A other \in hand[h] : e.metric <= other.metric
          /\ told' = told \cup {e}
          /\ Goes(h, hand[h] \ {e})
    /\ UNCHANGED <<thresholds, alerts>>

\* The connection is closed, or the message cannot be stored.
End(h) ==
    /\ handler[h] = "receiving"
    /\ handler' = [handler EXCEPT ![h] = "ended"]
    /\ Leaves(h)
    /\ UNCHANGED <<thresholds, alerts, hand, told, lost>>

\* A command that cannot be sent, a revocation or a reload takes the entry out
\* of the hub.  The close of the socket may fail or come after further messages.
Dismiss ==
    /\ registered # None
    /\ registered' = None
    /\ UNCHANGED <<thresholds, alerts, handler, hand, told, lost>>

SetThresholds(levels) ==
    /\ thresholds' = levels
    /\ UNCHANGED <<alerts, handler, registered, hand, told, lost>>

\* The server starts again: only the database is left.
Restart ==
    /\ handler' = [h \in Handlers |-> IF handler[h] = "unused" THEN "unused" ELSE "ended"]
    /\ registered' = None
    /\ hand' = [h \in Handlers |-> {}]
    /\ lost' = lost \cup UNION {hand[h] : h \in Handlers}
    /\ UNCHANGED <<thresholds, alerts, told>>

-----------------------------------------------------------------------------
Next ==
    \/ \E h \in Handlers : Connect(h) \/ Tell(h) \/ End(h)
    \/ \E h \in Handlers, sample \in Levels : Receive(h, sample)
    \/ \E levels \in Levels : SetThresholds(levels)
    \/ Dismiss \/ Restart

Spec == Init /\ [][Next]_vars

-----------------------------------------------------------------------------
TypeOK ==
    /\ thresholds \in Levels
    /\ alerts \in [Metrics -> Seq(Rows)]
    /\ \A m \in Metrics : Len(alerts[m]) <= MaxAlerts
    /\ handler \in [Handlers -> {"unused", "receiving", "telling", "ended"}]
    /\ registered \in Handlers \cup {None}
    /\ hand \in [Handlers -> SUBSET Events]
    /\ told \subseteq Events
    /\ lost \subseteq Events

\* A metric of a node has one active alert at most, and it is the newest; the
\* value and the threshold in a row are the reason of its status, so an alert
\* that nothing evaluates any more still shows why it was raised
\* (evaluate_metric_alerts, also when thresholds are changed or removed).
AlertsAreJustified ==
    \A m \in Metrics : \A i \in DOMAIN alerts[m] :
        LET row == alerts[m][i]
        IN  row.status = "active" <=> row.value > row.threshold /\ i = Len(alerts[m])

\* The events implement AlertStream: alerts begin and end by turns, and every
\* event is told once or lost for good, whatever handlers overlap, raise or are
\* restarted (_handle_agent_message against evaluate_metric_alerts).
Stream ==
    INSTANCE AlertStream WITH
        number <- [m \in Metrics |-> Len(alerts[m])],
        on     <- {m \in Metrics : Active(alerts[m]) # {}},
        open   <- UNION {hand[h] : h \in Handlers}

ImplementsStream == Stream!Spec

\* The notifier hears of the end of an alert before its beginning only if the
\* beginning is lost or in the hand of another handler: where two connections of
\* a node overlap, their messages are told independently, and a handler alone
\* never turns the order around (_handle_agent_message awaits every broadcast).
ResolvedFollowsCreated ==
    [][\A e \in told' \ told : e.type = "alert_resolved" =>
          LET begin == Event(e.metric, e.number, "alert_created")
          IN  \/ begin \in told \cup lost'
              \/ \E g \in Handlers : begin \in hand[g] /\ e \notin hand[g]]_vars

=============================================================================
