---------------------------- MODULE Alerts_proofs ----------------------------
(***************************************************************************)
(* Theorems about Alerts, for any number of metrics and alerts and every    *)
(* set of values and connections.                                           *)
(***************************************************************************)
EXTENDS Alerts, TLAPS

\* What has happened according to the table: every row was created, and the
\* resolved ones were resolved.
History ==
    {e \in Events :
        /\ e.number \in DOMAIN alerts[e.metric]
        /\ e.type = "alert_resolved" => alerts[e.metric][e.number].status = "resolved"}

\* Every event of the table is in exactly one place: the notifier was told, or
\* one handler has it in hand, or it was lost with a handler.  No event is told
\* twice or made up, whatever handlers overlap, raise or are restarted
\* (_handle_agent_message against evaluate_metric_alerts).
EventsAccounted ==
    /\ told \cup lost \cup UNION {hand[h] : h \in Handlers} = History
    /\ told \cap lost = {}
    /\ \A h \in Handlers :
          /\ hand[h] \cap (told \cup lost) = {}
          /\ \A g \in Handlers \ {h} : hand[h] \cap hand[g] = {}

\* A handler that has events in hand is telling them.
HandsAreBusy == \A h \in Handlers : hand[h] # {} => handler[h] = "telling"

\* A handler has at most one event of a metric in hand.
HandsAreOfOneMessage ==
    \A h \in Handlers : \A e, f \in hand[h] : e.metric = f.metric => e = f

AlertsInv ==
    /\ TypeOK /\ AlertsAreJustified
    /\ EventsAccounted /\ HandsAreBusy /\ HandsAreOfOneMessage

-----------------------------------------------------------------------------
(***************************************************************************)
(* The evaluation of one metric                                             *)
(***************************************************************************)

\* AlertsAreJustified for one metric.
Justified(rows) ==
    \A i \in DOMAIN rows :
        rows[i].status = "active" <=> rows[i].value > rows[i].threshold /\ i = Len(rows)

\* History for one metric.
Past(m, rows) ==
    {e \in Events :
        /\ e.metric = m
        /\ e.number \in DOMAIN rows
        /\ e.type = "alert_resolved" => rows[e.number].status = "resolved"}

LEMMA NewestIsActive ==
    ASSUME NEW rows \in Seq(Rows), Justified(rows), Active(rows) # {}
    PROVE  Latest(rows) = Len(rows) /\ Len(rows) > 0 /\ rows[Len(rows)].status = "active"
<1>1. \A i \in Active(rows) : i = Len(rows) /\ i \in 1 .. Len(rows)
  BY DEF Active, Justified
<1>2. Len(rows) \in Active(rows)
  BY <1>1
<1>3. \A j \in Active(rows) : j <= Len(rows)
  BY <1>1
<1>4. Latest(rows) \in Active(rows)
  BY <1>2, <1>3 DEF Latest
<1>. QED
  BY <1>1, <1>2, <1>4 DEF Active

\* What an evaluation can do: nothing, a first or next row, or the newest row again.
LEMMA JudgeCases ==
    ASSUME NEW rows \in Seq(Rows), Justified(rows),
           NEW threshold \in Values \cup {Off}, NEW value \in Values \cup {Off}
    PROVE  LET new == Judge(rows, threshold, value)
           IN  \/ new = rows
               \/ /\ Active(rows) = {} /\ threshold \in Values /\ value \in Values
                  /\ value > threshold
                  /\ new = Append(rows, Row("active", threshold, value))
               \/ /\ Active(rows) # {} /\ threshold \in Values /\ value \in Values
                  /\ new = [rows EXCEPT ![Len(rows)] =
                              Row(IF value > threshold THEN "active" ELSE "resolved",
                                  threshold, value)]
<1>1. CASE threshold = Off \/ value = Off
  BY <1>1 DEF Judge
<1>2. CASE threshold \in Values /\ value \in Values /\ Active(rows) = {}
  BY <1>2 DEF Judge
<1>3. CASE threshold \in Values /\ value \in Values /\ Active(rows) # {}
  <2>1. Latest(rows) = Len(rows)
    BY <1>3, NewestIsActive
  <2>2. threshold # Off /\ value # Off
    BY <1>3, AlertsAssumption DEF AlertsAssumption
  <2>. QED
    BY <1>3, <2>1, <2>2 DEF Judge
<1>. QED
  BY <1>1, <1>2, <1>3

LEMMA JudgeKeeps ==
    ASSUME NEW rows \in Seq(Rows), Justified(rows),
           NEW threshold \in Values \cup {Off}, NEW value \in Values \cup {Off}
    PROVE  /\ Judge(rows, threshold, value) \in Seq(Rows)
           /\ Justified(Judge(rows, threshold, value))
<1> DEFINE new == Judge(rows, threshold, value)
           status == IF value > threshold THEN "active" ELSE "resolved"
<1>1. CASE new = rows
  BY <1>1
<1>2. CASE /\ Active(rows) = {} /\ threshold \in Values /\ value \in Values
           /\ value > threshold
           /\ new = Append(rows, Row("active", threshold, value))
  <2>1. Row("active", threshold, value) \in Rows
    BY <1>2 DEF Row, Rows
  <2>2. new \in Seq(Rows) /\ Len(new) = Len(rows) + 1
    BY <1>2, <2>1
  <2>3. \A i \in 1 .. Len(rows) : new[i] = rows[i] /\ rows[i].status # "active"
    BY <1>2, <2>1 DEF Active
  <2>4. new[Len(new)] = Row("active", threshold, value)
    BY <1>2, <2>1, <2>2
  <2>5. Justified(new)
    <3> SUFFICES ASSUME NEW i \in 1 .. Len(new)
                 PROVE  new[i].status = "active" <=> new[i].value > new[i].threshold /\ i = Len(new)
      BY <2>2 DEF Justified
    <3>1. CASE i = Len(new)
      BY <3>1, <2>4, <1>2 DEF Row
    <3>2. CASE i # Len(new)
      <4>1. i \in 1 .. Len(rows)
        BY <3>2, <2>2
      <4>. QED
        BY <3>2, <4>1, <2>3
    <3>. QED
      BY <3>1, <3>2
  <2>. QED
    BY <2>2, <2>5
<1>3. CASE /\ Active(rows) # {} /\ threshold \in Values /\ value \in Values
           /\ new = [rows EXCEPT ![Len(rows)] = Row(status, threshold, value)]
  <2>1. Row(status, threshold, value) \in Rows
    BY <1>3 DEF Row, Rows
  <2>2. Len(rows) > 0
    BY <1>3, NewestIsActive
  <2>3. new \in Seq(Rows) /\ Len(new) = Len(rows)
    BY <1>3, <2>1, <2>2
  <2>4. /\ new[Len(rows)] = Row(status, threshold, value)
        /\ \A i \in 1 .. Len(rows) : i # Len(rows) => new[i] = rows[i]
    BY <1>3, <2>2
  <2>5. Justified(new)
    <3> SUFFICES ASSUME NEW i \in 1 .. Len(rows)
                 PROVE  new[i].status = "active" <=> new[i].value > new[i].threshold /\ i = Len(rows)
      BY <2>3 DEF Justified
    <3>1. CASE i = Len(rows)
      BY <3>1, <2>4, <1>3 DEF Row
    <3>2. CASE i # Len(rows)
      BY <3>2, <2>4 DEF Justified
    <3>. QED
      BY <3>1, <3>2
  <2>. QED
    BY <2>3, <2>5
<1>. QED
  BY <1>1, <1>2, <1>3, JudgeCases

\* The events of an evaluation are those that its rows have and the old ones
\* had not, and there is one at most.
RaisesNew(m, rows, new) ==
    /\ Raised(m, rows, new) \subseteq Events
    /\ Past(m, new) = Past(m, rows) \cup Raised(m, rows, new)
    /\ Past(m, rows) \cap Raised(m, rows, new) = {}
    /\ \A e, f \in Raised(m, rows, new) : e.metric = m /\ e = f

LEMMA RaisedIsNew ==
    ASSUME NEW m \in Metrics, NEW rows \in Seq(Rows), Justified(rows),
           NEW threshold \in Values \cup {Off}, NEW value \in Values \cup {Off},
           NEW new, new = Judge(rows, threshold, value), Len(new) <= MaxAlerts
    PROVE  RaisesNew(m, rows, new)
<1> USE DEF RaisesNew
<1> MaxAlerts \in Nat
  BY AlertsAssumption DEF AlertsAssumption
<1>1. CASE new = rows
  <2>1. Raised(m, rows, new) = {}
    <3>1. ~ Len(new) > Len(rows)
      BY <1>1
    <3>2. Active(rows) # {} => new[Latest(rows)].status # "resolved"
      BY <1>1, NewestIsActive
    <3>. QED
      BY <3>1, <3>2 DEF Raised
  <2>. QED
    BY <1>1, <2>1
<1>2. CASE /\ Active(rows) = {} /\ threshold \in Values /\ value \in Values
           /\ value > threshold
           /\ new = Append(rows, Row("active", threshold, value))
  <2>1. Row("active", threshold, value) \in Rows
    BY <1>2 DEF Row, Rows
  <2>2. new \in Seq(Rows) /\ Len(new) = Len(rows) + 1
    BY <1>2, <2>1
  <2>3. /\ \A i \in 1 .. Len(rows) : new[i] = rows[i]
        /\ new[Len(rows) + 1].status = "active"
    BY <1>2, <2>1 DEF Row
  <2> DEFINE begin == Event(m, Len(new), "alert_created")
  <2>4. Raised(m, rows, new) = {begin}
    BY <2>2 DEF Raised
  <2>5. begin \in Events /\ begin.metric = m /\ begin.number = Len(rows) + 1
        /\ begin.type = "alert_created"
    BY <2>2 DEF Event, Events
  <2>6. begin \notin Past(m, rows) /\ begin \in Past(m, new)
    BY <2>2, <2>5 DEF Past
  <2>7. \A e \in Events : e \in Past(m, new) <=> e \in Past(m, rows) \/ e = begin
    <3> SUFFICES ASSUME NEW e \in Events
                 PROVE  e \in Past(m, new) <=> e \in Past(m, rows) \/ e = begin
      OBVIOUS
    <3>1. CASE e.number \in 1 .. Len(rows)
      BY <3>1, <2>2, <2>3, <2>5 DEF Past
    <3>2. CASE e.number = Len(rows) + 1
      <4>1. e \in Past(m, new) => e.metric = m /\ e.type = "alert_created"
        BY <3>2, <2>3 DEF Past, Events
      <4>2. e.metric = m /\ e.type = "alert_created" => e = begin
        BY <3>2, <2>2 DEF Event, Events
      <4>. QED
        BY <3>2, <4>1, <4>2, <2>6 DEF Past
    <3>3. CASE e.number \notin 1 .. Len(rows) + 1
      BY <3>3, <2>2, <2>5 DEF Past
    <3>. QED
      BY <3>1, <3>2, <3>3
  <2>8. Past(m, new) \subseteq Events /\ Past(m, rows) \subseteq Events
    BY DEF Past
  <2>. QED
    BY <2>2, <2>3, <2>4, <2>5, <2>6, <2>7, <2>8
<1>3. CASE /\ Active(rows) # {} /\ threshold \in Values /\ value \in Values
           /\ new = [rows EXCEPT ![Len(rows)] =
                       Row(IF value > threshold THEN "active" ELSE "resolved",
                           threshold, value)]
  <2>1. Latest(rows) = Len(rows) /\ Len(rows) > 0 /\ rows[Len(rows)].status = "active"
    BY <1>3, NewestIsActive
  <2>2. /\ Len(new) = Len(rows) /\ DOMAIN new = 1 .. Len(rows) /\ DOMAIN rows = 1 .. Len(rows)
        /\ new[Len(rows)].status = IF value > threshold THEN "active" ELSE "resolved"
        /\ \A i \in 1 .. Len(rows) : i # Len(rows) => new[i] = rows[i]
    BY <1>3, <2>1 DEF Row
  <2>3. CASE value > threshold
    <3>1. Raised(m, rows, new) = {}
      BY <2>1, <2>2, <2>3 DEF Raised
    <3>2. \A i \in 1 .. Len(rows) : new[i].status = rows[i].status
      BY <2>1, <2>2, <2>3
    <3>3. \A e \in Events : e \in Past(m, new) <=> e \in Past(m, rows)
      BY <2>2, <3>2 DEF Past
    <3>4. Past(m, new) \subseteq Events /\ Past(m, rows) \subseteq Events
      BY DEF Past
    <3>. QED
      BY <3>1, <3>3, <3>4
  <2>4. CASE ~ value > threshold
    <3> DEFINE end == Event(m, Len(rows), "alert_resolved")
    <3>1. Raised(m, rows, new) = {end}
      BY <1>3, <2>1, <2>2, <2>4 DEF Raised
    <3>2. /\ end \in Events /\ end.metric = m /\ end.number = Len(rows)
          /\ end.type = "alert_resolved"
      BY <2>1, <2>2 DEF Event, Events
    <3>3. end \notin Past(m, rows) /\ end \in Past(m, new)
      BY <2>1, <2>2, <2>4, <3>2 DEF Past
    <3>4. \A e \in Events : e \in Past(m, new) <=> e \in Past(m, rows) \/ e = end
      <4> SUFFICES ASSUME NEW e \in Events
                   PROVE  e \in Past(m, new) <=> e \in Past(m, rows) \/ e = end
        OBVIOUS
      <4>1. CASE e.number # Len(rows)
        <5>1. e # end
          BY <4>1, <3>2
        <5>2. e.number \in 1 .. Len(rows) => new[e.number] = rows[e.number]
          BY <4>1, <2>2
        <5>. QED
          BY <5>1, <5>2, <2>2 DEF Past
      <4>2. CASE e.number = Len(rows) /\ e.type = "alert_resolved"
        <5>1. e.metric = m => e = end
          BY <4>2 DEF Event, Events
        <5>. QED
          BY <5>1, <3>3 DEF Past
      <4>3. CASE e.number = Len(rows) /\ e.type # "alert_resolved"
        BY <4>3, <2>2, <3>2 DEF Past
      <4>. QED
        BY <4>1, <4>2, <4>3
    <3>5. Past(m, new) \subseteq Events /\ Past(m, rows) \subseteq Events
      BY DEF Past
    <3>. QED
      BY <3>1, <3>2, <3>3, <3>4, <3>5
  <2>. QED
    BY <2>3, <2>4
<1>4. \/ new = rows
      \/ /\ Active(rows) = {} /\ threshold \in Values /\ value \in Values
         /\ value > threshold
         /\ new = Append(rows, Row("active", threshold, value))
      \/ /\ Active(rows) # {} /\ threshold \in Values /\ value \in Values
         /\ new = [rows EXCEPT ![Len(rows)] =
                     Row(IF value > threshold THEN "active" ELSE "resolved",
                         threshold, value)]
  BY JudgeCases
<1>. QED
  BY <1>1, <1>2, <1>3, <1>4

-----------------------------------------------------------------------------
(***************************************************************************)
(* The evaluation of a sample                                               *)
(***************************************************************************)

LEMMA InitHolds == Init => AlertsInv
<1> SUFFICES ASSUME Init PROVE AlertsInv
  OBVIOUS
<1>1. TypeOK
  BY AlertsAssumption DEF Init, TypeOK, AlertsAssumption
<1>2. History = {}
  BY DEF Init, History, Events
<1>. QED
  BY <1>1, <1>2 DEF Init, AlertsInv, AlertsAreJustified, EventsAccounted, HandsAreBusy,
                    HandsAreOfOneMessage

\* The events a message raises.
New == UNION {Raised(m, alerts[m], alerts'[m]) : m \in Metrics}

LEMMA ReceiveFacts ==
    ASSUME AlertsInv, NEW h \in Handlers, NEW sample \in Levels, Receive(h, sample)
    PROVE  /\ alerts' \in [Metrics -> Seq(Rows)] /\ \A m \in Metrics : Len(alerts'[m]) <= MaxAlerts
           /\ AlertsAreJustified'
           /\ New \subseteq Events
           /\ History' = History \cup New
           /\ History \cap New = {}
           /\ \A e, f \in New : e.metric = f.metric => e = f
<1>1. ASSUME NEW m \in Metrics
      PROVE  /\ alerts[m] \in Seq(Rows) /\ Justified(alerts[m])
             /\ thresholds[m] \in Values \cup {Off} /\ sample[m] \in Values \cup {Off}
             /\ alerts'[m] = Judge(alerts[m], thresholds[m], sample[m])
             /\ Len(alerts'[m]) <= MaxAlerts
  BY DEF AlertsInv, TypeOK, Levels, AlertsAreJustified, Justified, Receive
<1>2. ASSUME NEW m \in Metrics
      PROVE  alerts'[m] \in Seq(Rows) /\ Justified(alerts'[m])
  BY <1>1, JudgeKeeps
<1>3. ASSUME NEW m \in Metrics
      PROVE  /\ Raised(m, alerts[m], alerts'[m]) \subseteq Events
             /\ Past(m, alerts'[m]) = Past(m, alerts[m]) \cup Raised(m, alerts[m], alerts'[m])
             /\ Past(m, alerts[m]) \cap Raised(m, alerts[m], alerts'[m]) = {}
             /\ \A e, f \in Raised(m, alerts[m], alerts'[m]) : e.metric = m /\ e = f
  <2>1. RaisesNew(m, alerts[m], alerts'[m])
    BY <1>1, RaisedIsNew
  <2>. QED
    BY <2>1 DEF RaisesNew
<1>4. alerts' \in [Metrics -> Seq(Rows)]
  <2>1. alerts' = [m \in Metrics |-> Judge(alerts[m], thresholds[m], sample[m])]
    BY DEF Receive
  <2>2. \A m \in Metrics : Judge(alerts[m], thresholds[m], sample[m]) \in Seq(Rows)
    BY <1>1, <1>2
  <2>. QED
    BY <2>1, <2>2
<1>5. AlertsAreJustified'
  BY <1>2 DEF AlertsAreJustified, Justified
<1>6. \A e \in Events : /\ e \in History <=> e \in Past(e.metric, alerts[e.metric])
                        /\ e \in History' <=> e \in Past(e.metric, alerts'[e.metric])
  BY DEF History, Past
<1>7. \A e : e \in New <=> e \in Events /\ e \in Raised(e.metric, alerts[e.metric], alerts'[e.metric])
  <2>1. \A e : e \in New => e \in Events /\ e \in Raised(e.metric, alerts[e.metric], alerts'[e.metric])
    BY <1>3 DEF New
  <2>2. \A e \in Events : e.metric \in Metrics
    BY DEF Events
  <2>. QED
    BY <2>1, <2>2 DEF New
<1>8. \A e \in Events : /\ e \in History' <=> e \in History \/ e \in New
                        /\ ~ (e \in History /\ e \in New)
  <2>1. \A e \in Events : e.metric \in Metrics
    BY DEF Events
  <2>. QED
    BY <2>1, <1>3, <1>6, <1>7
<1>9. History \subseteq Events /\ History' \subseteq Events /\ New \subseteq Events
  BY <1>7 DEF History
<1>10. \A e, f \in New : e.metric = f.metric => e = f
  <2>1. \A e \in Events : e.metric \in Metrics
    BY DEF Events
  <2>. QED
    BY <2>1, <1>3, <1>7
<1>. QED
  BY <1>1, <1>4, <1>5, <1>8, <1>9, <1>10

-----------------------------------------------------------------------------
(***************************************************************************)
(* The events on their way                                                  *)
(***************************************************************************)

LEMMA GoesFacts ==
    ASSUME TypeOK, HandsAreBusy, NEW h \in Handlers, NEW rest \in SUBSET Events, Goes(h, rest)
    PROVE  /\ handler' \in [Handlers -> {"unused", "receiving", "telling", "ended"}]
           /\ hand' \in [Handlers -> SUBSET Events]
           /\ registered' \in Handlers \cup {None}
           /\ lost' \subseteq Events
           /\ HandsAreBusy'
           /\ \/ hand' = [hand EXCEPT ![h] = rest] /\ lost' = lost
              \/ hand' = [hand EXCEPT ![h] = {}] /\ lost' = lost \cup rest
<1>1. CASE /\ handler' = [handler EXCEPT ![h] = IF rest = {} THEN "receiving" ELSE "telling"]
           /\ hand' = [hand EXCEPT ![h] = rest]
           /\ UNCHANGED <<registered, lost>>
  BY <1>1 DEF TypeOK, HandsAreBusy
<1>2. CASE /\ handler' = [handler EXCEPT ![h] = "ended"]
           /\ hand' = [hand EXCEPT ![h] = {}]
           /\ lost' = lost \cup rest
           /\ Leaves(h)
  BY <1>2 DEF TypeOK, HandsAreBusy, Leaves
<1>. QED
  BY <1>1, <1>2 DEF Goes

LEMMA ReceiveStep ==
    ASSUME AlertsInv, NEW h \in Handlers, NEW sample \in Levels, Receive(h, sample)
    PROVE  AlertsInv'
<1>1. /\ alerts' \in [Metrics -> Seq(Rows)] /\ \A m \in Metrics : Len(alerts'[m]) <= MaxAlerts
      /\ AlertsAreJustified'
      /\ New \subseteq Events
      /\ History' = History \cup New
      /\ History \cap New = {}
      /\ \A e, f \in New : e.metric = f.metric => e = f
  BY ReceiveFacts
<1>2. TypeOK /\ HandsAreBusy /\ EventsAccounted /\ HandsAreOfOneMessage
  BY DEF AlertsInv
<1>3. Goes(h, New) /\ UNCHANGED <<thresholds, told>> /\ hand[h] = {}
  BY <1>2 DEF Receive, New, HandsAreBusy
<1>4. /\ handler' \in [Handlers -> {"unused", "receiving", "telling", "ended"}]
      /\ hand' \in [Handlers -> SUBSET Events]
      /\ registered' \in Handlers \cup {None}
      /\ lost' \subseteq Events
      /\ HandsAreBusy'
      /\ \/ hand' = [hand EXCEPT ![h] = New] /\ lost' = lost
         \/ hand' = [hand EXCEPT ![h] = {}] /\ lost' = lost \cup New
  BY <1>1, <1>2, <1>3, GoesFacts
<1>5. TypeOK'
  BY <1>1, <1>2, <1>3, <1>4 DEF TypeOK
<1>6. EventsAccounted'
  <2>1. \A e \in New : e \notin told \cup lost /\ \A g \in Handlers : e \notin hand[g]
    BY <1>1, <1>2 DEF EventsAccounted
  <2>2. CASE hand' = [hand EXCEPT ![h] = New] /\ lost' = lost
    <3>1. \A g \in Handlers : hand'[g] = IF g = h THEN New ELSE hand[g]
      BY <1>2, <2>2 DEF TypeOK
    <3>2. UNION {hand'[g] : g \in Handlers} = (UNION {hand[g] : g \in Handlers}) \cup New
      <4>1. \A e : e \in UNION {hand'[g] : g \in Handlers} <=> \E g \in Handlers : e \in hand'[g]
        OBVIOUS
      <4>2. \A e : e \in UNION {hand[g] : g \in Handlers} <=> \E g \in Handlers : e \in hand[g]
        OBVIOUS
      <4>3. \A e : (\E g \in Handlers : e \in hand'[g]) <=> (\E g \in Handlers : e \in hand[g]) \/ e \in New
        BY <1>3, <3>1
      <4>. QED
        BY <4>1, <4>2, <4>3
    <3>3. told' \cup lost' \cup UNION {hand'[g] : g \in Handlers} = History'
      BY <1>1, <1>2, <1>3, <2>2, <3>2 DEF EventsAccounted
    <3>. QED
      BY <1>2, <1>3, <2>1, <2>2, <3>1, <3>3 DEF EventsAccounted
  <2>3. CASE hand' = [hand EXCEPT ![h] = {}] /\ lost' = lost \cup New
    <3>1. hand' = hand
      BY <1>2, <1>3, <2>3 DEF TypeOK
    <3>2. told' \cup lost' \cup UNION {hand[g] : g \in Handlers} = History'
      BY <1>1, <1>2, <1>3, <2>3 DEF EventsAccounted
    <3>. QED
      BY <1>2, <1>3, <2>1, <2>3, <3>1, <3>2 DEF EventsAccounted
  <2>. QED
    BY <1>4, <2>2, <2>3
<1>7. HandsAreOfOneMessage'
  BY <1>1, <1>2, <1>3, <1>4 DEF HandsAreOfOneMessage, TypeOK
<1>. QED
  BY <1>1, <1>4, <1>5, <1>6, <1>7 DEF AlertsInv

LEMMA TellStep ==
    ASSUME AlertsInv, NEW h \in Handlers, Tell(h)
    PROVE  AlertsInv'
<1>1. TypeOK /\ HandsAreBusy /\ EventsAccounted /\ AlertsAreJustified /\ HandsAreOfOneMessage
  BY DEF AlertsInv
<1>2. PICK e \in hand[h] : told' = told \cup {e} /\ Goes(h, hand[h] \ {e})
  BY DEF Tell
<1> DEFINE rest == hand[h] \ {e}
<1>3. UNCHANGED <<thresholds, alerts>> /\ rest \subseteq Events /\ e \in Events
  BY <1>1 DEF Tell, TypeOK
<1>4. /\ handler' \in [Handlers -> {"unused", "receiving", "telling", "ended"}]
      /\ hand' \in [Handlers -> SUBSET Events]
      /\ registered' \in Handlers \cup {None}
      /\ lost' \subseteq Events
      /\ HandsAreBusy'
      /\ \/ hand' = [hand EXCEPT ![h] = rest] /\ lost' = lost
         \/ hand' = [hand EXCEPT ![h] = {}] /\ lost' = lost \cup rest
  BY <1>1, <1>2, <1>3, GoesFacts
<1>5. TypeOK'
  BY <1>1, <1>2, <1>3, <1>4 DEF TypeOK
<1>6. EventsAccounted'
  <2>1. History' = History
    BY <1>3 DEF History
  <2>2. TypeOK /\ EventsAccounted
    BY <1>1
  <2>3. \A g \in Handlers : g # h => hand'[g] = hand[g]
    BY <1>4, <2>2 DEF TypeOK
  <2>4. \/ hand'[h] = rest /\ lost' = lost
        \/ hand'[h] = {} /\ lost' = lost \cup rest
    BY <1>4, <2>2 DEF TypeOK
  <2>5. e \notin told \cup lost /\ \A g \in Handlers \ {h} : hand[g] \cap hand[h] = {}
    BY <1>2, <2>2 DEF EventsAccounted
  <2>6. told' \cup lost' \cup UNION {hand'[g] : g \in Handlers} = History
    BY <1>2, <2>2, <2>3, <2>4 DEF EventsAccounted
  <2>. QED
    BY <1>2, <2>1, <2>2, <2>3, <2>4, <2>5, <2>6 DEF EventsAccounted
<1>7. HandsAreOfOneMessage'
  BY <1>1, <1>4 DEF HandsAreOfOneMessage, TypeOK
<1>8. AlertsAreJustified'
  BY <1>1, <1>3 DEF AlertsAreJustified
<1>. QED
  BY <1>4, <1>5, <1>6, <1>7, <1>8 DEF AlertsInv

LEMMA RestartStep == AlertsInv /\ Restart => AlertsInv'
<1> SUFFICES ASSUME AlertsInv, Restart PROVE AlertsInv'
  OBVIOUS
<1>1. TypeOK'
  BY DEF AlertsInv, Restart, TypeOK
<1>2. EventsAccounted'
  <2>1. History' = History
    BY DEF History, Restart
  <2>. QED
    BY <2>1 DEF AlertsInv, Restart, EventsAccounted
<1>. QED
  BY <1>1, <1>2 DEF AlertsInv, Restart, AlertsAreJustified, HandsAreBusy, HandsAreOfOneMessage

LEMMA OtherSteps ==
    ASSUME AlertsInv,
           \/ \E h \in Handlers : Connect(h) \/ End(h)
           \/ \E levels \in Levels : SetThresholds(levels)
           \/ Dismiss
           \/ UNCHANGED vars
    PROVE  AlertsInv'
<1>1. TypeOK /\ HandsAreBusy /\ EventsAccounted /\ AlertsAreJustified /\ HandsAreOfOneMessage
  BY DEF AlertsInv
<1>2. UNCHANGED <<alerts, hand, told, lost>>
  BY DEF Connect, End, SetThresholds, Dismiss, vars
<1>3. EventsAccounted' /\ AlertsAreJustified'
  BY <1>1, <1>2 DEF EventsAccounted, History, AlertsAreJustified
<1>4. TypeOK'
  BY <1>1, <1>2 DEF Connect, End, Leaves, SetThresholds, Dismiss, vars, TypeOK
<1>5. HandsAreBusy'
  BY <1>1, <1>2 DEF Connect, End, Leaves, SetThresholds, Dismiss, vars, HandsAreBusy, TypeOK
<1>7. HandsAreOfOneMessage'
  BY <1>1, <1>2 DEF HandsAreOfOneMessage
<1>. QED
  BY <1>3, <1>4, <1>5, <1>7 DEF AlertsInv

LEMMA Invariance == Spec => []AlertsInv
<1>1. AlertsInv /\ [Next]_vars => AlertsInv'
  BY ReceiveStep, TellStep, RestartStep, OtherSteps DEF Next
<1>. QED
  BY InitHolds, <1>1, PTL DEF Spec

-----------------------------------------------------------------------------
(***************************************************************************)
(* The events implement AlertStream                                         *)
(***************************************************************************)

\* What an evaluation does to a metric, in the words of AlertStream: the alert
\* stays as it is, goes on, or goes off.
TurnsOnce(m, rows, new) ==
    \/ /\ Raised(m, rows, new) = {}
       /\ Len(new) = Len(rows)
       /\ Active(new) = {} <=> Active(rows) = {}
    \/ /\ Active(rows) = {} /\ Active(new) # {}
       /\ Raised(m, rows, new) = {Event(m, Len(rows) + 1, "alert_created")}
       /\ Len(new) = Len(rows) + 1
    \/ /\ Active(rows) # {} /\ Active(new) = {}
       /\ Raised(m, rows, new) = {Event(m, Len(rows), "alert_resolved")}
       /\ Len(new) = Len(rows)

LEMMA EvaluationTurnsOnce ==
    ASSUME NEW m \in Metrics, NEW rows \in Seq(Rows), Justified(rows),
           NEW threshold \in Values \cup {Off}, NEW value \in Values \cup {Off},
           NEW new, new = Judge(rows, threshold, value)
    PROVE  TurnsOnce(m, rows, new)
<1>0. new \in Seq(Rows) /\ Justified(new)
  BY JudgeKeeps
<1>1. CASE new = rows
  <2>1. ~ Len(new) > Len(rows)
    BY <1>1
  <2>2. Active(rows) # {} => new[Latest(rows)].status # "resolved"
    BY <1>1, NewestIsActive
  <2>. QED
    BY <1>1, <2>1, <2>2 DEF TurnsOnce, Raised
<1>2. CASE /\ Active(rows) = {} /\ threshold \in Values /\ value \in Values
           /\ value > threshold
           /\ new = Append(rows, Row("active", threshold, value))
  <2>1. Row("active", threshold, value) \in Rows
    BY <1>2 DEF Row, Rows
  <2>2. Len(new) = Len(rows) + 1 /\ new[Len(new)].status = "active" /\ Len(new) \in DOMAIN new
    BY <1>2, <2>1 DEF Row
  <2>3. Active(new) # {}
    BY <2>2 DEF Active
  <2>4. Raised(m, rows, new) = {Event(m, Len(rows) + 1, "alert_created")}
    BY <2>2 DEF Raised
  <2>. QED
    BY <1>2, <2>2, <2>3, <2>4 DEF TurnsOnce
<1>3. CASE /\ Active(rows) # {} /\ threshold \in Values /\ value \in Values
           /\ new = [rows EXCEPT ![Len(rows)] =
                       Row(IF value > threshold THEN "active" ELSE "resolved",
                           threshold, value)]
  <2>1. Latest(rows) = Len(rows) /\ Len(rows) > 0 /\ rows[Len(rows)].status = "active"
    BY <1>3, NewestIsActive
  <2>2. /\ Len(new) = Len(rows) /\ Len(rows) \in DOMAIN new
        /\ new[Len(rows)].status = IF value > threshold THEN "active" ELSE "resolved"
    BY <1>3, <2>1 DEF Row
  <2>3. CASE value > threshold
    <3>1. Active(new) # {}
      BY <2>2, <2>3 DEF Active
    <3>2. Raised(m, rows, new) = {}
      BY <2>1, <2>2, <2>3 DEF Raised
    <3>. QED
      BY <1>3, <2>2, <3>1, <3>2 DEF TurnsOnce
  <2>4. CASE ~ value > threshold
    <3>1. Active(new) = {}
      <4>1. Len(new) \notin Active(new)
        BY <2>2, <2>4 DEF Active
      <4>. QED
        BY <1>0, <4>1 DEF Active, Justified
    <3>2. Raised(m, rows, new) = {Event(m, Len(rows), "alert_resolved")}
      BY <1>3, <2>1, <2>2, <2>4 DEF Raised
    <3>. QED
      BY <1>3, <2>2, <3>1, <3>2 DEF TurnsOnce
  <2>. QED
    BY <2>3, <2>4
<1>4. \/ new = rows
      \/ /\ Active(rows) = {} /\ threshold \in Values /\ value \in Values
         /\ value > threshold
         /\ new = Append(rows, Row("active", threshold, value))
      \/ /\ Active(rows) # {} /\ threshold \in Values /\ value \in Values
         /\ new = [rows EXCEPT ![Len(rows)] =
                     Row(IF value > threshold THEN "active" ELSE "resolved",
                         threshold, value)]
  BY JudgeCases
<1>. QED
  BY <1>1, <1>2, <1>3, <1>4

Open == UNION {hand[h] : h \in Handlers}

On == {m \in Metrics : Active(alerts[m]) # {}}

Number == [m \in Metrics |-> Len(alerts[m])]

LEMMA StreamEvaluates ==
    ASSUME AlertsInv, NEW h \in Handlers, NEW sample \in Levels, Receive(h, sample)
    PROVE  Stream!Next
<1> DEFINE turned == {m \in Metrics : Raised(m, alerts[m], alerts'[m]) # {}}
<1>1. ASSUME NEW m \in Metrics
      PROVE  TurnsOnce(m, alerts[m], alerts'[m])
  <2>1. /\ alerts[m] \in Seq(Rows) /\ Justified(alerts[m])
        /\ thresholds[m] \in Values \cup {Off} /\ sample[m] \in Values \cup {Off}
        /\ alerts'[m] = Judge(alerts[m], thresholds[m], sample[m])
    BY DEF AlertsInv, TypeOK, Levels, AlertsAreJustified, Justified, Receive
  <2>. QED
    BY <2>1, EvaluationTurnsOnce
<1>2. \A m \in Metrics : m \in On <=> Active(alerts[m]) # {}
  BY DEF On
<1>3. \A m \in Metrics : Number[m] = Len(alerts[m])
  BY DEF Number
<1> DEFINE turn(m) == IF m \in On
                      THEN [metric |-> m, number |-> Number[m], type |-> "alert_resolved"]
                      ELSE [metric |-> m, number |-> Number[m] + 1, type |-> "alert_created"]
<1>4. \A m \in turned : Raised(m, alerts[m], alerts'[m]) = {turn(m)}
  BY <1>1, <1>2, <1>3 DEF TurnsOnce, Event
<1>5. New = {turn(m) : m \in turned}
  BY <1>4 DEF New
<1>6. On' = (On \ turned) \cup (turned \ On)
  <2>1. \A m \in Metrics : m \in On' <=> Active(alerts'[m]) # {}
    BY DEF On
  <2>2. \A m \in Metrics : m \in On' <=> (m \in On /\ m \notin turned) \/ (m \in turned /\ m \notin On)
    BY <1>1, <1>2, <2>1 DEF TurnsOnce
  <2>3. On \subseteq Metrics /\ On' \subseteq Metrics /\ turned \subseteq Metrics
    BY DEF On
  <2>. QED
    BY <2>2, <2>3
<1>7. Number' = [m \in Metrics |-> IF m \in turned \ On THEN Number[m] + 1 ELSE Number[m]]
  <2>1. \A m \in Metrics : Len(alerts'[m]) = IF m \in turned \ On THEN Number[m] + 1 ELSE Number[m]
    BY <1>1, <1>2, <1>3 DEF TurnsOnce
  <2>. QED
    BY <2>1 DEF Number
<1>8. Goes(h, New) /\ UNCHANGED told /\ hand[h] = {} /\ New \subseteq Events
  BY ReceiveFacts DEF Receive, New, AlertsInv, HandsAreBusy
<1>9. \/ hand' = [hand EXCEPT ![h] = New] /\ lost' = lost
      \/ hand' = [hand EXCEPT ![h] = {}] /\ lost' = lost \cup New
  BY <1>8, GoesFacts DEF AlertsInv
<1>10. \/ Open' = Open \cup New /\ lost' = lost
       \/ Open' = Open /\ lost' = lost \cup New
  <2>1. CASE hand' = [hand EXCEPT ![h] = New] /\ lost' = lost
    <3>1. \A g \in Handlers : hand'[g] = IF g = h THEN New ELSE hand[g]
      BY <2>1 DEF AlertsInv, TypeOK
    <3>2. \A e : (\E g \in Handlers : e \in hand'[g]) <=> (\E g \in Handlers : e \in hand[g]) \/ e \in New
      BY <1>8, <3>1
    <3>3. \A e : /\ e \in Open' <=> \E g \in Handlers : e \in hand'[g]
                 /\ e \in Open <=> \E g \in Handlers : e \in hand[g]
      BY DEF Open
    <3>. QED
      BY <2>1, <3>2, <3>3
  <2>2. CASE hand' = [hand EXCEPT ![h] = {}] /\ lost' = lost \cup New
    <3>1. hand' = hand
      BY <1>8, <2>2 DEF AlertsInv, TypeOK
    <3>. QED
      BY <2>2, <3>1 DEF Open
  <2>. QED
    BY <1>9, <2>1, <2>2
<1>. HIDE DEF turned
<1>11. PICK T \in SUBSET Metrics : T = turned
  BY DEF turned
<1>12. Stream!Evaluate(T)
  BY <1>5, <1>6, <1>7, <1>8, <1>10, <1>11 DEF Stream!Evaluate, Stream!Turn, Open, On, Number
<1>. QED
  BY <1>12 DEF Stream!Next

LEMMA StreamTells ==
    ASSUME AlertsInv, NEW h \in Handlers, Tell(h)
    PROVE  Stream!Next
<1>1. TypeOK /\ HandsAreBusy /\ EventsAccounted
  BY DEF AlertsInv
<1>2. PICK e \in hand[h] : told' = told \cup {e} /\ Goes(h, hand[h] \ {e})
  BY DEF Tell
<1> DEFINE rest == hand[h] \ {e}
<1>3. UNCHANGED alerts /\ rest \subseteq Events
  BY <1>1 DEF Tell, TypeOK
<1>4. \/ hand' = [hand EXCEPT ![h] = rest] /\ lost' = lost
      \/ hand' = [hand EXCEPT ![h] = {}] /\ lost' = lost \cup rest
  BY <1>1, <1>2, <1>3, GoesFacts
<1>5. \A x : /\ x \in Open <=> \E g \in Handlers : x \in hand[g]
             /\ x \in Open' <=> \E g \in Handlers : x \in hand'[g]
  BY DEF Open
<1>6. \A g \in Handlers \ {h} : hand[g] \cap hand[h] = {} /\ hand'[g] = hand[g]
  BY <1>1, <1>4 DEF EventsAccounted, TypeOK
<1>7. PICK dropped \in {{}, rest} : /\ Open' = Open \ (dropped \cup {e})
                                    /\ lost' = lost \cup dropped
  <2>1. CASE hand' = [hand EXCEPT ![h] = rest] /\ lost' = lost
    <3>1. hand'[h] = hand[h] \ {e}
      BY <1>1, <2>1 DEF TypeOK
    <3>2. Open' = Open \ {e}
      BY <1>5, <1>6, <3>1
    <3>. QED
      BY <2>1, <3>2
  <2>2. CASE hand' = [hand EXCEPT ![h] = {}] /\ lost' = lost \cup rest
    <3>1. hand'[h] = {}
      BY <1>1, <2>2 DEF TypeOK
    <3>2. Open' = Open \ (rest \cup {e})
      BY <1>5, <1>6, <3>1
    <3>. QED
      BY <2>2, <3>2
  <2>. QED
    BY <1>4, <2>1, <2>2
<1>8. e \in Open /\ dropped \in SUBSET (Open \ {e})
  BY <1>2, <1>5, <1>7
<1>9. Stream!Tell(e, dropped)
  BY <1>2, <1>3, <1>7 DEF Stream!Tell, Open
<1>. QED
  BY <1>8, <1>9 DEF Stream!Next, Open

LEMMA StreamStep == AlertsInv /\ [Next]_vars => [Stream!Next]_Stream!vars
<1> SUFFICES ASSUME AlertsInv, [Next]_vars
             PROVE  Stream!Next \/ UNCHANGED <<alerts, hand, told, lost>>
  BY DEF Stream!vars
<1>1. CASE Restart
  <2>1. UNCHANGED <<alerts, told>> /\ lost' = lost \cup Open /\ \A h \in Handlers : hand'[h] = {}
    BY <1>1 DEF Restart, Open
  <2>2. Open' = {}
    BY <2>1 DEF Open
  <2>3. PICK all \in SUBSET Open : all = Open
    OBVIOUS
  <2>4. Stream!Lose(all)
    BY <2>1, <2>2, <2>3 DEF Stream!Lose, Open
  <2>. QED
    BY <2>4 DEF Stream!Next, Open
<1>2. CASE \/ \E h \in Handlers : Connect(h) \/ End(h)
           \/ \E levels \in Levels : SetThresholds(levels)
           \/ Dismiss
           \/ UNCHANGED vars
  BY <1>2 DEF Connect, End, SetThresholds, Dismiss, vars
<1>. QED
  BY <1>1, <1>2, StreamEvaluates, StreamTells DEF Next

-----------------------------------------------------------------------------
(***************************************************************************)
(* The theorems                                                             *)
(***************************************************************************)

\* The variables of Alerts keep their types: every row was judged by a value
\* and a threshold that were there (Judge).
THEOREM AlertTypes == Spec => []TypeOK
BY Invariance, PTL DEF AlertsInv

\* One active alert per metric at most, the newest, and each row tells why it
\* has its status (evaluate_metric_alerts).
THEOREM AlertsHaveReasons == Spec => []AlertsAreJustified
BY Invariance, PTL DEF AlertsInv

\* Every event of the alerts table is told once, in one hand, or lost with a
\* handler, whatever connections overlap (_handle_agent_message).
THEOREM EveryEventAccounted == Spec => []EventsAccounted
BY Invariance, PTL DEF AlertsInv

\* The end of an alert is told before its beginning only if the beginning is
\* lost or in the hand of another handler (agent_ws takes one message at a time).
THEOREM EndsAfterBeginnings == Spec => ResolvedFollowsCreated
<1> DEFINE Follows ==
             \A e \in told' \ told : e.type = "alert_resolved" =>
                LET begin == Event(e.metric, e.number, "alert_created")
                IN  \/ begin \in told \cup lost'
                    \/ \E g \in Handlers : begin \in hand[g] /\ e \notin hand[g]
<1>1. ASSUME AlertsInv, Next PROVE Follows
  <2>1. CASE UNCHANGED told
    BY <2>1
  <2>2. ASSUME NEW h \in Handlers, Tell(h) PROVE Follows
    <3>1. PICK e \in hand[h] : told' = told \cup {e} /\ Goes(h, hand[h] \ {e})
      BY <2>2 DEF Tell
    <3> DEFINE begin == Event(e.metric, e.number, "alert_created")
    <3> SUFFICES ASSUME e.type = "alert_resolved"
                 PROVE  \/ begin \in told \cup lost'
                        \/ \E g \in Handlers : begin \in hand[g] /\ e \notin hand[g]
      BY <3>1
    <3>2. TypeOK /\ EventsAccounted /\ HandsAreOfOneMessage /\ HandsAreBusy
      BY <1>1 DEF AlertsInv
    <3>3. e \in History /\ e \in Events
      BY <3>1, <3>2 DEF EventsAccounted, TypeOK
    <3>4. begin \in History /\ begin.metric = e.metric /\ begin # e
      BY <3>3 DEF History, Event, Events
    <3>5. begin \in told \cup lost \/ \E g \in Handlers : begin \in hand[g]
      BY <3>2, <3>4 DEF EventsAccounted
    <3>6. begin \notin hand[h]
      BY <3>1, <3>2, <3>4 DEF HandsAreOfOneMessage
    <3>7. \A g \in Handlers \ {h} : e \notin hand[g]
      BY <3>1, <3>2 DEF EventsAccounted
    <3>8. lost \subseteq lost'
      BY <3>1 DEF Goes
    <3>. QED
      BY <3>5, <3>6, <3>7, <3>8
  <2>. QED
    BY <1>1, <2>1, <2>2 DEF Next, Connect, End, Receive, SetThresholds, Dismiss, Restart
<1>2. AlertsInv /\ [Next]_vars => [Follows]_vars
  BY <1>1
<1>. QED
  BY Invariance, <1>2, PTL DEF Spec, ResolvedFollowsCreated

\* The turns of the alerts and what becomes of their events are those that
\* AlertStream promises.
THEOREM EventsFollowStream == Spec => ImplementsStream
<1>1. Init => Stream!Init
  <2> SUFFICES ASSUME Init PROVE Stream!Init
    OBVIOUS
  <2>1. \A m \in Metrics : alerts[m] = <<>> /\ Len(alerts[m]) = 0 /\ Active(alerts[m]) = {}
    BY DEF Init, Active
  <2>2. \A h \in Handlers : hand[h] = {}
    BY DEF Init
  <2>. QED
    BY <2>1, <2>2 DEF Init, Stream!Init
<1>. QED
  BY <1>1, StreamStep, Invariance, PTL DEF Spec, ImplementsStream, Stream!Spec

=============================================================================
