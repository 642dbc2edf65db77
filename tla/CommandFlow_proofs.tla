-------------------------- MODULE CommandFlow_proofs --------------------------
(***************************************************************************)
(* Theorems about CommandFlow, for every set of commands and connections.   *)
(***************************************************************************)
EXTENDS CommandFlow, SequenceTheorems, TLAPS

\* A command in hand is a command (the positions where the agent uses it).
HandHoldsCommand ==
    agent.at \in {"acked", "running"} => agent.cmd \in Commands

\* The coroutine of a command starts when its row is inserted.
UncreatedIsUnsent ==
    \A c \in Commands : c \notin exists => sender[c] = "none"

\* A command whose frame was not written yet has left no trace.
UnwrittenIsUnknown ==
    \A c \in Commands :
        sender[c] \in {"none", "sending"} =>
            /\ starts[c] = 0
            /\ agent.cmd # c
            /\ \A k \in Conns : \A i \in 1 .. Len(down[k]) : down[k][i] # c

\* A command occupies at most one place in all the frames under way.
QueuedOnce ==
    \A k, l \in Conns : \A i \in 1 .. Len(down[k]), j \in 1 .. Len(down[l]) :
        down[k][i] \in Commands /\ down[k][i] = down[l][j] => k = l /\ i = j

\* A command that is still under way is neither in hand nor started.
QueuedIsNotStarted ==
    \A k \in Conns : \A i \in 1 .. Len(down[k]) :
        down[k][i] \in Commands =>
            /\ starts[down[k][i]] = 0
            /\ agent.cmd # down[k][i]

\* A command that is only acknowledged has not been started.
AckedIsNotStarted ==
    agent.at = "acked" => starts[agent.cmd] = 0

\* There is an outcome exactly for what was started.
OutcomeIfStarted ==
    \A c \in Commands : outcome[c] = "none" <=> starts[c] = 0

\* A report under way tells what happened.
ReportsAreTrue ==
    \A k \in Conns : \A i \in 1 .. Len(up[k]) :
        up[k][i].kind \in {"success", "failed"}
        => outcome[up[k][i].cmd] = up[k][i].kind

\* The inductive invariant: type correctness, the custody of every command
\* on its way to the agent, and the truth of what comes back.
TInv == TypeOK /\ HandHoldsCommand

Custody ==
    /\ UncreatedIsUnsent
    /\ UnwrittenIsUnknown
    /\ QueuedOnce
    /\ QueuedIsNotStarted
    /\ AckedIsNotStarted
    /\ ExecutedAtMostOnce

Truth ==
    /\ OutcomeIfStarted
    /\ ReportsAreTrue
    /\ ResultIsTrue

-----------------------------------------------------------------------------
(***************************************************************************)
(* Type correctness                                                         *)
(***************************************************************************)

\* Every UPDATE statement maps a row to a row (CommandTable).
LEMMA RowOperators ==
    ASSUME NEW row \in Row
    PROVE  /\ NewRow \in Row
           /\ MarkSent(row) \in Row
           /\ MarkSendFailed(row) \in Row
           /\ MarkAcknowledged(row) \in Row
           /\ MarkRunning(row) \in Row
           /\ \A s \in {"success", "failed"} : MarkResult(row, s) \in Row
           /\ ExpireRow(row) \in Row
BY DEF Row, Status, OpenStatus, FinalStatus, Note, NewRow, MarkSent, MarkSendFailed,
       MarkAcknowledged, MarkRunning, MarkResult, ExpireRow

LEMMA HandledRow ==
    ASSUME NEW row \in Row, NEW report \in Report
    PROVE  Handled(row, report) \in Row
<1>1. report.kind \in {"ack", "running", "success", "failed"}
  BY DEF Report
<1>. QED
  BY <1>1, RowOperators DEF Handled

\* What the agent sends is appended to the frames under way, or lost.
LEMMA SendsAppends ==
    ASSUME TypeOK, NEW k \in Conns, NEW report \in Report, Sends(k, report)
    PROVE  /\ up' \in [Conns -> Seq(Report)]
           /\ \A l \in Conns : \A i \in 1 .. Len(up'[l]) :
                 \/ up'[l][i] = report
                 \/ i \in 1 .. Len(up[l]) /\ up'[l][i] = up[l][i]
<1> USE DEF TypeOK
<1>1. CASE socket[k] = "open"
  <2>1. up' = [up EXCEPT ![k] = Append(@, report)]
    BY <1>1 DEF Sends
  <2>. QED
    BY <2>1
<1>2. CASE socket[k] # "open"
  <2>1. up' = up
    BY <1>2 DEF Sends
  <2>. QED
    BY <2>1
<1>. QED
  BY <1>1, <1>2

\* What the server writes is appended to the frames under way, or lost.
LEMMA WritesAppends ==
    ASSUME TypeOK, NEW k \in Conns \cup {NoConn},
           NEW frame \in Commands \cup {AuthOk}, Writes(k, frame)
    PROVE  /\ down' \in [Conns -> Seq(Commands \cup {AuthOk})]
           /\ \A l \in Conns : \A i \in 1 .. Len(down'[l]) :
                 \/ i \in 1 .. Len(down[l]) /\ down'[l][i] = down[l][i]
                 \/ l = k /\ i = Len(down[l]) + 1 /\ down'[l][i] = frame
<1> USE ConstantsAssumption DEF TypeOK
<1>1. CASE agent.conn = k /\ k \in Conns
  <2>1. down' = [down EXCEPT ![k] = Append(@, frame)]
    BY <1>1 DEF Writes
  <2>. QED
    BY <1>1, <2>1
<1>2. CASE agent.conn # k \/ k = NoConn
  <2>1. down' = down
    BY <1>2 DEF Writes
  <2>. QED
    BY <2>1
<1>. QED
  BY <1>1, <1>2

LEMMA TypeStep == TInv /\ [Next]_vars => TInv'
<1> SUFFICES ASSUME TInv, [Next]_vars
             PROVE  TInv'
  OBVIOUS
<1> USE ConstantsAssumption DEF TInv, TypeOK, HandHoldsCommand
<1>1. ASSUME NEW c \in Commands, CreateCommand(c)
      PROVE  TInv'
  <2>1. NewRow \in Row /\ MarkSendFailed(NewRow) \in Row
    BY RowOperators
  <2>2. rows' \in [Commands -> Row] /\ sender' \in [Commands -> SenderState]
    <3>1. CASE hub = NoConn
      <4>1. /\ rows' = [rows EXCEPT ![c] = MarkSendFailed(NewRow)]
            /\ sender' = [sender EXCEPT ![c] = "over"]
        BY <1>1, <3>1 DEF CreateCommand
      <4>. QED
        BY <2>1, <4>1 DEF SenderState
    <3>2. CASE hub # NoConn
      <4>1. /\ rows' = [rows EXCEPT ![c] = NewRow]
            /\ sender' = [sender EXCEPT ![c] = "sending"]
        BY <1>1, <3>2 DEF CreateCommand
      <4>. QED
        BY <2>1, <4>1 DEF SenderState
    <3>. QED
      BY <3>1, <3>2
  <2>3. exists' \subseteq Commands /\ target' \in [Commands -> Conns \cup {NoConn}]
    BY <1>1 DEF CreateCommand
  <2>4. UNCHANGED <<hub, handler, socket, down, up, agent, starts, outcome>>
    BY <1>1 DEF CreateCommand, wireVars, agentVars
  <2>. QED
    BY <2>2, <2>3, <2>4
<1>2. ASSUME NEW c \in Commands, WriteCommand(c)
      PROVE  TInv'
  <2>1. down' \in [Conns -> Seq(Commands \cup {AuthOk})]
    BY <1>2, WritesAppends DEF WriteCommand
  <2>. QED
    BY <1>2, <2>1 DEF WriteCommand, SenderState, agentVars
<1>3. ASSUME NEW c \in Commands, SendReturns(c)
      PROVE  TInv'
  <2>1. MarkSent(rows[c]) \in Row
    BY RowOperators
  <2>. QED
    BY <1>3, <2>1 DEF SendReturns, Ends, SenderState, wireVars, agentVars
<1>4. ASSUME NEW c \in Commands, SendFails(c)
      PROVE  TInv'
  BY <1>4 DEF SendFails, SenderState, wireVars, agentVars
<1>5. ASSUME NEW c \in Commands, CloseReturns(c)
      PROVE  TInv'
  <2>1. MarkSendFailed(rows[c]) \in Row
    BY RowOperators
  <2>. QED
    BY <1>5, <2>1 DEF CloseReturns, Ends, SenderState, wireVars, agentVars
<1>6. ASSUME NEW c \in Commands, ExecutionEnds(c)
      PROVE  TInv'
  BY <1>6 DEF ExecutionEnds, serverVars, wireVars
<1>7. ASSUME NEW k \in Conns, Connect(k)
      PROVE  TInv'
  BY <1>7 DEF Connect, HandlerState, AgentState
<1>8. ASSUME NEW k \in Conns, Greet(k)
      PROVE  TInv'
  <2>1. down' \in [Conns -> Seq(Commands \cup {AuthOk})]
    BY <1>8, WritesAppends DEF Greet
  <2>. QED
    BY <1>8, <2>1 DEF Greet, HandlerState, agentVars
<1>9. ASSUME NEW k \in Conns, GreetFails(k)
      PROVE  TInv'
  BY <1>9 DEF GreetFails, HandlerState, wireVars, agentVars
<1>10. ASSUME NEW k \in Conns, ServerReceives(k)
       PROVE  TInv'
  <2>1. Head(up[k]) \in Report /\ Tail(up[k]) \in Seq(Report)
    BY <1>10 DEF ServerReceives
  <2>2. Head(up[k]).cmd \in Commands
    BY <2>1 DEF Report
  <2>3. Handled(rows[Head(up[k]).cmd], Head(up[k])) \in Row
    BY <2>1, <2>2, HandledRow
  <2>4. rows' \in [Commands -> Row]
    BY <1>10, <2>2, <2>3 DEF ServerReceives
  <2>5. up' \in [Conns -> Seq(Report)]
    BY <1>10, <2>1 DEF ServerReceives
  <2>. QED
    BY <1>10, <2>4, <2>5 DEF ServerReceives, agentVars
<1>11. ASSUME NEW k \in Conns, HandlerEnds(k)
       PROVE  TInv'
  <2>1. up' \in [Conns -> Seq(Report)]
    BY <1>11 DEF HandlerEnds
  <2>. QED
    BY <1>11, <2>1 DEF HandlerEnds, HandlerState, agentVars
<1>12. ASSUME NEW k \in Conns, CloseSocket(k)
       PROVE  TInv'
  BY <1>12 DEF CloseSocket, serverVars, agentVars
<1>13. ASSUME NEW k \in Conns, AgentAuthenticates(k)
       PROVE  TInv'
  <2>1. UNCHANGED <<exists, rows, sender, target, hub, handler, socket, up, starts, outcome>>
    BY <1>13 DEF AgentAuthenticates, serverVars
  <2>2. down' \in [Conns -> Seq(Commands \cup {AuthOk})]
    BY <1>13 DEF AgentAuthenticates
  <2>3. CASE agent' = Offline
    BY <2>1, <2>2, <2>3 DEF AgentState, Offline
  <2>4. CASE agent' = [agent EXCEPT !.at = "idle"]
    BY <2>1, <2>2, <2>4 DEF AgentState
  <2>. QED
    BY <1>13, <2>3, <2>4 DEF AgentAuthenticates
<1>14. ASSUME NEW k \in Conns, AgentAcknowledges(k)
       PROVE  TInv'
  <2>1. [kind |-> "ack", cmd |-> Head(down[k])] \in Report
    BY <1>14 DEF AgentAcknowledges, Report
  <2>2. up' \in [Conns -> Seq(Report)]
    BY <1>14, <2>1, SendsAppends DEF AgentAcknowledges
  <2>3. down' \in [Conns -> Seq(Commands \cup {AuthOk})]
    BY <1>14 DEF AgentAcknowledges
  <2>. QED
    BY <1>14, <2>2, <2>3 DEF AgentAcknowledges, AgentState, serverVars
<1>15. ASSUME NEW k \in Conns, AgentStarts(k)
       PROVE  TInv'
  <2>1. agent.cmd \in Commands
    BY <1>15 DEF AgentStarts, AgentAt
  <2>2. [kind |-> "running", cmd |-> agent.cmd] \in Report
    BY <2>1 DEF Report
  <2>3. up' \in [Conns -> Seq(Report)]
    BY <1>15, <2>2, SendsAppends DEF AgentStarts
  <2>4. starts' \in [Commands -> Nat]
        /\ outcome' \in [Commands -> {"none", "executing", "success", "failed"}]
    BY <1>15, <2>1 DEF AgentStarts
  <2>5. agent' = [agent EXCEPT !.at = "running"]
        /\ UNCHANGED <<exists, rows, sender, target, hub, handler, socket, down>>
    BY <1>15 DEF AgentStarts, serverVars
  <2>. QED
    BY <2>1, <2>3, <2>4, <2>5 DEF AgentState
<1>16. ASSUME NEW k \in Conns, AgentReports(k)
       PROVE  TInv'
  <2>1. agent.cmd \in Commands
    BY <1>16 DEF AgentReports, AgentAt
  <2>2. [kind |-> outcome[agent.cmd], cmd |-> agent.cmd] \in Report
    BY <1>16, <2>1 DEF AgentReports, Report
  <2>3. up' \in [Conns -> Seq(Report)]
    BY <1>16, <2>2, SendsAppends DEF AgentReports
  <2>. QED
    BY <1>16, <2>3 DEF AgentReports, AgentState, serverVars
<1>17. CASE AgentGoesOffline
  <2> DEFINE k == agent.conn
  <2>1. down' \in [Conns -> Seq(Commands \cup {AuthOk})]
    <3>1. down' = [down EXCEPT ![k] = <<>>]
      BY <1>17 DEF AgentGoesOffline
    <3>2. CASE k \in Conns
      BY <3>1, <3>2
    <3>3. CASE k \notin Conns
      <4>1. down' = down
        BY <3>1, <3>3
      <4>. QED
        BY <4>1
    <3>. QED
      BY <3>2, <3>3
  <2>. QED
    BY <1>17, <2>1 DEF AgentGoesOffline, Offline, AgentState, serverVars
<1>18. ASSUME NEW S \in SUBSET exists, Expire(S)
       PROVE  TInv'
  <2>1. \A c \in Commands : ExpireRow(rows[c]) \in Row
    BY RowOperators
  <2>. QED
    BY <1>18, <2>1 DEF Expire, wireVars, agentVars
<1>19. CASE ServerRestarts
  <2>1. up' \in [Conns -> Seq(Report)]
    BY <1>19 DEF ServerRestarts
  <2>. QED
    BY <1>19, <2>1 DEF ServerRestarts, SenderState, HandlerState, agentVars
<1>20. CASE UNCHANGED vars
  BY <1>20 DEF vars, serverVars, wireVars, agentVars
<1>21. ASSUME NEW k \in Conns, DisconnectAgent(k)
       PROVE  TInv'
  BY <1>21 DEF DisconnectAgent, wireVars, agentVars
<1>22. ASSUME NEW c \in Commands, CreateRaises(c)
       PROVE  TInv'
  <2>1. NewRow \in Row
    BY RowOperators
  <2>. QED
    BY <1>22, <2>1 DEF CreateRaises, SenderState, wireVars, agentVars
<1>23. ASSUME NEW c \in Commands, RecordRaises(c)
       PROVE  TInv'
  BY <1>23 DEF RecordRaises, Ends, SenderState, wireVars, agentVars
<1>. QED
  BY <1>1, <1>2, <1>3, <1>4, <1>5, <1>6, <1>7, <1>8, <1>9, <1>10, <1>11, <1>12,
     <1>13, <1>14, <1>15, <1>16, <1>17, <1>18, <1>19, <1>20, <1>21, <1>22, <1>23 DEF Next

LEMMA TypeInit == Init => TInv
BY ConstantsAssumption, RowOperators
   DEF Init, TInv, TypeOK, HandHoldsCommand, NewRow, Row, Status, OpenStatus,
       FinalStatus, Note, SenderState, HandlerState, AgentState, Offline

\* The variables keep the types of the program's own values.
THEOREM TypeCorrect == Spec => []TypeOK
<1>1. TInv => TypeOK
  BY DEF TInv
<1>. QED
  BY TypeInit, TypeStep, <1>1, PTL DEF Spec

-----------------------------------------------------------------------------
(***************************************************************************)
(* Custody of the commands                                                  *)
(***************************************************************************)

\* A step that writes no command, starts nothing and takes no command in
\* hand keeps the custody; frames may be read or lost.
LEMMA CustodyKept ==
    ASSUME TInv, TInv', Custody,
           NEW shift \in [Conns -> 0 .. 1],
           \A k \in Conns : \A i \in 1 .. Len(down'[k]) :
               /\ i + shift[k] \in 1 .. Len(down[k])
               /\ down'[k][i] = down[k][i + shift[k]],
           starts' = starts,
           agent'.cmd \in {agent.cmd, NoCommand},
           agent'.at = "acked" => agent.at = "acked" /\ agent'.cmd = agent.cmd,
           exists' = exists,
           \A c \in Commands : sender'[c] = sender[c] \/ sender'[c] \notin {"none", "sending"},
           \A c \in Commands : c \notin exists => sender'[c] = "none"
    PROVE  Custody'
<1> USE ConstantsAssumption DEF Custody, TInv, TypeOK
<1>1. UncreatedIsUnsent'
  BY DEF UncreatedIsUnsent
<1>2. UnwrittenIsUnknown'
  <2> SUFFICES ASSUME NEW c \in Commands, sender'[c] \in {"none", "sending"}
               PROVE  /\ starts'[c] = 0
                      /\ agent'.cmd # c
                      /\ \A k \in Conns : \A i \in 1 .. Len(down'[k]) : down'[k][i] # c
    BY DEF UnwrittenIsUnknown
  <2>1. sender[c] \in {"none", "sending"}
    OBVIOUS
  <2>2. /\ starts[c] = 0
        /\ agent.cmd # c
        /\ \A k \in Conns : \A i \in 1 .. Len(down[k]) : down[k][i] # c
    BY <2>1 DEF UnwrittenIsUnknown
  <2>3. ASSUME NEW k \in Conns, NEW i \in 1 .. Len(down'[k])
        PROVE  down'[k][i] # c
    <3>1. /\ i + shift[k] \in 1 .. Len(down[k])
          /\ down'[k][i] = down[k][i + shift[k]]
      BY <2>3
    <3>2. down[k][i + shift[k]] # c
      BY <2>2, <3>1
    <3>. QED
      BY <3>1, <3>2
  <2>4. agent'.cmd # c
    BY <2>2
  <2>. QED
    BY <2>2, <2>3, <2>4
<1>3. QueuedOnce'
  <2> SUFFICES ASSUME NEW k \in Conns, NEW l \in Conns,
                      NEW i \in 1 .. Len(down'[k]), NEW j \in 1 .. Len(down'[l]),
                      down'[k][i] \in Commands, down'[k][i] = down'[l][j]
               PROVE  k = l /\ i = j
    BY DEF QueuedOnce
  <2>1. /\ i + shift[k] \in 1 .. Len(down[k])
        /\ j + shift[l] \in 1 .. Len(down[l])
        /\ down[k][i + shift[k]] \in Commands
        /\ down[k][i + shift[k]] = down[l][j + shift[l]]
    OBVIOUS
  <2>2. k = l /\ i + shift[k] = j + shift[l]
    BY <2>1 DEF QueuedOnce
  <2>3. shift[k] \in 0 .. 1 /\ i \in Int /\ j \in Int
    OBVIOUS
  <2>. QED
    BY <2>2, <2>3
<1>4. QueuedIsNotStarted'
  <2> SUFFICES ASSUME NEW k \in Conns, NEW i \in 1 .. Len(down'[k]),
                      down'[k][i] \in Commands
               PROVE  starts'[down'[k][i]] = 0 /\ agent'.cmd # down'[k][i]
    BY DEF QueuedIsNotStarted
  <2>1. /\ i + shift[k] \in 1 .. Len(down[k])
        /\ down'[k][i] = down[k][i + shift[k]]
    OBVIOUS
  <2>. QED
    BY <2>1 DEF QueuedIsNotStarted
<1>5. AckedIsNotStarted'
  BY DEF AckedIsNotStarted
<1>6. ExecutedAtMostOnce'
  BY DEF ExecutedAtMostOnce
<1>. QED
  BY <1>1, <1>2, <1>3, <1>4, <1>5, <1>6

\* The same when no frame moves at all or the frames of one socket are lost.
LEMMA CustodyKeptOnLoss ==
    ASSUME TInv, TInv', Custody,
           \A k \in Conns : down'[k] \in {down[k], <<>>},
           starts' = starts,
           agent'.cmd \in {agent.cmd, NoCommand},
           agent'.at = "acked" => agent.at = "acked" /\ agent'.cmd = agent.cmd,
           exists' = exists,
           \A c \in Commands : sender'[c] = sender[c] \/ sender'[c] \notin {"none", "sending"},
           \A c \in Commands : c \notin exists => sender'[c] = "none"
    PROVE  Custody'
<1> DEFINE shift == [k \in Conns |-> 0]
<1>1. shift \in [Conns -> 0 .. 1]
  OBVIOUS
<1>2. ASSUME NEW k \in Conns, NEW i \in 1 .. Len(down'[k])
      PROVE  /\ i + shift[k] \in 1 .. Len(down[k])
             /\ down'[k][i] = down[k][i + shift[k]]
  <2>1. shift[k] = 0 /\ i \in Int
    OBVIOUS
  <2> HIDE DEF shift
  <2>2. CASE down'[k] = <<>>
    BY <1>2, <2>2
  <2>3. CASE down'[k] = down[k]
    BY <1>2, <2>1, <2>3
  <2>. QED
    BY <1>2, <2>2, <2>3
<1> HIDE DEF shift
<1>. QED
  BY <1>1, <1>2, CustodyKept

LEMMA CustodyStep == TInv /\ Custody /\ [Next]_vars => Custody'
<1> SUFFICES ASSUME TInv, Custody, [Next]_vars
             PROVE  Custody'
  OBVIOUS
<1>0. TInv'
  BY TypeStep
<1> USE ConstantsAssumption DEF TInv, TypeOK
<1>a. \A c \in Commands : c \notin exists => sender[c] = "none"
  BY DEF Custody, UncreatedIsUnsent
<1>1. ASSUME NEW c \in Commands, CreateCommand(c)
      PROVE  Custody'
  <2>1. /\ sender[c] = "none"
        /\ \A d \in Commands : sender'[d] \in {"none", "sending"} => sender[d] \in {"none", "sending"}
        /\ \A d \in Commands : d \notin exists' => sender'[d] = "none"
    BY <1>1, <1>a DEF CreateCommand
  <2>2. UNCHANGED <<down, starts, agent>>
    BY <1>1 DEF CreateCommand, wireVars, agentVars
  <2> HIDE DEF TInv, TypeOK
  <2>3. UncreatedIsUnsent'
    BY <2>1 DEF UncreatedIsUnsent
  <2>4. UnwrittenIsUnknown'
    BY <2>1, <2>2 DEF Custody, UnwrittenIsUnknown
  <2>5. QueuedOnce' /\ QueuedIsNotStarted'
    BY <2>2 DEF Custody, QueuedOnce, QueuedIsNotStarted
  <2>6. AckedIsNotStarted' /\ ExecutedAtMostOnce'
    BY <2>2 DEF Custody, AckedIsNotStarted, ExecutedAtMostOnce
  <2>. QED
    BY <2>3, <2>4, <2>5, <2>6 DEF Custody
<1>2. ASSUME NEW c \in Commands, WriteCommand(c)
      PROVE  Custody'
  <2>1. /\ sender[c] = "sending"
        /\ sender' = [sender EXCEPT ![c] = "written"]
        /\ Writes(target[c], c)
        /\ UNCHANGED <<exists, starts, agent>>
    BY <1>2 DEF WriteCommand, agentVars
  <2>2. /\ starts[c] = 0
        /\ agent.cmd # c
        /\ \A k \in Conns : \A i \in 1 .. Len(down[k]) : down[k][i] # c
    BY <2>1 DEF Custody, UnwrittenIsUnknown
  <2>3. \A k \in Conns : \A i \in 1 .. Len(down'[k]) :
           \/ i \in 1 .. Len(down[k]) /\ down'[k][i] = down[k][i]
           \/ k = target[c] /\ i = Len(down[k]) + 1 /\ down'[k][i] = c
    <3>1. target[c] \in Conns \cup {NoConn} /\ c \in Commands \cup {AuthOk}
      OBVIOUS
    <3>2. TypeOK
      OBVIOUS
    <3> HIDE DEF TInv, TypeOK
    <3>. QED
      BY <2>1, <3>1, <3>2, WritesAppends
  <2>. HIDE DEF TInv, TypeOK
  <2>4. UncreatedIsUnsent'
    BY <2>1, <1>a DEF UncreatedIsUnsent, TInv, TypeOK
  <2>5. UnwrittenIsUnknown'
    <3> SUFFICES ASSUME NEW d \in Commands, sender'[d] \in {"none", "sending"}
                 PROVE  /\ starts'[d] = 0
                        /\ agent'.cmd # d
                        /\ \A k \in Conns : \A i \in 1 .. Len(down'[k]) : down'[k][i] # d
      BY DEF UnwrittenIsUnknown
    <3>1. d # c /\ sender[d] \in {"none", "sending"}
      BY <2>1 DEF TInv, TypeOK
    <3>2. /\ starts[d] = 0
          /\ agent.cmd # d
          /\ \A k \in Conns : \A i \in 1 .. Len(down[k]) : down[k][i] # d
      BY <3>1 DEF Custody, UnwrittenIsUnknown
    <3>3. \A k \in Conns : \A i \in 1 .. Len(down'[k]) : down'[k][i] # d
      BY <2>3, <3>1, <3>2
    <3>. QED
      BY <2>1, <3>2, <3>3
  <2>6. QueuedOnce'
    <3> SUFFICES ASSUME NEW k \in Conns, NEW l \in Conns,
                        NEW i \in 1 .. Len(down'[k]), NEW j \in 1 .. Len(down'[l]),
                        down'[k][i] \in Commands, down'[k][i] = down'[l][j]
                 PROVE  k = l /\ i = j
      BY DEF QueuedOnce
    <3>1. CASE down'[k][i] = c
      <4>1. k = target[c] /\ i = Len(down[k]) + 1
        BY <2>2, <2>3, <3>1
      <4>2. down'[l][j] = c
        BY <3>1
      <4>3. l = target[c] /\ j = Len(down[l]) + 1
        BY <2>2, <2>3, <4>2
      <4>. QED
        BY <4>1, <4>3
    <3>2. CASE down'[k][i] # c
      <4>1. /\ i \in 1 .. Len(down[k]) /\ down'[k][i] = down[k][i]
            /\ j \in 1 .. Len(down[l]) /\ down'[l][j] = down[l][j]
        BY <2>3, <3>2
      <4>2. down[k][i] \in Commands /\ down[k][i] = down[l][j]
        BY <4>1
      <4>3. QueuedOnce
        BY DEF Custody
      <4>. QED
        BY <4>1, <4>2, <4>3 DEF QueuedOnce
    <3>. QED
      BY <3>1, <3>2
  <2>7. QueuedIsNotStarted'
    BY <2>1, <2>2, <2>3 DEF Custody, QueuedIsNotStarted
  <2>8. AckedIsNotStarted' /\ ExecutedAtMostOnce'
    BY <2>1 DEF Custody, AckedIsNotStarted, ExecutedAtMostOnce
  <2>. QED
    BY <2>4, <2>5, <2>6, <2>7, <2>8 DEF Custody
<1>3. ASSUME NEW c \in Commands, SendReturns(c)
      PROVE  Custody'
  BY <1>3, <1>a, <1>0, CustodyKeptOnLoss DEF SendReturns, Ends, wireVars, agentVars
<1>4. ASSUME NEW c \in Commands, SendFails(c)
      PROVE  Custody'
  BY <1>4, <1>a, <1>0, CustodyKeptOnLoss DEF SendFails, wireVars, agentVars
<1>5. ASSUME NEW c \in Commands, CloseReturns(c)
      PROVE  Custody'
  BY <1>5, <1>a, <1>0, CustodyKeptOnLoss DEF CloseReturns, Ends, wireVars, agentVars
<1>6. ASSUME NEW c \in Commands, ExecutionEnds(c)
      PROVE  Custody'
  BY <1>6, <1>a, <1>0, CustodyKeptOnLoss DEF ExecutionEnds, serverVars, wireVars
<1>7. ASSUME NEW k \in Conns, Connect(k)
      PROVE  Custody'
  BY <1>7, <1>a, <1>0, CustodyKeptOnLoss DEF Connect, wireVars
<1>8. ASSUME NEW k \in Conns, Greet(k)
      PROVE  Custody'
  <2>1. /\ Writes(k, AuthOk)
        /\ UNCHANGED <<exists, sender, starts, agent>>
    BY <1>8 DEF Greet, agentVars
  <2>2. \A l \in Conns : \A i \in 1 .. Len(down'[l]) :
           \/ i \in 1 .. Len(down[l]) /\ down'[l][i] = down[l][i]
           \/ down'[l][i] = AuthOk
    BY <2>1, WritesAppends
  <2>. HIDE DEF TInv, TypeOK
  <2>3. UncreatedIsUnsent' /\ AckedIsNotStarted' /\ ExecutedAtMostOnce'
    BY <2>1 DEF Custody, UncreatedIsUnsent, AckedIsNotStarted, ExecutedAtMostOnce
  <2>4. UnwrittenIsUnknown'
    BY <2>1, <2>2 DEF Custody, UnwrittenIsUnknown
  <2>5. QueuedOnce'
    BY <2>2 DEF Custody, QueuedOnce
  <2>6. QueuedIsNotStarted'
    BY <2>1, <2>2 DEF Custody, QueuedIsNotStarted
  <2>. QED
    BY <2>3, <2>4, <2>5, <2>6 DEF Custody
<1>9. ASSUME NEW k \in Conns, GreetFails(k)
      PROVE  Custody'
  BY <1>9, <1>a, <1>0, CustodyKeptOnLoss DEF GreetFails, wireVars, agentVars
<1>10. ASSUME NEW k \in Conns, ServerReceives(k)
      PROVE  Custody'
  BY <1>10, <1>a, <1>0, CustodyKeptOnLoss DEF ServerReceives, agentVars
<1>11. ASSUME NEW k \in Conns, HandlerEnds(k)
      PROVE  Custody'
  BY <1>11, <1>a, <1>0, CustodyKeptOnLoss DEF HandlerEnds, agentVars
<1>12. ASSUME NEW k \in Conns, CloseSocket(k)
      PROVE  Custody'
  BY <1>12, <1>a, <1>0, CustodyKeptOnLoss DEF CloseSocket, serverVars, agentVars
<1>13. ASSUME NEW k \in Conns, AgentAuthenticates(k)
       PROVE  Custody'
  <2>1. /\ down[k] # <<>>
        /\ down' = [down EXCEPT ![k] = Tail(@)]
        /\ UNCHANGED <<exists, sender, starts>>
    BY <1>13 DEF AgentAuthenticates, serverVars
  <2>2. agent' \in {[agent EXCEPT !.at = "idle"], Offline}
    BY <1>13 DEF AgentAuthenticates
  <2> DEFINE shift == [l \in Conns |-> IF l = k THEN 1 ELSE 0]
  <2>3. shift \in [Conns -> 0 .. 1]
    OBVIOUS
  <2>4. ASSUME NEW l \in Conns, NEW i \in 1 .. Len(down'[l])
        PROVE  /\ i + shift[l] \in 1 .. Len(down[l])
               /\ down'[l][i] = down[l][i + shift[l]]
    BY <2>1
  <2>5. agent'.cmd \in {agent.cmd, NoCommand} /\ agent'.at # "acked"
    BY <2>2 DEF Offline
  <2> HIDE DEF shift, TInv, TypeOK
  <2>. QED
    BY <1>0, <1>a, <2>1, <2>3, <2>4, <2>5, CustodyKept
<1>14. ASSUME NEW k \in Conns, AgentAcknowledges(k)
       PROVE  Custody'
  <2>1. PICK c \in Commands : c = Head(down[k])
    BY <1>14 DEF AgentAcknowledges
  <2>2. /\ down[k] # <<>>
        /\ down' = [down EXCEPT ![k] = Tail(@)]
        /\ agent' = [agent EXCEPT !.at = "acked", !.cmd = c]
        /\ UNCHANGED <<exists, sender, starts>>
    BY <1>14, <2>1 DEF AgentAcknowledges, serverVars
  <2>3. /\ 1 \in 1 .. Len(down[k])
        /\ down[k][1] = c
    BY <2>1, <2>2
  <2>4. agent'.cmd = c /\ agent'.at = "acked"
    BY <2>2
  <2>5. starts[c] = 0
    BY <2>3 DEF Custody, QueuedIsNotStarted
  <2>6. sender[c] \notin {"none", "sending"}
    BY <2>3 DEF Custody, UnwrittenIsUnknown
  <2>7. \A l \in Conns : \A i \in 1 .. Len(down'[l]) :
           \/ l # k /\ i \in 1 .. Len(down[l]) /\ down'[l][i] = down[l][i]
           \/ l = k /\ i + 1 \in 1 .. Len(down[l]) /\ i + 1 # 1 /\ down'[l][i] = down[l][i + 1]
    BY <2>2
  <2>8. \A l \in Conns : \A i \in 1 .. Len(down'[l]) : down'[l][i] # c
    <3> SUFFICES ASSUME NEW l \in Conns, NEW i \in 1 .. Len(down'[l]), down'[l][i] = c
                 PROVE  FALSE
      OBVIOUS
    <3>1. CASE l # k
      <4>1. i \in 1 .. Len(down[l]) /\ down[l][i] = down[k][1]
        BY <2>3, <2>7, <3>1
      <4>. QED
        BY <2>3, <3>1, <4>1 DEF Custody, QueuedOnce
    <3>2. CASE l = k
      <4>1. i + 1 \in 1 .. Len(down[k]) /\ i + 1 # 1 /\ down[k][i + 1] = down[k][1]
        BY <2>3, <2>7, <3>2
      <4>. QED
        BY <2>3, <4>1 DEF Custody, QueuedOnce
    <3>. QED
      BY <3>1, <3>2
  <2>. HIDE DEF TInv, TypeOK
  <2>9. UncreatedIsUnsent' /\ AckedIsNotStarted' /\ ExecutedAtMostOnce'
    BY <2>2, <2>4, <2>5 DEF Custody, UncreatedIsUnsent, AckedIsNotStarted, ExecutedAtMostOnce
  <2>10. UnwrittenIsUnknown'
    BY <2>2, <2>4, <2>6, <2>7 DEF Custody, UnwrittenIsUnknown
  <2>11. QueuedOnce'
    <3> SUFFICES ASSUME NEW m \in Conns, NEW l \in Conns,
                        NEW i \in 1 .. Len(down'[m]), NEW j \in 1 .. Len(down'[l]),
                        down'[m][i] \in Commands, down'[m][i] = down'[l][j]
                 PROVE  m = l /\ i = j
      BY DEF QueuedOnce
    <3>1. PICK a \in 1 .. Len(down[m]), b \in 1 .. Len(down[l]) :
              /\ down'[m][i] = down[m][a] /\ a = IF m = k THEN i + 1 ELSE i
              /\ down'[l][j] = down[l][b] /\ b = IF l = k THEN j + 1 ELSE j
      BY <2>7
    <3>2. down[m][a] \in Commands /\ down[m][a] = down[l][b]
      BY <3>1
    <3>3. m = l /\ a = b
      BY <3>2 DEF Custody, QueuedOnce
    <3>. QED
      BY <3>1, <3>3
  <2>12. QueuedIsNotStarted'
    BY <2>2, <2>4, <2>7, <2>8 DEF Custody, QueuedIsNotStarted
  <2>. QED
    BY <2>9, <2>10, <2>11, <2>12 DEF Custody
<1>15. ASSUME NEW k \in Conns, AgentStarts(k)
       PROVE  Custody'
  <2>1. PICK c \in Commands : c = agent.cmd
    BY <1>15 DEF AgentStarts, AgentAt, HandHoldsCommand
  <2>2. /\ agent.at = "acked"
        /\ agent' = [agent EXCEPT !.at = "running"]
        /\ starts' = [starts EXCEPT ![c] = @ + 1]
        /\ UNCHANGED <<exists, sender, down>>
    BY <1>15, <2>1 DEF AgentStarts, AgentAt, serverVars
  <2>3. agent'.cmd = c /\ agent'.at = "running"
    BY <2>1, <2>2
  <2>4. starts[c] = 0
    BY <2>1, <2>2 DEF Custody, AckedIsNotStarted
  <2>5. starts'[c] = 1 /\ \A d \in Commands : d # c => starts'[d] = starts[d]
    BY <2>2, <2>4
  <2>. HIDE DEF TInv, TypeOK
  <2>6. UncreatedIsUnsent' /\ AckedIsNotStarted' /\ QueuedOnce'
    BY <2>2, <2>3 DEF Custody, UncreatedIsUnsent, AckedIsNotStarted, QueuedOnce
  <2>7. UnwrittenIsUnknown'
    BY <2>1, <2>2, <2>3, <2>5 DEF Custody, UnwrittenIsUnknown
  <2>8. QueuedIsNotStarted'
    BY <2>1, <2>2, <2>3, <2>5 DEF Custody, QueuedIsNotStarted
  <2>9. ExecutedAtMostOnce'
    BY <2>5 DEF Custody, ExecutedAtMostOnce
  <2>. QED
    BY <2>6, <2>7, <2>8, <2>9 DEF Custody
<1>16. ASSUME NEW k \in Conns, AgentReports(k)
       PROVE  Custody'
  BY <1>16, <1>a, <1>0, CustodyKeptOnLoss DEF AgentReports, serverVars
<1>17. CASE AgentGoesOffline
  BY <1>17, <1>a, <1>0, CustodyKeptOnLoss DEF AgentGoesOffline, Offline, serverVars
<1>18. ASSUME NEW S \in SUBSET exists, Expire(S)
       PROVE  Custody'
  BY <1>18, <1>a, <1>0, CustodyKeptOnLoss DEF Expire, wireVars, agentVars
<1>19. CASE ServerRestarts
  BY <1>19, <1>a, <1>0, CustodyKeptOnLoss DEF ServerRestarts, InFlight, agentVars
<1>20. CASE UNCHANGED vars
  BY <1>20, <1>a, <1>0, CustodyKeptOnLoss DEF vars, serverVars, wireVars, agentVars
<1>21. ASSUME NEW k \in Conns, DisconnectAgent(k)
       PROVE  Custody'
  BY <1>21, <1>a, <1>0, CustodyKeptOnLoss DEF DisconnectAgent, wireVars, agentVars
<1>22. ASSUME NEW c \in Commands, CreateRaises(c)
       PROVE  Custody'
  <2>1. /\ sender[c] = "none"
        /\ \A d \in Commands : sender'[d] \in {"none", "sending"} => sender[d] \in {"none", "sending"}
        /\ \A d \in Commands : d \notin exists' => sender'[d] = "none"
    BY <1>22, <1>a DEF CreateRaises
  <2>2. UNCHANGED <<down, starts, agent>>
    BY <1>22 DEF CreateRaises, wireVars, agentVars
  <2> HIDE DEF TInv, TypeOK
  <2>3. UncreatedIsUnsent'
    BY <2>1 DEF UncreatedIsUnsent
  <2>4. UnwrittenIsUnknown'
    BY <2>1, <2>2 DEF Custody, UnwrittenIsUnknown
  <2>5. QueuedOnce' /\ QueuedIsNotStarted'
    BY <2>2 DEF Custody, QueuedOnce, QueuedIsNotStarted
  <2>6. AckedIsNotStarted' /\ ExecutedAtMostOnce'
    BY <2>2 DEF Custody, AckedIsNotStarted, ExecutedAtMostOnce
  <2>. QED
    BY <2>3, <2>4, <2>5, <2>6 DEF Custody
<1>23. ASSUME NEW c \in Commands, RecordRaises(c)
       PROVE  Custody'
  BY <1>23, <1>a, <1>0, CustodyKeptOnLoss DEF RecordRaises, Ends, wireVars, agentVars
<1>. QED
  BY <1>1, <1>2, <1>3, <1>4, <1>5, <1>6, <1>7, <1>8, <1>9, <1>10, <1>11, <1>12,
     <1>13, <1>14, <1>15, <1>16, <1>17, <1>18, <1>19, <1>20, <1>21, <1>22, <1>23 DEF Next

-----------------------------------------------------------------------------
(***************************************************************************)
(* Truth of the results                                                     *)
(***************************************************************************)

\* Only mark_command_result makes a row say success or failed.
LEMMA OnlyResultsSucceed ==
    ASSUME NEW row \in Row
    PROVE  /\ MarkSent(row).status \notin {"success", "failed"}
           /\ MarkSendFailed(row).status \in {"success", "failed"}
              => MarkSendFailed(row).status = row.status
           /\ MarkAcknowledged(row).status \in {"success", "failed"}
              => MarkAcknowledged(row).status = row.status
           /\ MarkRunning(row).status \in {"success", "failed"}
              => MarkRunning(row).status = row.status
           /\ \A s \in {"success", "failed"} :
                 MarkResult(row, s).status \in {row.status, s}
           /\ ExpireRow(row).status \notin {"success", "failed"}
BY DEF Row, MarkSent, MarkSendFailed, MarkAcknowledged, MarkRunning, MarkResult, ExpireRow

LEMMA HandledSucceeds ==
    ASSUME NEW row \in Row, NEW report \in Report,
           Handled(row, report).status \in {"success", "failed"}
    PROVE  \/ Handled(row, report).status = row.status
           \/ /\ report.kind \in {"success", "failed"}
              /\ Handled(row, report).status = report.kind
<1>1. report.kind \in {"ack", "running", "success", "failed"}
  BY DEF Report
<1>. QED
  BY <1>1, OnlyResultsSucceed DEF Handled

\* A step that records no result, starts nothing and sends no result keeps
\* the truth; reports may be read or lost.
LEMMA TruthKept ==
    ASSUME TInv, TInv', Truth,
           outcome' = outcome,
           starts' = starts,
           \A c \in exists' : rows'[c].status \in {"success", "failed"}
                             => c \in exists /\ rows'[c].status = rows[c].status,
           \A k \in Conns : \A i \in 1 .. Len(up'[k]) :
              \/ up'[k][i].kind \in {"ack", "running"}
              \/ \E j \in 1 .. Len(up[k]) : up'[k][i] = up[k][j]
    PROVE  Truth'
<1>1. OutcomeIfStarted'
  BY DEF Truth, OutcomeIfStarted
<1>2. ReportsAreTrue'
  <2> SUFFICES ASSUME NEW k \in Conns, NEW i \in 1 .. Len(up'[k]),
                      up'[k][i].kind \in {"success", "failed"}
               PROVE  outcome'[up'[k][i].cmd] = up'[k][i].kind
    BY DEF ReportsAreTrue
  <2>1. PICK j \in 1 .. Len(up[k]) : up'[k][i] = up[k][j]
    OBVIOUS
  <2>. QED
    BY <2>1 DEF Truth, ReportsAreTrue
<1>3. ResultIsTrue'
  BY DEF Truth, ResultIsTrue
<1>. QED
  BY <1>1, <1>2, <1>3 DEF Truth

LEMMA TruthStep == TInv /\ Custody /\ Truth /\ [Next]_vars => Truth'
<1> SUFFICES ASSUME TInv, Custody, Truth, [Next]_vars
             PROVE  Truth'
  OBVIOUS
<1>0. TInv'
  BY TypeStep
<1> USE ConstantsAssumption DEF TInv, TypeOK
<1>1. ASSUME NEW c \in Commands, CreateCommand(c)
      PROVE  Truth'
  <2>1. rows'[c].status \in {"pending", "send_failed"}
    <3>1. rows'[c] \in {NewRow, MarkSendFailed(NewRow)}
      BY <1>1 DEF CreateCommand
    <3>2. /\ NewRow.status = "pending"
          /\ MarkSendFailed(NewRow).status = "send_failed"
      BY DEF NewRow, MarkSendFailed
    <3>. QED
      BY <3>1, <3>2
  <2>2. \A d \in exists' : d # c => d \in exists /\ rows'[d] = rows[d]
    BY <1>1 DEF CreateCommand
  <2>3. UNCHANGED <<up, starts, outcome>>
    BY <1>1 DEF CreateCommand, wireVars, agentVars
  <2>. QED
    BY <1>0, <2>1, <2>2, <2>3, TruthKept
<1>2. ASSUME NEW c \in Commands, WriteCommand(c)
      PROVE  Truth'
  BY <1>0, <1>2, TruthKept DEF WriteCommand, agentVars
<1>3. ASSUME NEW c \in Commands, SendReturns(c)
      PROVE  Truth'
  BY <1>0, <1>3, OnlyResultsSucceed, TruthKept DEF SendReturns, Ends, wireVars, agentVars
<1>4. ASSUME NEW c \in Commands, SendFails(c)
      PROVE  Truth'
  BY <1>0, <1>4, TruthKept DEF SendFails, wireVars, agentVars
<1>5. ASSUME NEW c \in Commands, CloseReturns(c)
      PROVE  Truth'
  BY <1>0, <1>5, OnlyResultsSucceed, TruthKept DEF CloseReturns, Ends, wireVars, agentVars
<1>6. ASSUME NEW c \in Commands, ExecutionEnds(c)
      PROVE  Truth'
  <2>1. PICK o \in {"success", "failed"} : outcome' = [outcome EXCEPT ![c] = o]
    BY <1>6 DEF ExecutionEnds
  <2>2. outcome[c] = "executing" /\ UNCHANGED <<exists, rows, up, starts>>
    BY <1>6 DEF ExecutionEnds, serverVars, wireVars
  <2>3. OutcomeIfStarted'
    BY <2>1, <2>2 DEF Truth, OutcomeIfStarted
  <2>4. ReportsAreTrue'
    BY <2>1, <2>2 DEF Truth, ReportsAreTrue
  <2>5. ResultIsTrue'
    BY <2>1, <2>2 DEF Truth, ResultIsTrue
  <2>. QED
    BY <2>3, <2>4, <2>5 DEF Truth
<1>7. ASSUME NEW k \in Conns, Connect(k)
      PROVE  Truth'
  BY <1>0, <1>7, TruthKept DEF Connect, wireVars
<1>8. ASSUME NEW k \in Conns, Greet(k)
      PROVE  Truth'
  BY <1>0, <1>8, TruthKept DEF Greet, agentVars
<1>9. ASSUME NEW k \in Conns, GreetFails(k)
      PROVE  Truth'
  BY <1>0, <1>9, TruthKept DEF GreetFails, wireVars, agentVars
<1>10. ASSUME NEW k \in Conns, ServerReceives(k)
       PROVE  Truth'
  <2>1. /\ up[k] # <<>>
        /\ rows' = [rows EXCEPT ![Head(up[k]).cmd] = Handled(@, Head(up[k]))]
        /\ up' = [up EXCEPT ![k] = Tail(@)]
        /\ UNCHANGED <<exists, starts, outcome>>
    BY <1>10 DEF ServerReceives, agentVars
  <2>2. PICK report \in Report : report = Head(up[k]) /\ 1 \in 1 .. Len(up[k]) /\ report = up[k][1]
    BY <2>1
  <2>3. report.cmd \in Commands
    BY DEF Report
  <2>4. \A l \in Conns : \A i \in 1 .. Len(up'[l]) : \E j \in 1 .. Len(up[l]) : up'[l][i] = up[l][j]
    <3> SUFFICES ASSUME NEW l \in Conns, NEW i \in 1 .. Len(up'[l])
                 PROVE  \E j \in 1 .. Len(up[l]) : up'[l][i] = up[l][j]
      OBVIOUS
    <3>1. CASE l = k
      <4>1. i + 1 \in 1 .. Len(up[k]) /\ up'[k][i] = up[k][i + 1]
        BY <2>1, <3>1
      <4>. QED
        BY <3>1, <4>1
    <3>2. CASE l # k
      BY <2>1, <3>2
    <3>. QED
      BY <3>1, <3>2
  <2>5. ReportsAreTrue'
    <3> SUFFICES ASSUME NEW l \in Conns, NEW i \in 1 .. Len(up'[l]),
                        up'[l][i].kind \in {"success", "failed"}
                 PROVE  outcome'[up'[l][i].cmd] = up'[l][i].kind
      BY DEF ReportsAreTrue
    <3>1. PICK j \in 1 .. Len(up[l]) : up'[l][i] = up[l][j]
      BY <2>4
    <3>. QED
      BY <2>1, <3>1 DEF Truth, ReportsAreTrue
  <2>6. report.kind \in {"success", "failed"} => outcome[report.cmd] = report.kind
    BY <2>2 DEF Truth, ReportsAreTrue
  <2>7. rows'[report.cmd] = Handled(rows[report.cmd], report)
    BY <2>1, <2>2, <2>3
  <2>8. ResultIsTrue'
    <3> SUFFICES ASSUME NEW c \in exists, rows'[c].status \in {"success", "failed"}
                 PROVE  outcome[c] = rows'[c].status
      BY <2>1 DEF ResultIsTrue
    <3>1. CASE c = report.cmd
      <4>1. \/ rows'[c].status = rows[c].status
            \/ report.kind \in {"success", "failed"} /\ rows'[c].status = report.kind
        BY <2>7, <3>1, HandledSucceeds
      <4>. QED
        BY <2>6, <3>1, <4>1 DEF Truth, ResultIsTrue
    <3>2. CASE c # report.cmd
      BY <2>1, <2>2, <3>2 DEF Truth, ResultIsTrue
    <3>. QED
      BY <3>1, <3>2
  <2>9. OutcomeIfStarted'
    BY <2>1 DEF Truth, OutcomeIfStarted
  <2>. QED
    BY <2>5, <2>8, <2>9 DEF Truth
<1>11. ASSUME NEW k \in Conns, HandlerEnds(k)
      PROVE  Truth'
  BY <1>0, <1>11, TruthKept DEF HandlerEnds, agentVars
<1>12. ASSUME NEW k \in Conns, CloseSocket(k)
       PROVE  Truth'
  BY <1>0, <1>12, TruthKept DEF CloseSocket, serverVars, agentVars
<1>13. ASSUME NEW k \in Conns, AgentAuthenticates(k)
       PROVE  Truth'
  <2>1. UNCHANGED <<exists, rows, up, starts, outcome>>
    BY <1>13 DEF AgentAuthenticates, serverVars
  <2>. QED
    BY <1>0, <2>1, TruthKept
<1>14. ASSUME NEW k \in Conns, AgentAcknowledges(k)
       PROVE  Truth'
  <2>1. PICK r \in Report : r.kind = "ack" /\ Sends(k, r)
    BY <1>14 DEF AgentAcknowledges, Report
  <2>2. \A l \in Conns : \A i \in 1 .. Len(up'[l]) :
           \/ up'[l][i].kind \in {"ack", "running"}
           \/ i \in 1 .. Len(up[l]) /\ up'[l][i] = up[l][i]
    BY <2>1, SendsAppends
  <2>3. UNCHANGED <<exists, rows, starts, outcome>>
    BY <1>14 DEF AgentAcknowledges, serverVars
  <2>. QED
    BY <1>0, <2>2, <2>3, TruthKept
<1>15. ASSUME NEW k \in Conns, AgentStarts(k)
       PROVE  Truth'
  <2>1. PICK c \in Commands : c = agent.cmd
    BY <1>15 DEF AgentStarts, AgentAt, HandHoldsCommand
  <2>2. outcome[c] = "none"
    BY <1>15, <2>1 DEF AgentStarts, AgentAt, Custody, AckedIsNotStarted, Truth, OutcomeIfStarted
  <2>3. /\ starts' = [starts EXCEPT ![c] = @ + 1]
        /\ outcome' = [outcome EXCEPT ![c] = "executing"]
        /\ UNCHANGED <<exists, rows>>
    BY <1>15, <2>1 DEF AgentStarts, serverVars
  <2>4. PICK r \in Report : r.kind = "running" /\ Sends(k, r)
    BY <1>15, <2>1 DEF AgentStarts, Report
  <2>5. \A l \in Conns : \A i \in 1 .. Len(up'[l]) :
           \/ up'[l][i].kind \in {"ack", "running"}
           \/ i \in 1 .. Len(up[l]) /\ up'[l][i] = up[l][i]
    BY <2>4, SendsAppends
  <2>6. OutcomeIfStarted'
    <3>1. starts'[c] # 0 /\ outcome'[c] = "executing"
      BY <2>3
    <3>2. \A d \in Commands \ {c} : starts'[d] = starts[d] /\ outcome'[d] = outcome[d]
      BY <2>3
    <3>. QED
      BY <3>1, <3>2 DEF Truth, OutcomeIfStarted
  <2>7. ReportsAreTrue'
    <3> SUFFICES ASSUME NEW l \in Conns, NEW i \in 1 .. Len(up'[l]),
                        up'[l][i].kind \in {"success", "failed"}
                 PROVE  outcome'[up'[l][i].cmd] = up'[l][i].kind
      BY DEF ReportsAreTrue
    <3>1. PICK j \in 1 .. Len(up[l]) : up'[l][i] = up[l][j]
      BY <2>5
    <3>2. outcome[up[l][j].cmd] = up[l][j].kind
      BY <3>1 DEF Truth, ReportsAreTrue
    <3>3. up[l][j] \in Report /\ up[l][j].kind \in {"success", "failed"}
      BY <3>1
    <3>4. up[l][j].cmd \in Commands /\ up[l][j].cmd # c
      BY <2>2, <3>2, <3>3 DEF Report
    <3>5. outcome'[up[l][j].cmd] = outcome[up[l][j].cmd]
      BY <2>3, <3>4
    <3>. QED
      BY <3>1, <3>2, <3>5
  <2>8. ResultIsTrue'
    BY <2>2, <2>3 DEF Truth, ResultIsTrue
  <2>. QED
    BY <2>6, <2>7, <2>8 DEF Truth
<1>16. ASSUME NEW k \in Conns, AgentReports(k)
       PROVE  Truth'
  <2>1. PICK c \in Commands : c = agent.cmd
    BY <1>16 DEF AgentReports, AgentAt, HandHoldsCommand
  <2>2. PICK r \in Report : /\ r.cmd = c /\ r.kind = outcome[c]
                            /\ Sends(k, r)
    BY <1>16, <2>1 DEF AgentReports, Report
  <2>3. \A l \in Conns : \A i \in 1 .. Len(up'[l]) :
           \/ up'[l][i] = r
           \/ i \in 1 .. Len(up[l]) /\ up'[l][i] = up[l][i]
    BY <2>2, SendsAppends
  <2>4. UNCHANGED <<exists, rows, starts, outcome>>
    BY <1>16 DEF AgentReports, serverVars
  <2>5. ReportsAreTrue'
    <3> SUFFICES ASSUME NEW l \in Conns, NEW i \in 1 .. Len(up'[l]),
                        up'[l][i].kind \in {"success", "failed"}
                 PROVE  outcome'[up'[l][i].cmd] = up'[l][i].kind
      BY DEF ReportsAreTrue
    <3>1. CASE up'[l][i] = r
      BY <2>2, <2>4, <3>1
    <3>2. CASE i \in 1 .. Len(up[l]) /\ up'[l][i] = up[l][i]
      BY <2>4, <3>2 DEF Truth, ReportsAreTrue
    <3>. QED
      BY <2>3, <3>1, <3>2
  <2>. QED
    BY <2>4, <2>5 DEF Truth, OutcomeIfStarted, ResultIsTrue
<1>17. CASE AgentGoesOffline
  BY <1>0, <1>17, TruthKept DEF AgentGoesOffline, serverVars
<1>18. ASSUME NEW S \in SUBSET exists, Expire(S)
       PROVE  Truth'
  <2>1. \A c \in exists : rows'[c].status \in {"success", "failed"} => rows'[c] = rows[c]
    BY <1>18, OnlyResultsSucceed DEF Expire
  <2>2. UNCHANGED <<exists, up, starts, outcome>>
    BY <1>18 DEF Expire, wireVars, agentVars
  <2>. QED
    BY <1>0, <2>1, <2>2, TruthKept
<1>19. CASE ServerRestarts
  BY <1>0, <1>19, TruthKept DEF ServerRestarts, agentVars
<1>20. CASE UNCHANGED vars
  BY <1>0, <1>20, TruthKept DEF vars, serverVars, wireVars, agentVars
<1>21. ASSUME NEW k \in Conns, DisconnectAgent(k)
       PROVE  Truth'
  BY <1>0, <1>21, TruthKept DEF DisconnectAgent, wireVars, agentVars
<1>22. ASSUME NEW c \in Commands, CreateRaises(c)
       PROVE  Truth'
  <2>1. rows'[c].status = "pending"
    BY <1>22 DEF CreateRaises, NewRow
  <2>2. \A d \in exists' : d # c => d \in exists /\ rows'[d] = rows[d]
    BY <1>22 DEF CreateRaises
  <2>3. UNCHANGED <<up, starts, outcome>>
    BY <1>22 DEF CreateRaises, wireVars, agentVars
  <2>. QED
    BY <1>0, <2>1, <2>2, <2>3, TruthKept
<1>23. ASSUME NEW c \in Commands, RecordRaises(c)
       PROVE  Truth'
  BY <1>0, <1>23, TruthKept DEF RecordRaises, Ends, wireVars, agentVars
<1>. QED
  BY <1>1, <1>2, <1>3, <1>4, <1>5, <1>6, <1>7, <1>8, <1>9, <1>10, <1>11, <1>12,
     <1>13, <1>14, <1>15, <1>16, <1>17, <1>18, <1>19, <1>20, <1>21, <1>22, <1>23 DEF Next

-----------------------------------------------------------------------------
(***************************************************************************)
(* The theorems                                                             *)
(***************************************************************************)

LEMMA InvInit == Init => Custody /\ Truth
BY ConstantsAssumption
   DEF Init, Offline, Custody, UncreatedIsUnsent, UnwrittenIsUnknown, QueuedOnce,
       QueuedIsNotStarted, AckedIsNotStarted, ExecutedAtMostOnce, Truth,
       OutcomeIfStarted, ReportsAreTrue, ResultIsTrue

LEMMA Invariant == Spec => [](TInv /\ Custody /\ Truth)
<1>1. Init => TInv /\ Custody /\ Truth
  BY TypeInit, InvInit
<1>2. TInv /\ Custody /\ Truth /\ [Next]_vars => (TInv /\ Custody /\ Truth)'
  BY TypeStep, CustodyStep, TruthStep
<1>. QED
  BY <1>1, <1>2, PTL DEF Spec

\* No command is executed twice, whatever is lost, retried or restarted.
THEOREM AtMostOnce == Spec => []ExecutedAtMostOnce
<1>1. TInv /\ Custody /\ Truth => ExecutedAtMostOnce
  BY DEF Custody
<1>. QED
  BY <1>1, Invariant, PTL

\* A row never claims a result the container operation did not have.
THEOREM ResultsAreTrue == Spec => []ResultIsTrue
<1>1. TInv /\ Custody /\ Truth => ResultIsTrue
  BY DEF Truth
<1>. QED
  BY <1>1, Invariant, PTL

\* After its coroutine a final status is final, in every behavior.
THEOREM FinalStays == Spec => FinalAfterDelivery
<1>1. ASSUME TInv, [Next]_vars, NEW c \in exists,
             sender[c] \notin InFlight, rows[c].status \in FinalStatus
      PROVE  rows'[c] = rows[c]
  <2> USE <1>1 DEF TInv, TypeOK
  <2>a. c \in Commands /\ rows[c] \in Row
    OBVIOUS
  <2>b. \A s \in FinalStatus : s \notin OpenStatus
    BY DEF FinalStatus, OpenStatus
  <2>c. ASSUME NEW report \in Report
        PROVE  Handled(rows[c], report) = rows[c]
    BY <2>b DEF Handled, MarkAcknowledged, MarkRunning, MarkResult, OpenStatus
  <2>1. ASSUME NEW d \in Commands, CreateCommand(d) \/ CreateRaises(d)
        PROVE  rows'[c] = rows[c]
    BY <2>1 DEF CreateCommand, CreateRaises
  <2>2. ASSUME NEW d \in Commands, SendReturns(d) \/ CloseReturns(d)
        PROVE  rows'[c] = rows[c]
    BY <2>2, <2>a DEF SendReturns, CloseReturns, InFlight
  <2>3. ASSUME NEW k \in Conns, ServerReceives(k)
        PROVE  rows'[c] = rows[c]
    <3>1. Head(up[k]) \in Report
      BY <2>3 DEF ServerReceives
    <3>. QED
      BY <2>3, <2>a, <2>c, <3>1 DEF ServerReceives
  <2>4. ASSUME NEW S \in SUBSET exists, Expire(S)
        PROVE  rows'[c] = rows[c]
    BY <2>4, <2>a, <2>b DEF Expire
  <2>5. ASSUME NEW d \in Commands,
               WriteCommand(d) \/ SendFails(d) \/ RecordRaises(d) \/ ExecutionEnds(d)
        PROVE  rows'[c] = rows[c]
    BY <2>5 DEF WriteCommand, SendFails, RecordRaises, ExecutionEnds, serverVars
  <2>6. ASSUME NEW k \in Conns,
               \/ Connect(k) \/ Greet(k) \/ GreetFails(k) \/ HandlerEnds(k) \/ CloseSocket(k)
               \/ DisconnectAgent(k)
        PROVE  rows'[c] = rows[c]
    BY <2>6 DEF Connect, Greet, GreetFails, HandlerEnds, CloseSocket, DisconnectAgent, serverVars
  <2>7. ASSUME NEW k \in Conns,
               \/ AgentAuthenticates(k) \/ AgentAcknowledges(k)
               \/ AgentStarts(k) \/ AgentReports(k)
        PROVE  rows'[c] = rows[c]
    BY <2>7 DEF AgentAuthenticates, AgentAcknowledges, AgentStarts, AgentReports, serverVars
  <2>8. CASE AgentGoesOffline \/ ServerRestarts \/ UNCHANGED vars
    BY <2>8 DEF AgentGoesOffline, ServerRestarts, vars, serverVars
  <2>. QED
    BY <2>1, <2>2, <2>3, <2>4, <2>5, <2>6, <2>7, <2>8 DEF Next
<1>2. TInv /\ [Next]_vars
      => [\A c \in exists : sender[c] \notin InFlight /\ rows[c].status \in FinalStatus
                           => rows'[c] = rows[c]]_vars
  BY <1>1
<1>3. Spec => []TInv
  BY TypeInit, TypeStep, PTL DEF Spec
<1>. QED
  BY <1>2, <1>3, PTL DEF Spec, FinalAfterDelivery

\* Every statement keeps what a row says about its acknowledgement.
UnackedIfUndelivered(row) ==
    row.status \in {"pending", "send_failed"} => ~ row.acked

LEMMA RowsKeepAcks ==
    ASSUME NEW row \in Row, UnackedIfUndelivered(row)
    PROVE  /\ UnackedIfUndelivered(NewRow)
           /\ UnackedIfUndelivered(MarkSendFailed(NewRow))
           /\ UnackedIfUndelivered(MarkSent(row))
           /\ UnackedIfUndelivered(MarkSendFailed(row))
           /\ \A report \in Report : UnackedIfUndelivered(Handled(row, report))
           /\ UnackedIfUndelivered(ExpireRow(row))
<1> USE DEF UnackedIfUndelivered, Row
<1>1. ASSUME NEW report \in Report
      PROVE  UnackedIfUndelivered(Handled(row, report))
  <2>1. report.kind \in {"ack", "running", "success", "failed"}
    BY DEF Report
  <2>. QED
    BY <2>1 DEF Handled, MarkAcknowledged, MarkRunning, MarkResult
<1>. QED
  BY <1>1 DEF NewRow, MarkSent, MarkSendFailed, ExpireRow

\* A row that says send_failed was never acknowledged, in every behavior: the
\* inductive form says the same of pending rows.
THEOREM SendFailedRows == Spec => []SendFailedUnacknowledged
<1> DEFINE Acks == \A c \in Commands : UnackedIfUndelivered(rows[c])
<1>1. Init => Acks
  BY DEF Init, NewRow, UnackedIfUndelivered
<1>2. TInv /\ Acks /\ [Next]_vars => Acks'
  <2> SUFFICES ASSUME TInv, Acks, [Next]_vars, NEW c \in Commands
               PROVE  UnackedIfUndelivered(rows'[c])
    BY DEF UnackedIfUndelivered
  <2> USE DEF TInv, TypeOK
  <2>a. rows[c] \in Row /\ UnackedIfUndelivered(rows[c])
    OBVIOUS
  <2>b. /\ UnackedIfUndelivered(NewRow)
        /\ UnackedIfUndelivered(MarkSendFailed(NewRow))
        /\ UnackedIfUndelivered(MarkSent(rows[c]))
        /\ UnackedIfUndelivered(MarkSendFailed(rows[c]))
        /\ \A report \in Report : UnackedIfUndelivered(Handled(rows[c], report))
        /\ UnackedIfUndelivered(ExpireRow(rows[c]))
    BY <2>a, RowsKeepAcks
  <2>1. ASSUME NEW d \in Commands, CreateCommand(d) \/ CreateRaises(d)
        PROVE  rows'[c] \in {rows[c], NewRow, MarkSendFailed(NewRow)}
    BY <2>1 DEF CreateCommand, CreateRaises
  <2>2. ASSUME NEW d \in Commands, SendReturns(d) \/ CloseReturns(d)
        PROVE  rows'[c] \in {rows[c], MarkSent(rows[c]), MarkSendFailed(rows[c])}
    BY <2>2 DEF SendReturns, CloseReturns
  <2>3. ASSUME NEW k \in Conns, ServerReceives(k)
        PROVE  \E report \in Report : rows'[c] \in {rows[c], Handled(rows[c], report)}
    <3>1. Head(up[k]) \in Report
      BY <2>3 DEF ServerReceives
    <3>2. rows'[c] \in {rows[c], Handled(rows[c], Head(up[k]))}
      BY <2>3 DEF ServerReceives
    <3>. QED
      BY <3>1, <3>2
  <2>4. ASSUME NEW S \in SUBSET exists, Expire(S)
        PROVE  rows'[c] \in {rows[c], ExpireRow(rows[c])}
    BY <2>4 DEF Expire
  <2>5. ASSUME NEW d \in Commands,
               WriteCommand(d) \/ SendFails(d) \/ RecordRaises(d) \/ ExecutionEnds(d)
        PROVE  rows' = rows
    BY <2>5 DEF WriteCommand, SendFails, RecordRaises, ExecutionEnds, serverVars
  <2>6. ASSUME NEW k \in Conns,
               \/ Connect(k) \/ Greet(k) \/ GreetFails(k) \/ HandlerEnds(k) \/ CloseSocket(k)
               \/ DisconnectAgent(k) \/ AgentAuthenticates(k) \/ AgentAcknowledges(k)
               \/ AgentStarts(k) \/ AgentReports(k)
        PROVE  rows' = rows
    BY <2>6 DEF Connect, Greet, GreetFails, HandlerEnds, CloseSocket, DisconnectAgent,
                AgentAuthenticates, AgentAcknowledges, AgentStarts, AgentReports, serverVars
  <2>7. CASE AgentGoesOffline \/ ServerRestarts \/ UNCHANGED vars
    BY <2>7, <2>a DEF AgentGoesOffline, ServerRestarts, vars, serverVars
  <2>8. ASSUME NEW row, UnackedIfUndelivered(row), rows'[c] = row
        PROVE  UnackedIfUndelivered(rows'[c])
    BY <2>8
  <2> HIDE DEF TInv, TypeOK, Acks
  <2>9. ASSUME rows' = rows
        PROVE  UnackedIfUndelivered(rows'[c])
    BY <2>a, <2>9
  <2>10. ASSUME NEW d \in Commands,
                \/ CreateCommand(d) \/ CreateRaises(d)
                \/ SendReturns(d) \/ CloseReturns(d)
         PROVE  UnackedIfUndelivered(rows'[c])
    BY <2>a, <2>b, <2>1, <2>2, <2>8, <2>10
  <2>11. ASSUME NEW k \in Conns, ServerReceives(k)
         PROVE  UnackedIfUndelivered(rows'[c])
    BY <2>a, <2>b, <2>3, <2>8, <2>11
  <2>12. ASSUME NEW S \in SUBSET exists, Expire(S)
         PROVE  UnackedIfUndelivered(rows'[c])
    BY <2>a, <2>b, <2>4, <2>8, <2>12
  <2>. QED
    BY <2>5, <2>6, <2>7, <2>9, <2>10, <2>11, <2>12 DEF Next
<1>3. TInv /\ Acks => SendFailedUnacknowledged
  BY DEF TInv, TypeOK, SendFailedUnacknowledged, UnackedIfUndelivered
<1> HIDE DEF Acks
<1>. QED
  BY <1>1, <1>2, <1>3, TypeInit, TypeStep, PTL DEF Spec

\* A live connection leaves the hub only through a failed send on itself, an
\* administrator or a restart, in every behavior.
THEOREM ServedStays == Spec => ServedStaysRegistered
<1>1. ASSUME TInv, [Next]_vars, NEW k \in Conns, hub = k, hub' # k,
             handler'[k] \in {"greeting", "serving"}, socket'[k] = "open"
      PROVE  \/ DisconnectAgent(k)
             \/ \E c \in Commands :
                   /\ target[c] = k
                   /\ sender[c] # "closing" /\ sender'[c] = "closing"
  <2> USE <1>1, ConstantsAssumption DEF TInv, TypeOK
  <2>1. ASSUME NEW c \in Commands, SendFails(c)
        PROVE  target[c] = k /\ sender[c] # "closing" /\ sender'[c] = "closing"
    BY <2>1 DEF SendFails
  <2>2. ASSUME NEW c \in Commands,
               \/ CreateCommand(c) \/ CreateRaises(c) \/ WriteCommand(c) \/ SendReturns(c)
               \/ CloseReturns(c) \/ RecordRaises(c) \/ ExecutionEnds(c)
        PROVE  FALSE
    BY <2>2 DEF CreateCommand, CreateRaises, WriteCommand, SendReturns, CloseReturns,
                RecordRaises, ExecutionEnds, serverVars
  <2>3. ASSUME NEW l \in Conns, DisconnectAgent(l)
        PROVE  DisconnectAgent(k)
    BY <2>3 DEF DisconnectAgent
  <2>4. ASSUME NEW l \in Conns, HandlerEnds(l)
        PROVE  FALSE
    BY <2>4 DEF HandlerEnds
  <2>5. ASSUME NEW l \in Conns,
               \/ Connect(l) \/ Greet(l) \/ GreetFails(l) \/ ServerReceives(l) \/ CloseSocket(l)
               \/ AgentAuthenticates(l) \/ AgentAcknowledges(l)
               \/ AgentStarts(l) \/ AgentReports(l)
        PROVE  FALSE
    BY <2>5 DEF Connect, Greet, GreetFails, ServerReceives, CloseSocket,
                AgentAuthenticates, AgentAcknowledges, AgentStarts, AgentReports, serverVars
  <2>6. CASE ServerRestarts
    BY <2>6 DEF ServerRestarts
  <2>7. ASSUME AgentGoesOffline \/ UNCHANGED vars \/ \E S \in SUBSET exists : Expire(S)
        PROVE  FALSE
    BY <2>7 DEF AgentGoesOffline, Expire, vars, serverVars
  <2>. QED
    BY <2>1, <2>2, <2>3, <2>4, <2>5, <2>6, <2>7 DEF Next
<1>2. TInv /\ [Next]_vars
      => [\A k \in Conns :
             /\ hub = k /\ hub' # k
             /\ handler'[k] \in {"greeting", "serving"} /\ socket'[k] = "open"
             => \/ DisconnectAgent(k)
                \/ \E c \in Commands :
                      /\ target[c] = k
                      /\ sender[c] # "closing" /\ sender'[c] = "closing"]_vars
  BY <1>1
<1>3. Spec => []TInv
  BY TypeInit, TypeStep, PTL DEF Spec
<1>. QED
  BY <1>2, <1>3, PTL DEF Spec, ServedStaysRegistered

-----------------------------------------------------------------------------
(***************************************************************************)
(* CommandFlow implements CommandLifecycle: first, that reports name rows   *)
(* that exist.                                                              *)
(***************************************************************************)

\* Reports are about commands that have a row.
ReportsNameRows ==
    \A k \in Conns : \A i \in 1 .. Len(up[k]) : up[k][i].cmd \in exists

LEMMA NamesKept ==
    ASSUME ReportsNameRows,
           exists \subseteq exists',
           \A k \in Conns : \A i \in 1 .. Len(up'[k]) :
              \/ up'[k][i].cmd \in exists
              \/ \E j \in 1 .. Len(up[k]) : up'[k][i] = up[k][j]
    PROVE  ReportsNameRows'
BY DEF ReportsNameRows

\* What the agent has received was created.
LEMMA KnownIsCreated ==
    ASSUME TInv, Custody
    PROVE  /\ \A k \in Conns : down[k] # <<>> /\ Head(down[k]) \in Commands
                               => Head(down[k]) \in exists
           /\ agent.cmd \in Commands => agent.cmd \in exists
<1>1. \A c \in Commands : c \notin exists => sender[c] = "none"
  BY DEF Custody, UncreatedIsUnsent
<1>2. agent.cmd \in Commands => agent.cmd \in exists
  BY <1>1 DEF Custody, UnwrittenIsUnknown
<1>3. ASSUME NEW k \in Conns, down[k] # <<>>, Head(down[k]) \in Commands
      PROVE  Head(down[k]) \in exists
  <2>1. 1 \in 1 .. Len(down[k]) /\ down[k][1] = Head(down[k])
    BY <1>3 DEF TInv, TypeOK
  <2>. QED
    BY <1>1, <1>3, <2>1 DEF Custody, UnwrittenIsUnknown
<1>. QED
  BY <1>2, <1>3

LEMMA NamesStep == TInv /\ Custody /\ ReportsNameRows /\ [Next]_vars => ReportsNameRows'
<1> SUFFICES ASSUME TInv, Custody, ReportsNameRows, [Next]_vars
             PROVE  ReportsNameRows'
  OBVIOUS
<1> USE DEF TInv, TypeOK
<1>1. ASSUME NEW c \in Commands, CreateCommand(c) \/ CreateRaises(c)
      PROVE  ReportsNameRows'
  BY <1>1, NamesKept DEF CreateCommand, CreateRaises, wireVars
<1>2. ASSUME NEW c \in Commands,
             \/ WriteCommand(c) \/ SendReturns(c) \/ SendFails(c)
             \/ CloseReturns(c) \/ RecordRaises(c) \/ ExecutionEnds(c)
      PROVE  ReportsNameRows'
  <2>1. UNCHANGED <<exists, up>>
    BY <1>2 DEF WriteCommand, SendReturns, SendFails, CloseReturns, RecordRaises, ExecutionEnds,
                serverVars, wireVars
  <2>. QED
    BY <2>1, NamesKept
<1>3. ASSUME NEW k \in Conns,
             \/ Connect(k) \/ Greet(k) \/ GreetFails(k) \/ CloseSocket(k)
             \/ DisconnectAgent(k) \/ AgentAuthenticates(k)
      PROVE  ReportsNameRows'
  <2>1. UNCHANGED <<exists, up>>
    BY <1>3 DEF Connect, Greet, GreetFails, CloseSocket, DisconnectAgent, AgentAuthenticates,
                serverVars, wireVars
  <2>. QED
    BY <2>1, NamesKept
<1>4. ASSUME NEW k \in Conns, ServerReceives(k)
      PROVE  ReportsNameRows'
  <2>1. /\ up[k] # <<>> /\ up' = [up EXCEPT ![k] = Tail(@)]
        /\ exists' = exists
    BY <1>4 DEF ServerReceives
  <2>2. ASSUME NEW l \in Conns, NEW i \in 1 .. Len(up'[l])
        PROVE  \E j \in 1 .. Len(up[l]) : up'[l][i] = up[l][j]
    <3>1. CASE l = k
      <4>1. up'[k] = Tail(up[k]) /\ i \in 1 .. Len(up'[k])
        BY <2>1, <2>2, <3>1
      <4>2. up[k] \in Seq(Report) /\ up[k] # <<>>
        BY <2>1
      <4>3. i + 1 \in 1 .. Len(up[k]) /\ up'[k][i] = up[k][i + 1]
        BY <4>1, <4>2
      <4>. QED
        BY <3>1, <4>3
    <3>2. CASE l # k
      BY <2>1, <2>2, <3>2
    <3>. QED
      BY <3>1, <3>2
  <2> HIDE DEF TInv, TypeOK
  <2>. QED
    BY <2>1, <2>2, NamesKept
<1>5. ASSUME NEW k \in Conns, HandlerEnds(k)
      PROVE  ReportsNameRows'
  <2>1. exists' = exists /\ \A l \in Conns : up'[l] \in {up[l], <<>>}
    BY <1>5 DEF HandlerEnds
  <2>. QED
    BY <2>1, NamesKept
<1>6. ASSUME NEW k \in Conns,
             AgentAcknowledges(k) \/ AgentStarts(k) \/ AgentReports(k)
      PROVE  ReportsNameRows'
  <2>1. PICK r \in Report : r.cmd \in exists /\ Sends(k, r)
    <3>1. CASE AgentAcknowledges(k)
      <4>1. Head(down[k]) \in exists
        BY <3>1, KnownIsCreated DEF AgentAcknowledges
      <4>. QED
        BY <3>1, <4>1 DEF AgentAcknowledges, Report
    <3>2. CASE AgentStarts(k)
      <4>1. agent.cmd \in exists
        BY <3>2, KnownIsCreated DEF AgentStarts, AgentAt, HandHoldsCommand
      <4>. QED
        BY <3>2, <4>1 DEF AgentStarts, Report
    <3>3. CASE AgentReports(k)
      <4>1. agent.cmd \in exists
        BY <3>3, KnownIsCreated DEF AgentReports, AgentAt, HandHoldsCommand
      <4>. QED
        BY <3>3, <4>1 DEF AgentReports, Report
    <3>. QED
      BY <1>6, <3>1, <3>2, <3>3
  <2>2. exists' = exists
    BY <1>6 DEF AgentAcknowledges, AgentStarts, AgentReports, serverVars
  <2>3. \A l \in Conns : \A i \in 1 .. Len(up'[l]) :
           \/ up'[l][i] = r
           \/ i \in 1 .. Len(up[l]) /\ up'[l][i] = up[l][i]
    BY <2>1, SendsAppends
  <2>. QED
    BY <2>1, <2>2, <2>3, NamesKept
<1>7. ASSUME NEW S \in SUBSET exists, Expire(S)
      PROVE  ReportsNameRows'
  BY <1>7, NamesKept DEF Expire, wireVars
<1>8. CASE AgentGoesOffline \/ ServerRestarts \/ UNCHANGED vars
  <2>1. exists' = exists /\ \A k \in Conns : up'[k] \in {up[k], <<>>}
    BY <1>8 DEF AgentGoesOffline, ServerRestarts, vars, serverVars, wireVars
  <2>. QED
    BY <2>1, NamesKept
<1>. QED
  BY <1>1, <1>2, <1>3, <1>4, <1>5, <1>6, <1>7, <1>8 DEF Next

-----------------------------------------------------------------------------
(***************************************************************************)
(* The refinement                                                           *)
(***************************************************************************)

\* The abstract variables.
statusOf     == [c \in Commands |-> rows[c].status]
deliveringOf == {c \in Commands : sender[c] \in InFlight}

\* Every report either leaves the row alone or moves its status forward.
LEMMA HandledMovesForward ==
    ASSUME NEW row \in Row, NEW report \in Report
    PROVE  LET s == Handled(row, report).status IN
           \/ s = row.status
           \/ /\ row.status \in OpenStatus
              /\ s \in {"acknowledged", "running", "success", "failed"}
              /\ Rank(s) > Rank(row.status)
<1>1. report.kind \in {"ack", "running", "success", "failed"}
  BY DEF Report
<1>2. row.status \in Status
  BY DEF Row
<1>3. CASE report.kind = "ack"
  BY <1>2, <1>3 DEF Handled, MarkAcknowledged, Rank, OpenStatus, Row
<1>4. CASE report.kind = "running"
  BY <1>2, <1>4 DEF Handled, MarkRunning, Rank, OpenStatus, Row
<1>5. CASE report.kind \in {"success", "failed"}
  BY <1>2, <1>5 DEF Handled, MarkResult, Rank, OpenStatus, Row
<1>. QED
  BY <1>1, <1>3, <1>4, <1>5

LEMMA InitRefines == Init => Lifecycle!Init
BY DEF Init, NewRow, InFlight, Lifecycle!Init

LEMMA StepRefines ==
    TInv /\ Custody /\ ReportsNameRows /\ [Next]_vars
    => [Lifecycle!Next]_(Lifecycle!vars)
<1> SUFFICES ASSUME TInv, Custody, ReportsNameRows, [Next]_vars
             PROVE  Lifecycle!Next \/ UNCHANGED <<exists, statusOf, deliveringOf>>
  BY DEF Lifecycle!vars, statusOf, deliveringOf
<1> USE DEF TInv, TypeOK
<1>1. ASSUME NEW c \in Commands, CreateCommand(c)
      PROVE  Lifecycle!Create(c)
  <2>1. sender[c] = "none" /\ c \notin exists /\ exists' = exists \cup {c}
    BY <1>1 DEF CreateCommand, Custody, UncreatedIsUnsent
  <2>2. CASE hub = NoConn
    <3>1. /\ rows' = [rows EXCEPT ![c] = MarkSendFailed(NewRow)]
          /\ sender' = [sender EXCEPT ![c] = "over"]
      BY <1>1, <2>2 DEF CreateCommand
    <3>2. MarkSendFailed(NewRow).status = "send_failed"
      BY DEF MarkSendFailed, NewRow
    <3>3. deliveringOf' = deliveringOf
      BY <2>1, <3>1 DEF deliveringOf, InFlight
    <3>4. statusOf' = [statusOf EXCEPT ![c] = "send_failed"]
      BY <3>1, <3>2 DEF statusOf
    <3>. QED
      BY <2>1, <3>3, <3>4 DEF Lifecycle!Create, statusOf, deliveringOf
  <2>3. CASE hub # NoConn
    <3>1. /\ rows' = [rows EXCEPT ![c] = NewRow]
          /\ sender' = [sender EXCEPT ![c] = "sending"]
      BY <1>1, <2>3 DEF CreateCommand
    <3>2. NewRow.status = "pending"
      BY DEF NewRow
    <3>3. deliveringOf' = deliveringOf \cup {c}
      BY <2>1, <3>1 DEF deliveringOf, InFlight
    <3>4. statusOf' = [statusOf EXCEPT ![c] = "pending"]
      BY <3>1, <3>2 DEF statusOf
    <3>. QED
      BY <2>1, <3>3, <3>4 DEF Lifecycle!Create, statusOf, deliveringOf
  <2>. QED
    BY <2>2, <2>3
<1>2. ASSUME NEW c \in Commands, SendReturns(c)
      PROVE  Lifecycle!Delivered(c)
  <2>1. /\ sender[c] = "written"
        /\ sender' = [sender EXCEPT ![c] = "over"]
        /\ rows' = [rows EXCEPT ![c] = MarkSent(@)]
        /\ exists' = exists
    BY <1>2 DEF SendReturns, Ends
  <2>2. c \in deliveringOf /\ deliveringOf' = deliveringOf \ {c}
    BY <2>1 DEF deliveringOf, InFlight
  <2>3. MarkSent(rows[c]).status = "sent"
    BY DEF MarkSent, Row
  <2>4. statusOf' = [statusOf EXCEPT ![c] = "sent"]
    BY <2>1, <2>3 DEF statusOf
  <2>. QED
    BY <2>1, <2>2, <2>4 DEF Lifecycle!Delivered, statusOf, deliveringOf
<1>3. ASSUME NEW c \in Commands, CloseReturns(c)
      PROVE  Lifecycle!Undelivered(c)
  <2>1. /\ sender[c] = "closing"
        /\ sender' = [sender EXCEPT ![c] = "over"]
        /\ rows' = [rows EXCEPT ![c] = MarkSendFailed(@)]
        /\ exists' = exists
    BY <1>3 DEF CloseReturns, Ends
  <2>2. c \in deliveringOf /\ deliveringOf' = deliveringOf \ {c}
    BY <2>1 DEF deliveringOf, InFlight
  <2>3. MarkSendFailed(rows[c]).status
        = IF rows[c].status = "pending" THEN "send_failed" ELSE rows[c].status
    BY DEF MarkSendFailed, Row
  <2>4. statusOf' = [statusOf EXCEPT ![c] = IF @ = "pending" THEN "send_failed" ELSE @]
    BY <2>1, <2>3 DEF statusOf
  <2>. QED
    BY <2>1, <2>2, <2>4 DEF Lifecycle!Undelivered, statusOf, deliveringOf
<1>4. ASSUME NEW k \in Conns, ServerReceives(k)
      PROVE  Lifecycle!Next \/ UNCHANGED <<exists, statusOf, deliveringOf>>
  <2>1. /\ up[k] # <<>>
        /\ rows' = [rows EXCEPT ![Head(up[k]).cmd] = Handled(@, Head(up[k]))]
        /\ UNCHANGED <<exists, sender>>
    BY <1>4 DEF ServerReceives
  <2>2. PICK report \in Report : report = Head(up[k]) /\ 1 \in 1 .. Len(up[k]) /\ report = up[k][1]
    BY <2>1
  <2>3. report.cmd \in Commands /\ report.cmd \in exists
    BY <2>2 DEF ReportsNameRows, Report
  <2> DEFINE c == report.cmd
             s == Handled(rows[c], report).status
  <2>4. \/ s = rows[c].status
        \/ /\ rows[c].status \in OpenStatus
           /\ s \in {"acknowledged", "running", "success", "failed"}
           /\ Rank(s) > Rank(rows[c].status)
    BY <2>3, HandledMovesForward
  <2>5. statusOf' = [statusOf EXCEPT ![c] = s]
    BY <2>1, <2>2, <2>3 DEF statusOf
  <2>6. deliveringOf' = deliveringOf
    BY <2>1 DEF deliveringOf
  <2>7. statusOf[c] = rows[c].status
    BY <2>3 DEF statusOf
  <2> HIDE DEF c, s
  <2>8. CASE s = rows[c].status
    <3>1. statusOf' = statusOf
      BY <2>5, <2>7, <2>8 DEF statusOf
    <3>. QED
      BY <2>1, <2>6, <3>1
  <2>9. CASE /\ rows[c].status \in OpenStatus
             /\ s \in {"acknowledged", "running", "success", "failed"}
             /\ Rank(s) > Rank(rows[c].status)
    <3> HIDE DEF TInv, TypeOK
    <3>1. c \in exists /\ statusOf[c] \in OpenStatus /\ Rank(s) > Rank(statusOf[c])
      BY <2>3, <2>7, <2>9 DEF c
    <3>2. UNCHANGED <<exists, deliveringOf>>
      BY <2>1, <2>6
    <3>3. Lifecycle!Reported(c)
      BY <2>5, <2>9, <3>1, <3>2
      DEF Lifecycle!Reported, Lifecycle!OpenStatus, Lifecycle!Rank, OpenStatus, Rank,
          statusOf, deliveringOf
    <3>. QED
      BY <2>3, <3>3 DEF Lifecycle!Next, c
  <2>. QED
    BY <2>4, <2>8, <2>9
<1>5. ASSUME NEW S \in SUBSET exists, Expire(S)
      PROVE  Lifecycle!Expired(S)
  <2>1. /\ S \subseteq exists /\ \A c \in S : rows[c].status \in OpenStatus
        /\ rows' = [c \in Commands |-> IF c \in S THEN ExpireRow(rows[c]) ELSE rows[c]]
        /\ UNCHANGED <<exists, sender>>
    BY <1>5 DEF Expire
  <2>2. \A c \in Commands : ExpireRow(rows[c]).status = "timeout"
    BY DEF ExpireRow, Row
  <2>3. statusOf' = [c \in Commands |-> IF c \in S THEN "timeout" ELSE statusOf[c]]
    BY <2>1, <2>2 DEF statusOf
  <2>4. \A c \in S : statusOf[c] \in OpenStatus
    BY <2>1 DEF statusOf
  <2>5. deliveringOf' = deliveringOf
    BY <2>1 DEF deliveringOf
  <2> HIDE DEF TInv, TypeOK
  <2>. QED
    BY <2>1, <2>3, <2>4, <2>5
    DEF Lifecycle!Expired, Lifecycle!OpenStatus, OpenStatus, statusOf, deliveringOf
<1>6. ASSUME ServerRestarts
      PROVE  \E S \in SUBSET deliveringOf : Lifecycle!DeliveriesLost(S)
  <2>1. /\ UNCHANGED <<exists, rows>>
        /\ sender' = [c \in Commands |-> IF sender[c] \in InFlight THEN "over" ELSE sender[c]]
    BY <1>6 DEF ServerRestarts
  <2>2. deliveringOf' = {}
    BY <2>1 DEF deliveringOf, InFlight
  <2>3. statusOf' = statusOf
    BY <2>1 DEF statusOf
  <2>4. PICK S \in SUBSET deliveringOf : S = deliveringOf
    OBVIOUS
  <2>5. Lifecycle!DeliveriesLost(S)
    BY <2>1, <2>2, <2>3, <2>4 DEF Lifecycle!DeliveriesLost, statusOf, deliveringOf
  <2>. QED
    BY <2>5
<1>7. ASSUME NEW c \in Commands, WriteCommand(c) \/ SendFails(c)
      PROVE  UNCHANGED <<exists, statusOf, deliveringOf>>
  <2>1. UNCHANGED <<exists, rows>>
    BY <1>7 DEF WriteCommand, SendFails
  <2>2. /\ sender[c] \in InFlight
        /\ sender' = [sender EXCEPT ![c] = "written"] \/ sender' = [sender EXCEPT ![c] = "closing"]
    BY <1>7 DEF WriteCommand, SendFails, InFlight
  <2>3. deliveringOf' = deliveringOf
    BY <2>2 DEF deliveringOf, InFlight
  <2>. QED
    BY <2>1, <2>3 DEF statusOf
<1>8. ASSUME UNCHANGED <<exists, rows, sender>>
      PROVE  UNCHANGED <<exists, statusOf, deliveringOf>>
  BY <1>8 DEF statusOf, deliveringOf
<1>9. ASSUME NEW c \in Commands, ExecutionEnds(c)
      PROVE  UNCHANGED <<exists, rows, sender>>
  BY <1>9 DEF ExecutionEnds, serverVars
<1>10. ASSUME NEW k \in Conns,
              \/ Connect(k) \/ Greet(k) \/ GreetFails(k) \/ HandlerEnds(k) \/ CloseSocket(k)
              \/ DisconnectAgent(k) \/ AgentAuthenticates(k) \/ AgentAcknowledges(k)
              \/ AgentStarts(k) \/ AgentReports(k)
       PROVE  UNCHANGED <<exists, rows, sender>>
  BY <1>10 DEF Connect, Greet, GreetFails, HandlerEnds, CloseSocket, DisconnectAgent, AgentAuthenticates,
               AgentAcknowledges, AgentStarts, AgentReports, serverVars
<1>11. CASE AgentGoesOffline \/ UNCHANGED vars
  BY <1>8, <1>11 DEF AgentGoesOffline, vars, serverVars
<1>12. Lifecycle!Next <=> \/ \E c \in Commands : \/ Lifecycle!Create(c) \/ Lifecycle!Delivered(c)
                                                \/ Lifecycle!Undelivered(c) \/ Lifecycle!Reported(c)
                          \/ \E S \in SUBSET exists : Lifecycle!Expired(S)
                          \/ \E S \in SUBSET deliveringOf : Lifecycle!DeliveriesLost(S)
  BY DEF Lifecycle!Next, deliveringOf
<1>13. ASSUME NEW c \in Commands, CreateRaises(c)
       PROVE  Lifecycle!Create(c)
  <2>1. /\ sender[c] = "none" /\ c \notin exists /\ exists' = exists \cup {c}
        /\ rows' = [rows EXCEPT ![c] = NewRow]
        /\ sender' = [sender EXCEPT ![c] = "over"]
    BY <1>13 DEF CreateRaises, Custody, UncreatedIsUnsent
  <2>2. deliveringOf' = deliveringOf
    BY <2>1 DEF deliveringOf, InFlight
  <2>3. statusOf' = [statusOf EXCEPT ![c] = "pending"]
    BY <2>1 DEF statusOf, NewRow
  <2>. QED
    BY <2>1, <2>2, <2>3 DEF Lifecycle!Create, statusOf, deliveringOf
<1>14. ASSUME NEW c \in Commands, RecordRaises(c)
       PROVE  \E S \in SUBSET deliveringOf : Lifecycle!DeliveriesLost(S)
  <2>1. /\ sender[c] \in InFlight
        /\ sender' = [sender EXCEPT ![c] = "over"]
        /\ UNCHANGED <<exists, rows>>
    BY <1>14 DEF RecordRaises, Ends, InFlight
  <2>2. c \in deliveringOf /\ deliveringOf' = deliveringOf \ {c}
    BY <2>1 DEF deliveringOf, InFlight
  <2>3. statusOf' = statusOf
    BY <2>1 DEF statusOf
  <2>4. {c} \in SUBSET deliveringOf
    BY <2>2
  <2>5. Lifecycle!DeliveriesLost({c})
    BY <2>1, <2>2, <2>3 DEF Lifecycle!DeliveriesLost, statusOf, deliveringOf
  <2>. WITNESS {c} \in SUBSET deliveringOf
  <2>. QED
    BY <2>5
<1> HIDE DEF TInv, TypeOK
<1>15. ASSUME ServerRestarts \/ \E c \in Commands : RecordRaises(c)
       PROVE  Lifecycle!Next
  BY <1>6, <1>12, <1>14, <1>15
<1>16. ASSUME \E c \in Commands : CreateCommand(c) \/ CreateRaises(c)
       PROVE  Lifecycle!Next
  BY <1>1, <1>12, <1>13, <1>16
<1>17. ASSUME \/ \E c \in Commands : SendReturns(c) \/ CloseReturns(c)
              \/ \E S \in SUBSET exists : Expire(S)
       PROVE  Lifecycle!Next
  BY <1>2, <1>3, <1>5, <1>12, <1>17
<1>. QED
  BY <1>4, <1>7, <1>8, <1>9, <1>10, <1>11, <1>15, <1>16, <1>17 DEF Next

\* The rows of the table behave as CommandLifecycle says: of all that the
\* server, the agent, the network and the clock do, only the delivery record
\* of a command can move its status back, and only once.
THEOREM Refinement == Spec => ImplementsLifecycle
<1>1. Init => ReportsNameRows
  BY DEF Init, ReportsNameRows
<1>2. Spec => []ReportsNameRows
  BY <1>1, NamesStep, Invariant, PTL DEF Spec
<1>. QED
  BY <1>2, InitRefines, StepRefines, Invariant, PTL
     DEF Spec, ImplementsLifecycle, Lifecycle!Spec

=============================================================================
