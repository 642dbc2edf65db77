------------------------------ MODULE CommandFlow ------------------------------
(***************************************************************************)
(* The path of a container command through the control plane, for one node:*)
(*                                                                          *)
(*   - the create_command coroutine of every command (app.py), which stores *)
(*     the row, awaits hub.send_command and then records the outcome;       *)
(*   - the hub entry of the node and the agent_ws handler of every          *)
(*     WebSocket connection (hub.py, app.py);                               *)
(*   - the agent's session: handshake, receive loop, execution thread       *)
(*     (client.py);                                                         *)
(*   - the status watcher, which expires commands;                          *)
(*   - sockets that break with frames in flight, and server restarts.       *)
(*                                                                          *)
(* The server is one asyncio event loop: what runs between two awaits is    *)
(* one action.  The section under the hub's lock contains no await, so the  *)
(* lock is never contended and adds no interleaving.  Nodes are independent *)
(* of each other (every hub entry, socket and UPDATE is keyed by node), so  *)
(* the module follows one of them.                                          *)
(***************************************************************************)
EXTENDS CommandTable, Naturals, Sequences

CONSTANTS
    Commands,       \* identifiers of the commands that may be created
    Conns,          \* WebSocket connections, each used for one session
    NoConn,         \* "no connection"
    NoCommand,      \* "no command"
    AuthOk          \* the auth_ok frame of the handshake

ASSUME ConstantsAssumption ==
    /\ NoConn \notin Conns
    /\ NoCommand \notin Commands
    /\ AuthOk \notin Commands

VARIABLES
    exists,     \* commands that have a row in the table
    rows,       \* the rows
    sender,     \* where the create_command coroutine of a command stands
    target,     \* the AgentConnection object that coroutine holds
    hub,        \* the connection registered for the node, or NoConn
    handler,    \* where the agent_ws handler of a connection stands
    socket,     \* whether the server's end of a connection is open
    down,       \* frames in flight from the server to the agent
    up,         \* frames in flight from the agent to the server
    agent,      \* the agent's session: connection, position, command in hand
    starts,     \* how many times docker.execute was started for a command
    outcome     \* what docker.execute did

serverVars == <<exists, rows, sender, target, hub, handler>>
wireVars   == <<socket, down, up>>
agentVars  == <<agent, starts, outcome>>
vars       == <<serverVars, wireVars, agentVars>>

SenderState  == {"none", "sending", "written", "closing", "over"}
InFlight     == {"sending", "written", "closing"}
HandlerState == {"unused", "greeting", "serving", "ended"}
AgentState   == {"offline", "connecting", "idle", "acked", "running"}
Report       == [kind : {"ack", "running", "success", "failed"}, cmd : Commands]

Offline == [conn |-> NoConn, at |-> "offline", cmd |-> NoCommand]

Init ==
    /\ exists  = {}
    /\ rows    = [c \in Commands |-> NewRow]
    /\ sender  = [c \in Commands |-> "none"]
    /\ target  = [c \in Commands |-> NoConn]
    /\ hub     = NoConn
    /\ handler = [k \in Conns |-> "unused"]
    /\ socket  = [k \in Conns |-> "closed"]
    /\ down    = [k \in Conns |-> <<>>]
    /\ up      = [k \in Conns |-> <<>>]
    /\ agent   = Offline
    /\ starts  = [c \in Commands |-> 0]
    /\ outcome = [c \in Commands |-> "none"]

-----------------------------------------------------------------------------
(***************************************************************************)
(* POST /api/nodes/{node_id}/commands                                       *)
(***************************************************************************)

\* The row is inserted and the hub consulted.  Without a registered
\* connection send_command returns False before its first real await, so the
\* failure is recorded in the same step.
CreateCommand(c) ==
    /\ c \notin exists
    /\ exists' = exists \cup {c}
    /\ target' = [target EXCEPT ![c] = hub]
    /\ IF hub = NoConn
       THEN /\ rows'   = [rows EXCEPT ![c] = MarkSendFailed(NewRow)]
            /\ sender' = [sender EXCEPT ![c] = "over"]
       ELSE /\ rows'   = [rows EXCEPT ![c] = NewRow]
            /\ sender' = [sender EXCEPT ![c] = "sending"]
    /\ UNCHANGED <<hub, handler, wireVars, agentVars>>

\* The row is inserted, and the audit entry (or the record of the failure, if
\* no connection is registered) raises: the coroutine is over, the row pending.
CreateRaises(c) ==
    /\ c \notin exists
    /\ exists' = exists \cup {c}
    /\ rows'   = [rows EXCEPT ![c] = NewRow]
    /\ sender' = [sender EXCEPT ![c] = "over"]
    /\ UNCHANGED <<target, hub, handler, wireVars, agentVars>>

\* A frame written to connection k is on its way, unless the agent has left k.
Writes(k, frame) ==
    down' = IF agent.conn = k THEN [down EXCEPT ![k] = Append(@, frame)] ELSE down

\* The frame is handed to the transport, under the connection's send_lock:
\* the next sender waits until the write of the previous one has returned.
WriteCommand(c) ==
    LET k == target[c] IN
    /\ sender[c] = "sending"
    /\ socket[k] = "open"
    /\ ~ \E d \in Commands : sender[d] = "written" /\ target[d] = k
    /\ Writes(k, c)
    /\ sender' = [sender EXCEPT ![c] = "written"]
    /\ UNCHANGED <<exists, rows, target, hub, handler, socket, up, agentVars>>

\* The create_command coroutine is over, and with it its hold on a connection.
Ends(c) ==
    /\ sender' = [sender EXCEPT ![c] = "over"]
    /\ target' = [target EXCEPT ![c] = NoConn]

\* The awaited send returns and the coroutine records the delivery.
SendReturns(c) ==
    /\ sender[c] = "written"
    /\ Ends(c)
    /\ rows' = [rows EXCEPT ![c] = MarkSent(@)]
    /\ UNCHANGED <<exists, hub, handler, wireVars, agentVars>>

\* A wrong variant: whatever connection the hub holds is removed.
SendFailsForAnyone(c) ==
    /\ sender[c] \in {"sending", "written"}
    /\ sender' = [sender EXCEPT ![c] = "closing"]
    /\ hub'    = NoConn
    /\ UNCHANGED <<exists, rows, target, handler, wireVars, agentVars>>

\* The send raises or exceeds send_timeout_seconds, before or after the frame
\* reached the transport: the hub entry is removed, but only if it is still
\* the connection this coroutine looked up.
SendFails(c) ==
    /\ sender[c] \in {"sending", "written"}
    /\ sender' = [sender EXCEPT ![c] = "closing"]
    /\ hub'    = IF hub = target[c] THEN NoConn ELSE hub
    /\ UNCHANGED <<exists, rows, target, handler, wireVars, agentVars>>

\* A wrong variant: the command is sent again on the current connection.
CloseReturnsAndRetries(c) ==
    /\ sender[c] = "closing"
    /\ hub # NoConn
    /\ sender' = [sender EXCEPT ![c] = "sending"]
    /\ target' = [target EXCEPT ![c] = hub]
    /\ UNCHANGED <<exists, rows, hub, handler, wireVars, agentVars>>

\* The bounded close of the failed connection returns (whether or not the
\* socket is closed by then) and the failure is recorded.
CloseReturns(c) ==
    /\ sender[c] = "closing"
    /\ Ends(c)
    /\ rows' = [rows EXCEPT ![c] = MarkSendFailed(@)]
    /\ UNCHANGED <<exists, hub, handler, wireVars, agentVars>>

\* The UPDATE that records the outcome raises: the coroutine is over, and the
\* row stays what it is.
RecordRaises(c) ==
    /\ sender[c] \in {"written", "closing"}
    /\ Ends(c)
    /\ UNCHANGED <<exists, rows, hub, handler, wireVars, agentVars>>

-----------------------------------------------------------------------------
(***************************************************************************)
(* Connections                                                              *)
(***************************************************************************)

\* The agent opens a socket, authenticates, and the handler registers it.
\* A second connection of the node is turned away while the hub has an entry.
Connect(k) ==
    /\ agent.at = "offline"
    /\ handler[k] = "unused"
    /\ hub = NoConn
    /\ hub'     = k
    /\ handler' = [handler EXCEPT ![k] = "greeting"]
    /\ socket'  = [socket EXCEPT ![k] = "open"]
    /\ agent'   = [conn |-> k, at |-> "connecting", cmd |-> NoCommand]
    /\ UNCHANGED <<exists, rows, sender, target, down, up, starts, outcome>>

\* The UI broadcast has returned; auth_ok is sent and the handler starts to
\* read.  The hub has offered the connection to send_command since Connect.
Greet(k) ==
    /\ handler[k] = "greeting"
    /\ socket[k] = "open"
    /\ Writes(k, AuthOk)
    /\ handler' = [handler EXCEPT ![k] = "serving"]
    /\ UNCHANGED <<exists, rows, sender, target, hub, socket, up, agentVars>>

\* Sending auth_ok to a socket that is gone raises outside the try block that
\* unregisters the connection.
GreetFails(k) ==
    /\ handler[k] = "greeting"
    /\ socket[k] = "closed"
    /\ handler' = [handler EXCEPT ![k] = "ended"]
    /\ UNCHANGED <<exists, rows, sender, target, hub, wireVars, agentVars>>

\* What _handle_agent_message does to the row named by a report.
Handled(row, report) ==
    CASE report.kind = "ack"     -> MarkAcknowledged(row)
      [] report.kind = "running" -> MarkRunning(row)
      [] OTHER                   -> MarkResult(row, report.kind)

\* The handler reads one frame and applies it.
ServerReceives(k) ==
    /\ handler[k] = "serving"
    /\ up[k] # <<>>
    /\ LET c == Head(up[k]).cmd IN
       rows' = [rows EXCEPT ![c] = Handled(@, Head(up[k]))]
    /\ up' = [up EXCEPT ![k] = Tail(@)]
    /\ UNCHANGED <<exists, sender, target, hub, handler, socket, down, agentVars>>

\* The handler ends when the socket is gone, or when a step of it raises; what
\* it has not read is lost.  It unregisters itself, unless the hub already
\* holds another connection, and leaving it closes the socket.
HandlerEnds(k) ==
    /\ handler[k] = "serving"
    /\ handler' = [handler EXCEPT ![k] = "ended"]
    /\ hub'     = IF hub = k THEN NoConn ELSE hub
    /\ socket'  = [socket EXCEPT ![k] = "closed"]
    /\ up'      = [up EXCEPT ![k] = <<>>]
    /\ UNCHANGED <<exists, rows, sender, target, down, agentVars>>

\* The server's end closes (network, ping timeout, close by either side).  What
\* has arrived is still read, and what is on its way to the agent may arrive.
CloseSocket(k) ==
    /\ socket[k] = "open"
    /\ socket' = [socket EXCEPT ![k] = "closed"]
    /\ UNCHANGED <<serverVars, down, up, agentVars>>

\* Revoking the node's credentials, or a reload that no longer has them, takes
\* the connection out of the hub; only then is the close awaited.
DisconnectAgent(k) ==
    /\ hub = k
    /\ hub' = NoConn
    /\ UNCHANGED <<exists, rows, sender, target, handler, wireVars, agentVars>>

-----------------------------------------------------------------------------
(***************************************************************************)
(* The agent                                                                *)
(***************************************************************************)

\* The agent's session uses connection k and stands at a point.
AgentAt(k, point) == agent.conn = k /\ agent.at = point

\* A report is on its way, unless the server's end is closed: the agent learns
\* of that only later (AgentGoesOffline).
Sends(k, report) ==
    up' = IF socket[k] = "open" THEN [up EXCEPT ![k] = Append(@, report)] ELSE up

\* The handshake accepts auth_ok as the first frame and nothing else: any
\* other frame ends the session.
AgentAuthenticates(k) ==
    /\ AgentAt(k, "connecting")
    /\ down[k] # <<>>
    /\ agent' = IF Head(down[k]) = AuthOk THEN [agent EXCEPT !.at = "idle"] ELSE Offline
    /\ down'  = [down EXCEPT ![k] = Tail(@)]
    /\ UNCHANGED <<serverVars, socket, up, starts, outcome>>

\* The receive loop takes the next command frame and acknowledges it.
AgentAcknowledges(k) ==
    /\ AgentAt(k, "idle")
    /\ down[k] # <<>>
    /\ Head(down[k]) \in Commands
    /\ LET c == Head(down[k]) IN
       /\ agent' = [agent EXCEPT !.at = "acked", !.cmd = c]
       /\ Sends(k, [kind |-> "ack", cmd |-> c])
    /\ down' = [down EXCEPT ![k] = Tail(@)]
    /\ UNCHANGED <<serverVars, socket, starts, outcome>>

\* It reports the command as running and hands it to a thread.
AgentStarts(k) ==
    LET c == agent.cmd IN
    /\ AgentAt(k, "acked")
    /\ agent'   = [agent EXCEPT !.at = "running"]
    /\ Sends(k, [kind |-> "running", cmd |-> c])
    /\ starts'  = [starts EXCEPT ![c] = @ + 1]
    /\ outcome' = [outcome EXCEPT ![c] = "executing"]
    /\ UNCHANGED <<serverVars, socket, down>>

\* The thread finishes; no disconnect and no server restart stops it.
ExecutionEnds(c) ==
    /\ outcome[c] = "executing"
    /\ \E o \in {"success", "failed"} : outcome' = [outcome EXCEPT ![c] = o]
    /\ UNCHANGED <<serverVars, wireVars, agent, starts>>

\* A wrong variant: the result does not wait for the thread.
AgentReportsEarly(k) ==
    LET c == agent.cmd IN
    /\ AgentAt(k, "running")
    /\ Sends(k, [kind |-> IF outcome[c] = "failed" THEN "failed" ELSE "success", cmd |-> c])
    /\ agent' = [agent EXCEPT !.at = "idle", !.cmd = NoCommand]
    /\ UNCHANGED <<serverVars, socket, down, starts, outcome>>

\* The result is sent on the connection the command arrived on.
AgentReports(k) ==
    LET c == agent.cmd IN
    /\ AgentAt(k, "running")
    /\ outcome[c] \in {"success", "failed"}
    /\ Sends(k, [kind |-> outcome[c], cmd |-> c])
    /\ agent' = [agent EXCEPT !.at = "idle", !.cmd = NoCommand]
    /\ UNCHANGED <<serverVars, socket, down, starts, outcome>>

\* The session ends, on either side's initiative or because a loop of the agent
\* raised, and with it the receive loop, whatever it was doing.  What the agent
\* has not read is lost.
AgentGoesOffline ==
    /\ agent.at # "offline"
    /\ agent' = Offline
    /\ down'  = [down EXCEPT ![agent.conn] = <<>>]
    /\ UNCHANGED <<serverVars, socket, up, starts, outcome>>

-----------------------------------------------------------------------------
(***************************************************************************)
(* Time and crashes                                                         *)
(***************************************************************************)

\* A wrong variant: acknowledged commands are left to the agent.
ExpireUnacknowledged(S) ==
    /\ S \subseteq exists
    /\ S # {}
    /\ \A c \in S : rows[c].status \in {"pending", "sent"}
    /\ rows' = [c \in Commands |-> IF c \in S THEN ExpireRow(rows[c]) ELSE rows[c]]
    /\ UNCHANGED <<exists, sender, target, hub, handler, wireVars, agentVars>>

\* One cycle of the watcher expires the commands created at or before its
\* cutoff.  The clock is abstracted into the choice of the set.
Expire(S) ==
    /\ S \subseteq exists
    /\ S # {}
    /\ \A c \in S : rows[c].status \in OpenStatus
    /\ rows' = [c \in Commands |-> IF c \in S THEN ExpireRow(rows[c]) ELSE rows[c]]
    /\ UNCHANGED <<exists, sender, target, hub, handler, wireVars, agentVars>>

\* The server process restarts: coroutines, hub and sockets are gone, the
\* table stays, the agent and its threads run on, and what was handed to the
\* network may still arrive.
ServerRestarts ==
    /\ sender'  = [c \in Commands |-> IF sender[c] \in InFlight THEN "over" ELSE sender[c]]
    /\ target'  = [c \in Commands |-> NoConn]
    /\ hub'     = NoConn
    /\ handler' = [k \in Conns |-> IF handler[k] = "unused" THEN "unused" ELSE "ended"]
    /\ socket'  = [k \in Conns |-> "closed"]
    /\ up'      = [k \in Conns |-> <<>>]
    /\ UNCHANGED <<exists, rows, down, agentVars>>

-----------------------------------------------------------------------------
Next ==
    \/ \E c \in Commands :
          \/ CreateCommand(c) \/ CreateRaises(c) \/ WriteCommand(c)
          \/ SendReturns(c) \/ SendFails(c) \/ CloseReturns(c) \/ RecordRaises(c)
          \/ ExecutionEnds(c)
    \/ \E k \in Conns :
          \/ Connect(k) \/ Greet(k) \/ GreetFails(k)
          \/ ServerReceives(k) \/ HandlerEnds(k) \/ CloseSocket(k)
          \/ DisconnectAgent(k)
          \/ AgentAuthenticates(k) \/ AgentAcknowledges(k)
          \/ AgentStarts(k) \/ AgentReports(k)
    \/ AgentGoesOffline
    \/ \E S \in SUBSET exists : Expire(S)
    \/ ServerRestarts

Spec == Init /\ [][Next]_vars

(***************************************************************************)
(* Fairness.  Every await of the create_command coroutine is bounded by     *)
(* send_timeout_seconds, so the coroutine always gets on; the watcher is    *)
(* restarted after every failed cycle, so a command that stays open is      *)
(* expired in the end.  Nothing is assumed of the agent or the network.     *)
(***************************************************************************)
Fairness ==
    \A c \in Commands :
        /\ WF_vars(SendReturns(c) \/ SendFails(c))
        /\ WF_vars(CloseReturns(c))
        /\ WF_vars(\E S \in SUBSET exists : c \in S /\ Expire(S))

FairSpec == Spec /\ Fairness

-----------------------------------------------------------------------------
TypeOK ==
    /\ exists \subseteq Commands
    /\ rows \in [Commands -> Row]
    /\ sender \in [Commands -> SenderState]
    /\ target \in [Commands -> Conns \cup {NoConn}]
    /\ hub \in Conns \cup {NoConn}
    /\ handler \in [Conns -> HandlerState]
    /\ socket \in [Conns -> {"open", "closed"}]
    /\ down \in [Conns -> Seq(Commands \cup {AuthOk})]
    /\ up \in [Conns -> Seq(Report)]
    /\ agent \in [conn : Conns \cup {NoConn}, at : AgentState,
                  cmd : Commands \cup {NoCommand}]
    /\ starts \in [Commands -> Nat]
    /\ outcome \in [Commands -> {"none", "executing", "success", "failed"}]

\* A recorded result is the truth: a row says success (failed) only if the
\* container operation ran and succeeded (failed), however frames, expiry,
\* late delivery records and restarts interleave (mark_command_result).
ResultIsTrue ==
    \A c \in exists :
        rows[c].status \in {"success", "failed"} => outcome[c] = rows[c].status

\* A container operation is started at most once per command, across
\* reconnects, send failures and restarts: no frame is delivered twice and
\* nothing is re-sent (create_command, _receive_loop).
ExecutedAtMostOnce == \A c \in Commands : starts[c] <= 1

\* The hub forgets a connection that is being served over an open socket only
\* when a send on that very connection fails, an administrator removes it, or
\* the process restarts: neither the end of an older handler nor a late
\* failure on an older connection takes it out (unregister_agent, send_command).
ServedStaysRegistered ==
    [][\A k \in Conns :
          /\ hub = k /\ hub' # k
          /\ handler'[k] \in {"greeting", "serving"} /\ socket'[k] = "open"
          => \/ DisconnectAgent(k)
             \/ \E c \in Commands :
                   /\ target[c] = k
                   /\ sender[c] # "closing" /\ sender'[c] = "closing"]_vars

\* A row that says send_failed was never acknowledged: the failure of the
\* delivery does not overwrite what the agent has already reported, and a
\* late report does not reopen it (mark_command_send_failed).
SendFailedUnacknowledged ==
    \A c \in exists : rows[c].status = "send_failed" => ~ rows[c].acked

\* Once the create_command coroutine of a command is over, a final status is
\* final: no late report, expiry or restart moves the row again.
FinalAfterDelivery ==
    [][\A c \in exists :
          sender[c] \notin InFlight /\ rows[c].status \in FinalStatus
          => rows'[c] = rows[c]]_vars

\* The rows implement CommandLifecycle: of all the steps above, only the one
\* delivery record of a command may move its status back (against the order
\* the documents give: StatusFollowsOrder below).
Lifecycle ==
    INSTANCE CommandLifecycle WITH
        status     <- [c \in Commands |-> rows[c].status],
        delivering <- {c \in Commands : sender[c] \in InFlight}

ImplementsLifecycle == Lifecycle!Spec

\* Every command ends, and stays ended, whatever the agent and the network do.
EveryCommandEnds ==
    \A c \in Commands :
        c \in exists ~> [](rows[c].status \in FinalStatus)

-----------------------------------------------------------------------------
(***************************************************************************)
(* What the documents say, and the code does not do.                        *)
(***************************************************************************)

\* The status of a command only moves forward along pending, sent,
\* acknowledged, running, and one of the final ones (docs/architecture.md);
\* mark_command_sent may move it back.
StatusFollowsOrder ==
    [][\A c \in exists :
          \/ rows'[c].status = rows[c].status
          \/ Rank(rows'[c].status) > Rank(rows[c].status)]_vars

\* agent_ws: a handler that is over has left the hub.
HubEntryHasHandler ==
    hub # NoConn => handler[hub] \in {"greeting", "serving"}

=============================================================================
