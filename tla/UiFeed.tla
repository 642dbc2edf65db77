--------------------------------- MODULE UiFeed ---------------------------------
(***************************************************************************)
(* How a change reaches the page of a user: the broadcasts of the hub, the  *)
(* sockets of the page, and its refreshes (hub.py, app.py, web/app.js).     *)
(*                                                                          *)
(* Every change of the database is broadcast to the sockets that are in the *)
(* hub at that moment.  The page takes a message as a reason to read the    *)
(* database again, which it does every few seconds anyway; nothing keeps    *)
(* two refreshes apart.                                                     *)
(***************************************************************************)
EXTENDS Naturals

CONSTANTS
    MaxChanges,   \* bound of the changes
    MaxSockets    \* bound of the sockets; the last one does not fail

ASSUME FeedAssumption == MaxChanges \in Nat /\ MaxSockets \in Nat \ {0}

VARIABLES
    db,        \* number of changes
    view,      \* the change that the page shows
    answers,   \* answers on the way to the page, by the change they show
    ws,        \* the socket of the page; those after it are not open yet
    closed,    \* sockets that are closed
    handler,   \* where ui_ws stands for a socket
    clients,   \* _ui_clients
    since,     \* the change at which a socket was registered
    received,  \* the broadcasts that were sent on a socket
    waiting,   \* the sockets a broadcast still has to send to
    failed,    \* the sockets a broadcast could not send to
    running    \* broadcasts that have not ended

hubVars == <<clients, since, received, waiting, failed, running>>
pageVars == <<view, answers, ws>>
vars == <<db, pageVars, closed, handler, hubVars>>

Changes == 1 .. MaxChanges
Sockets == 1 .. MaxSockets

Init ==
    /\ db = 0
    /\ view = 0
    /\ answers = {}
    /\ ws = 1
    /\ closed = {}
    /\ handler = [s \in Sockets |-> "none"]
    /\ clients = {}
    /\ since = [s \in Sockets |-> 0]
    /\ received = [s \in Sockets |-> {}]
    /\ waiting = [b \in Changes |-> {}]
    /\ failed = [b \in Changes |-> {}]
    /\ running = {}

\* A socket may fail as long as the page can open another one.
MayFail(s) == s < MaxSockets

-----------------------------------------------------------------------------
(***************************************************************************)
(* The hub                                                                  *)
(***************************************************************************)

\* The database changes and the broadcast takes the clients of this moment.
Broadcast ==
    /\ db < MaxChanges
    /\ db' = db + 1
    /\ running' = running \cup {db + 1}
    /\ waiting' = [waiting EXCEPT ![db + 1] = clients]
    /\ UNCHANGED <<pageVars, closed, handler, clients, since, received, failed>>

\* The messages of a socket are sent under its lock, in the order of the broadcasts.
Send(b, s) ==
    /\ s \in waiting[b] \ closed
    /\ \A earlier \in Changes : earlier < b => s \notin waiting[earlier]
    /\ received' = [received EXCEPT ![s] = @ \cup {b}]
    /\ waiting' = [waiting EXCEPT ![b] = @ \ {s}]
    /\ UNCHANGED <<db, pageVars, closed, handler, clients, since, failed, running>>

\* The send raises, takes too long, or waits too long for the lock; or the
\* socket has left the hub and has no lock any more.
SendFails(b, s) ==
    /\ s \in waiting[b]
    /\ s \in closed \/ MayFail(s)
    /\ waiting' = [waiting EXCEPT ![b] = @ \ {s}]
    /\ failed' = [failed EXCEPT ![b] = @ \cup {s}]
    /\ UNCHANGED <<db, pageVars, closed, handler, clients, since, received, running>>

\* A wrong variant: a socket that could not be sent to stays a client.
BroadcastEndsKeeping(b) ==
    /\ b \in running
    /\ waiting[b] = {}
    /\ running' = running \ {b}
    /\ UNCHANGED <<db, pageVars, closed, handler, clients, since, received, waiting, failed>>

\* The last send of a broadcast is over: the sockets that failed leave the hub
\* and are closed.
BroadcastEnds(b) ==
    /\ b \in running
    /\ waiting[b] = {}
    /\ running' = running \ {b}
    /\ clients' = clients \ failed[b]
    /\ closed' = closed \cup failed[b]
    /\ UNCHANGED <<db, pageVars, handler, since, received, waiting, failed>>

\* The socket is registered before auth_ok is sent on it.  If that raises, no
\* handler is left to take it out of the hub.
Register(s) ==
    /\ s <= ws
    /\ handler[s] = "none"
    /\ clients' = clients \cup {s}
    /\ since' = [since EXCEPT ![s] = db]
    /\ \/ /\ handler' = [handler EXCEPT ![s] = "receiving"]
          /\ s \notin closed
          /\ UNCHANGED closed
       \/ /\ handler' = [handler EXCEPT ![s] = "ended"]
          /\ s \in closed \/ MayFail(s)
          /\ closed' = closed \cup {s}
    /\ UNCHANGED <<db, pageVars, received, waiting, failed, running>>

Unregister(s) ==
    /\ handler[s] = "receiving"
    /\ s \in closed
    /\ handler' = [handler EXCEPT ![s] = "ended"]
    /\ clients' = clients \ {s}
    /\ UNCHANGED <<db, pageVars, closed, since, received, waiting, failed, running>>

\* The connection breaks.
Drop(s) ==
    /\ s <= ws
    /\ s \notin closed
    /\ MayFail(s)
    /\ closed' = closed \cup {s}
    /\ UNCHANGED <<db, pageVars, handler, hubVars>>

-----------------------------------------------------------------------------
(***************************************************************************)
(* The page                                                                 *)
(***************************************************************************)

\* A wrong variant: the reconnect timer that has fired stays set.
ReconnectOnce ==
    /\ ws \in closed
    /\ ws = 1 /\ ws < MaxSockets
    /\ ws' = ws + 1
    /\ UNCHANGED <<db, view, answers, closed, handler, hubVars>>

\* The page finds its socket closed and opens another one, some time later.
Reconnect ==
    /\ ws \in closed
    /\ ws < MaxSockets
    /\ ws' = ws + 1
    /\ UNCHANGED <<db, view, answers, closed, handler, hubVars>>

\* The server reads the database for a refresh, because of a message, the timer
\* or the user.
Refresh ==
    /\ answers' = answers \cup {db}
    /\ UNCHANGED <<db, view, ws, closed, handler, hubVars>>

\* An answer arrives: the page shows it, also when a later one was faster; or
\* the refresh has failed, and the page shows what it did.
Arrive(change) ==
    /\ change \in answers
    /\ answers' = answers \ {change}
    /\ view' \in {view, change}
    /\ UNCHANGED <<db, ws, closed, handler, hubVars>>

-----------------------------------------------------------------------------
Next ==
    \/ Broadcast \/ Reconnect \/ Refresh
    \/ \E s \in Sockets : Register(s) \/ Unregister(s) \/ Drop(s)
    \/ \E b \in Changes : \/ BroadcastEnds(b) \/ Arrive(b)
                          \/ \E s \in Sockets : Send(b, s) \/ SendFails(b, s)
    \/ Arrive(0)

Spec == Init /\ [][Next]_vars

\* Sends have a time limit, both ends notice a socket that is closed, the page
\* opens another one and asks every few seconds, and now and then a refresh
\* that shows the last change does not fail.
FairSpec ==
    /\ Spec
    /\ WF_vars(Refresh) /\ WF_vars(Reconnect)
    /\ SF_vars(view' = db /\ \E change \in 0 .. MaxChanges : Arrive(change))
    /\ \A change \in 0 .. MaxChanges : WF_vars(Arrive(change))
    /\ \A s \in Sockets : WF_vars(Register(s)) /\ WF_vars(Unregister(s))
    /\ \A b \in Changes :
          /\ WF_vars(BroadcastEnds(b))
          /\ \A s \in Sockets : WF_vars(Send(b, s) \/ SendFails(b, s))

-----------------------------------------------------------------------------
\* A client of the hub misses no broadcast: since it was registered every one
\* was sent on its socket, is about to be, or has failed and has not ended, so
\* that the socket is still to be closed (broadcast_ui against register_ui and
\* unregister_ui, with broadcasts that overlap).
ClientsMissNothing ==
    \A s \in clients : \A b \in since[s] + 1 .. db :
        \/ b \in received[s]
        \/ s \in waiting[b]
        \/ b \in running /\ s \in failed[b]

\* When the changes are over, the page shows the last one for good, although
\* messages get lost with sockets and older answers overwrite newer ones; and
\* its socket is a client of the hub again.
FeedConverges == <>[](view = db /\ ws \in clients)

=============================================================================
