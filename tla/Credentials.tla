------------------------------- MODULE Credentials -------------------------------
(***************************************************************************)
(* Who may be connected: the credentials of the agents in the configuration *)
(* file, in the running configuration and in the table of revocations, the  *)
(* handshake of /agent/ws with its failure limit, the reload of the         *)
(* configuration and the revocation of a node (app.py, db.py, security.py). *)
(*                                                                          *)
(* What lies between two awaits is one action.  From the check of a         *)
(* credential to the entry in the hub there is none.                        *)
(***************************************************************************)
EXTENDS Naturals, FiniteSets

CONSTANTS
    Nodes,
    Credentials,   \* enabled entries of a configuration: records [node, fingerprint, token_id]
    NoTokenId,     \* the empty token id
    Hosts,         \* addresses that connections come from
    MaxFailures,   \* ws_auth_max_failures
    MaxOpen        \* bound of the open handshakes per host

ASSUME CredentialsAssumption ==
    /\ \A c \in Credentials : c.node \in Nodes
    /\ MaxFailures \in Nat \ {0}
    /\ MaxOpen \in Nat

VARIABLES
    file,      \* enabled credentials in the configuration file
    config,    \* enabled credentials of the running configuration
    revoked,   \* rows of agent_token_revocations
    hub,       \* credential of the registered connection of a node, or none
    reload,    \* where the reload stands that holds the reload lock, or how it ended
    todo,      \* nodes this reload has still to check
    open,      \* handshakes that wait for their first message, per host
    failures   \* failures of a host within the window of the limiter

vars == <<file, config, revoked, hub, reload, todo, open, failures>>

None == [node |-> "none"]

\* Two entries with one secret: they may differ in the token id.
SameSecret(c, d) == c.node = d.node /\ c.fingerprint = d.fingerprint

Connected == {n \in Nodes : hub[n] # None}

Init ==
    /\ file \in SUBSET Credentials
    /\ config = file
    /\ revoked = {}
    /\ hub = [n \in Nodes |-> None]
    /\ reload = "idle"
    /\ todo = {}
    /\ open = [h \in Hosts |-> 0]
    /\ failures = [h \in Hosts |-> 0]

-----------------------------------------------------------------------------
(***************************************************************************)
(* The handshake                                                            *)
(***************************************************************************)

\* A row of the node with the fingerprint, or with the token id if there is one.
Revoked(c) ==
    \E row \in revoked :
        /\ row.node = c.node
        /\ \/ row.fingerprint = c.fingerprint
           \/ c.token_id # NoTokenId /\ row.token_id = c.token_id

\* A wrong variant: the configuration decides alone.
AdmittedByConfig(c) == c \in config

Admitted(c) == c \in config /\ ~ Revoked(c)

\* A wrong variant: a host is never limited.
AcceptAlways(h) ==
    /\ open[h] < MaxOpen
    /\ failures[h] < MaxFailures + MaxOpen
    /\ open' = [open EXCEPT ![h] = @ + 1]
    /\ UNCHANGED <<file, config, revoked, hub, reload, todo, failures>>

\* A connection is accepted unless its host is limited; its first message is
\* awaited for a few seconds.
Accept(h) ==
    /\ open[h] < MaxOpen
    /\ failures[h] < MaxFailures
    /\ open' = [open EXCEPT ![h] = @ + 1]
    /\ UNCHANGED <<file, config, revoked, hub, reload, todo, failures>>

\* No message in time, an unknown protocol, or credentials that are not admitted.
Refuse(h) ==
    /\ open[h] > 0
    /\ open' = [open EXCEPT ![h] = @ - 1]
    /\ failures' = [failures EXCEPT ![h] = @ + 1]
    /\ UNCHANGED <<file, config, revoked, hub, reload, todo>>

\* The client leaves before its first message, which counts as nothing.
Abandon(h) ==
    /\ open[h] > 0
    /\ open' = [open EXCEPT ![h] = @ - 1]
    /\ UNCHANGED <<file, config, revoked, hub, reload, todo, failures>>

\* A wrong variant: the node is the one the message names.
AuthenticateAnyNode(h, c) ==
    /\ open[h] > 0
    /\ Admitted(c)
    /\ open' = [open EXCEPT ![h] = @ - 1]
    /\ failures' = [failures EXCEPT ![h] = 0]
    /\ \E n \in Nodes : hub' = IF hub[n] = None THEN [hub EXCEPT ![n] = c] ELSE hub
    /\ UNCHANGED <<file, config, revoked, reload, todo>>

\* The credential is checked against the configuration of this moment.  A node
\* that is connected already keeps its connection.
Authenticate(h, c) ==
    /\ open[h] > 0
    /\ Admitted(c)
    /\ open' = [open EXCEPT ![h] = @ - 1]
    /\ failures' = [failures EXCEPT ![h] = 0]
    /\ hub' = IF hub[c.node] = None THEN [hub EXCEPT ![c.node] = c] ELSE hub
    /\ UNCHANGED <<file, config, revoked, reload, todo>>

\* A failure leaves the sliding window.
Forget(h) ==
    /\ failures[h] > 0
    /\ failures' = [failures EXCEPT ![h] = @ - 1]
    /\ UNCHANGED <<file, config, revoked, hub, reload, todo, open>>

Leave(n) ==
    /\ hub[n] # None
    /\ hub' = [hub EXCEPT ![n] = None]
    /\ UNCHANGED <<file, config, revoked, reload, todo, open, failures>>

-----------------------------------------------------------------------------
(***************************************************************************)
(* Revocation and reload                                                    *)
(***************************************************************************)

\* A wrong variant: a node has one row, which the next revocation replaces.
OneRowPerNode(new) == new \cup {row \in revoked : \A c \in new : row.node # c.node}

\* The table after an upsert: a row of the same secret gets the new token id.
RevocationRows(new) ==
    new \cup {row \in revoked : \A c \in new : ~ SameSecret(row, c)}

\* What the upserts of these credentials leave: for each secret the last one
\* written, in the order of a Python set.
LastWritten(current) ==
    {new \in SUBSET current :
        /\ \A c \in current : \E row \in new : SameSecret(row, c)
        /\ \A r, s \in new : SameSecret(r, s) => r = s}

\* The entry is gone from the hub before the socket is closed.
Revoke(n) ==
    LET current == {c \in config : c.node = n}
    IN  /\ current # {}
        /\ \E new \in LastWritten(current) : revoked' = RevocationRows(new)
        /\ config' = config \ current
        /\ hub' = [hub EXCEPT ![n] = None]
        /\ UNCHANGED <<file, reload, todo, open, failures>>

\* Somebody edits the file.
Edit ==
    /\ file' \in SUBSET Credentials \ {file}
    /\ UNCHANGED <<config, revoked, hub, reload, todo, open, failures>>

\* The file is loaded and applied, and the old notifier is being stopped.  A
\* file that does not load changes nothing.
Reload ==
    /\ reload \in {"idle", "failed"}
    /\ reload' = "stopping"
    /\ config' = file
    /\ UNCHANGED <<file, revoked, hub, todo, open, failures>>

\* The check of a reload looks for the fingerprint, not for the token id: it
\* keeps a connection whose secret the file has renamed, also to a revoked name.
Fine(n) ==
    /\ \E c \in config : c.node = n /\ c.fingerprint = hub[n].fingerprint
    /\ \A row \in revoked : row.node # n \/ row.fingerprint # hub[n].fingerprint

\* The nodes that are left are checked in some order up to the next one that
\* has to go; its socket is closed then.
Checks(nodes) ==
    LET stale == {n \in nodes \cap Connected : ~ Fine(n)}
    IN  \/ /\ stale = {}
           /\ reload' = "idle"
           /\ todo' = {}
           /\ UNCHANGED hub
        \/ \E n \in stale, passed \in SUBSET (nodes \ stale) :
              /\ reload' = "closing"
              /\ todo' = nodes \ (passed \cup {n})
              /\ hub' = [hub EXCEPT ![n] = None]

\* The audit record of a stop or of a disconnection may raise: the reload ends
\* and leaves the other connections as they are.
ReloadFails ==
    /\ reload' = "failed"
    /\ todo' = {}
    /\ UNCHANGED hub

NotifierStopped ==
    /\ reload = "stopping"
    /\ Checks(Connected) \/ ReloadFails
    /\ UNCHANGED <<file, config, revoked, open, failures>>

\* A wrong variant: a reload ends with its first disconnection.
SocketClosedEnds ==
    /\ reload = "closing"
    /\ reload' = "idle"
    /\ todo' = {}
    /\ UNCHANGED <<file, config, revoked, hub, open, failures>>

\* A wrong variant: the reload waits until the other nodes leave by themselves.
SocketClosedWaits ==
    /\ reload = "closing"
    /\ todo \cap Connected = {}
    /\ reload' = "idle"
    /\ todo' = {}
    /\ UNCHANGED <<file, config, revoked, hub, open, failures>>

SocketClosed ==
    /\ reload = "closing"
    /\ Checks(todo) \/ ReloadFails
    /\ UNCHANGED <<file, config, revoked, open, failures>>

\* The server starts again, with the file and the table of revocations.
Restart ==
    /\ config' = file
    /\ hub' = [n \in Nodes |-> None]
    /\ reload' = "idle"
    /\ todo' = {}
    /\ open' = [h \in Hosts |-> 0]
    /\ failures' = [h \in Hosts |-> 0]
    /\ UNCHANGED <<file, revoked>>

-----------------------------------------------------------------------------
Next ==
    \/ \E h \in Hosts : Accept(h) \/ Abandon(h) \/ Refuse(h) \/ Forget(h)
    \/ \E h \in Hosts, c \in Credentials : Authenticate(h, c)
    \/ \E n \in Nodes : Leave(n) \/ Revoke(n)
    \/ Edit \/ Reload \/ NotifierStopped \/ SocketClosed \/ Restart

Spec == Init /\ [][Next]_vars

\* The stop of a notifier and the close of a socket end: both have time limits.
FairSpec == Spec /\ WF_vars(NotifierStopped) /\ WF_vars(SocketClosed)

-----------------------------------------------------------------------------
TypeOK ==
    /\ file \subseteq Credentials
    /\ config \subseteq Credentials
    /\ revoked \subseteq Credentials
    /\ \A r, s \in revoked : SameSecret(r, s) => r = s
    /\ hub \in [Nodes -> Credentials \cup {None}]
    /\ \A n \in Connected : hub[n].node = n
    /\ reload \in {"idle", "stopping", "closing", "failed"}
    /\ todo \subseteq Nodes
    /\ open \in [Hosts -> 0 .. MaxOpen]
    /\ failures \in [Hosts -> Nat]

\* The running configuration enables the secret of every registered connection,
\* under the token id it connected with or under one the file has renamed it
\* to.  Only a reload has stale connections to check, and one that failed leaves
\* them (register_agent, _revoke_agent_runtime and
\* _disconnect_agents_with_stale_credentials against each other).
ServedIsEnabled ==
    \A n \in Connected :
        \/ \E c \in config : SameSecret(c, hub[n])
        \/ reload \in {"stopping", "failed"}
        \/ reload = "closing" /\ n \in todo

\* No connection has a revoked credential, neither by its fingerprint nor by the
\* token id it connected with, at no time: not during a reload that brings the
\* credential back or renames it, not after a reload that failed, not after a
\* restart.
RevokedStaysOut == \A n \in Connected : ~ Revoked(hub[n])

\* A secret that is revoked is never connected again, whatever the file calls
\* it, and keeps its row; the row loses its token id only to another name under
\* which the same secret is revoked again (the upsert of
\* revoke_agent_credentials overwrites it).
RevokedSecretStaysOut ==
    [][\A row \in revoked :
        /\ \E r \in revoked' : SameSecret(r, row) /\ (r = row \/ r \in config)
        /\ \A n \in Connected' : ~ SameSecret(hub'[n], row)]_vars

\* The limit of failures is exceeded by no more than the handshakes that were
\* open when it was reached (can_attempt is asked before an await, add_failure
\* is called after it).
FailuresAreLimited ==
    \A h \in Hosts : failures[h] + open[h] < MaxFailures + MaxOpen

\* A reload releases its lock.
ReloadEnds == reload \in {"stopping", "closing"} ~> reload \in {"idle", "failed"}

=============================================================================
