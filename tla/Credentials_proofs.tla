--------------------------- MODULE Credentials_proofs ---------------------------
(***************************************************************************)
(* Theorems about Credentials, for every set of nodes, credentials and      *)
(* hosts and every limit.                                                    *)
(***************************************************************************)
EXTENDS Credentials, TLAPS

\* The part of the invariant about connections, and the part about handshakes.
ServedInv == TypeOK /\ ServedIsEnabled /\ RevokedStaysOut

LEMMA Bounds ==
    /\ MaxFailures \in Nat /\ MaxFailures > 0 /\ MaxOpen \in Nat
    /\ \A c \in Credentials : c.node \in Nodes
BY CredentialsAssumption DEF CredentialsAssumption

LEMMA InitHolds == Init => ServedInv /\ FailuresAreLimited
BY Bounds DEF Init, ServedInv, TypeOK, ServedIsEnabled, RevokedStaysOut, FailuresAreLimited, Connected

-----------------------------------------------------------------------------
(***************************************************************************)
(* Types and failures                                                       *)
(***************************************************************************)

LEMMA ChecksTypes ==
    ASSUME TypeOK, NEW nodes \in SUBSET Nodes, Checks(nodes) \/ ReloadFails
    PROVE  /\ reload' \in {"idle", "closing", "failed"}
           /\ todo' \in SUBSET nodes
           /\ hub' \in [Nodes -> Credentials \cup {None}]
           /\ \A n \in Nodes : hub'[n] = hub[n] \/ hub'[n] = None
<1>1. CASE UNCHANGED hub /\ reload' \in {"idle", "failed"} /\ todo' = {}
  BY <1>1 DEF TypeOK
<1>2. CASE \E n \in nodes : /\ reload' = "closing" /\ todo' \in SUBSET nodes
                            /\ hub' = [hub EXCEPT ![n] = None]
  BY <1>2 DEF TypeOK
<1>. QED
  BY <1>1, <1>2 DEF Checks, ReloadFails

\* What a revocation does to the table: rows stay one per secret, the new ones
\* are of the node and of the configuration, and each old one stays or makes room
\* for one with the same secret.
LEMMA RevokeRows ==
    ASSUME TypeOK, NEW n \in Nodes, Revoke(n)
    PROVE  /\ config' \subseteq Credentials /\ revoked' \subseteq Credentials
           /\ \A r, s \in revoked' : SameSecret(r, s) => r = s
           /\ \A r \in revoked' : r \in revoked \/ (r \in config /\ r.node = n)
           /\ \A row \in revoked : \E r \in revoked' : SameSecret(r, row) /\ (r = row \/ r \in config)
<1> DEFINE current == {c \in config : c.node = n}
<1>1. PICK new \in LastWritten(current) : revoked' = RevocationRows(new)
  BY DEF Revoke
<1>2. new \subseteq current /\ \A r, s \in new : SameSecret(r, s) => r = s
  BY <1>1 DEF LastWritten
<1>3. revoked' = new \cup {row \in revoked : \A c \in new : ~ SameSecret(row, c)}
  BY <1>1 DEF RevocationRows
<1>4. current \subseteq config /\ \A c \in current : c.node = n
  OBVIOUS
<1>5. config' \subseteq Credentials /\ config \subseteq Credentials
  BY DEF Revoke, TypeOK
<1> HIDE DEF current
<1>. QED
  BY <1>2, <1>3, <1>4, <1>5 DEF TypeOK, SameSecret

LEMMA TypeStep == TypeOK /\ [Next]_vars => TypeOK'
<1> SUFFICES ASSUME TypeOK, [Next]_vars PROVE TypeOK'
  OBVIOUS
<1>1. CASE \E h \in Hosts : Accept(h) \/ Abandon(h) \/ Refuse(h) \/ Forget(h)
  <2>1. UNCHANGED <<file, config, revoked, hub, reload, todo>>
    BY <1>1 DEF Accept, Abandon, Refuse, Forget
  <2>2. open' \in [Hosts -> 0 .. MaxOpen] /\ failures' \in [Hosts -> Nat]
    BY <1>1, Bounds DEF Accept, Abandon, Refuse, Forget, TypeOK
  <2>. QED
    BY <2>1, <2>2 DEF TypeOK, Connected
<1>2. ASSUME NEW h \in Hosts, NEW c \in Credentials, Authenticate(h, c) PROVE TypeOK'
  <2>1. open' \in [Hosts -> 0 .. MaxOpen] /\ failures' \in [Hosts -> Nat]
    BY <1>2, Bounds DEF Authenticate, TypeOK
  <2>2. hub' \in [Nodes -> Credentials \cup {None}] /\ \A n \in Nodes : hub'[n] # None => hub'[n].node = n
    BY <1>2, Bounds DEF Authenticate, TypeOK, Connected
  <2>. QED
    BY <1>2, <2>1, <2>2 DEF Authenticate, TypeOK, Connected
<1>3. ASSUME NEW n \in Nodes, Leave(n) \/ Revoke(n) PROVE TypeOK'
  <2>1. hub' = [hub EXCEPT ![n] = None] /\ UNCHANGED <<file, reload, todo, open, failures>>
    BY <1>3 DEF Leave, Revoke
  <2>2. /\ config' \subseteq Credentials /\ revoked' \subseteq Credentials
        /\ \A r, s \in revoked' : SameSecret(r, s) => r = s
    BY <1>3, RevokeRows DEF Leave, TypeOK
  <2>. QED
    BY <2>1, <2>2 DEF TypeOK, Connected
<1>4. CASE Edit
  BY <1>4 DEF Edit, TypeOK, Connected
<1>5. CASE Reload
  BY <1>5 DEF Reload, TypeOK, Connected
<1>6. CASE NotifierStopped \/ SocketClosed
  <2>1. PICK nodes \in SUBSET Nodes : Checks(nodes) \/ ReloadFails
    BY <1>6 DEF NotifierStopped, SocketClosed, TypeOK, Connected
  <2>2. /\ reload' \in {"idle", "closing", "failed"} /\ todo' \in SUBSET nodes
        /\ hub' \in [Nodes -> Credentials \cup {None}]
        /\ \A n \in Nodes : hub'[n] = hub[n] \/ hub'[n] = None
    BY <2>1, ChecksTypes
  <2>3. UNCHANGED <<file, config, revoked, open, failures>>
    BY <1>6 DEF NotifierStopped, SocketClosed
  <2>. QED
    BY <2>2, <2>3 DEF TypeOK, Connected
<1>7. CASE Restart
  BY <1>7, Bounds DEF Restart, TypeOK, Connected
<1>8. CASE UNCHANGED vars
  BY <1>8 DEF vars, TypeOK, Connected
<1>. QED
  BY <1>1, <1>2, <1>3, <1>4, <1>5, <1>6, <1>7, <1>8 DEF Next

LEMMA FailuresStep == TypeOK /\ FailuresAreLimited /\ [Next]_vars => FailuresAreLimited'
<1> SUFFICES ASSUME TypeOK, FailuresAreLimited, [Next]_vars PROVE FailuresAreLimited'
  OBVIOUS
<1>1. CASE \E h \in Hosts : Accept(h) \/ Abandon(h) \/ Refuse(h) \/ Forget(h)
  BY <1>1, Bounds DEF Accept, Abandon, Refuse, Forget, TypeOK, FailuresAreLimited
<1>2. CASE \E h \in Hosts, c \in Credentials : Authenticate(h, c)
  BY <1>2, Bounds DEF Authenticate, TypeOK, FailuresAreLimited
<1>3. CASE Restart
  BY <1>3, Bounds DEF Restart, FailuresAreLimited
<1>4. CASE UNCHANGED <<open, failures>>
  BY <1>4 DEF FailuresAreLimited
<1>. QED
  BY <1>1, <1>2, <1>3, <1>4
     DEF Next, Leave, Revoke, Edit, Reload, NotifierStopped, SocketClosed, vars
-----------------------------------------------------------------------------
(***************************************************************************)
(* Connections                                                              *)
(***************************************************************************)

\* The running configuration enables the secret of the connection.
Enabled(n) == \E c \in config : SameSecret(c, hub[n])

\* What a reload leaves of the nodes it has passed is enabled.
LEMMA ChecksServed ==
    ASSUME ServedInv, NEW nodes \in SUBSET Nodes, Checks(nodes) \/ ReloadFails,
           UNCHANGED <<config, revoked>>,
           \A n \in Connected : n \in nodes \/ Enabled(n)
    PROVE  ServedIsEnabled' /\ RevokedStaysOut'
<1>1. \A n \in Nodes : hub'[n] = hub[n] \/ hub'[n] = None
  BY ChecksTypes DEF ServedInv
<1>3. RevokedStaysOut'
  BY <1>1 DEF ServedInv, RevokedStaysOut, Connected, Revoked
<1>4. \A n \in nodes \cap Connected : Fine(n) => Enabled(n)
  BY DEF Fine, Enabled, SameSecret, ServedInv, TypeOK, Connected
<1> DEFINE stale == {n \in nodes \cap Connected : ~ Fine(n)}
<1>5. CASE stale = {} /\ UNCHANGED hub
  <2>1. \A n \in Connected : Enabled(n)
    BY <1>4, <1>5
  <2>. QED
    BY <1>3, <1>5, <2>1 DEF ServedIsEnabled, Connected, Enabled, SameSecret
<1>6. CASE \E n \in stale, passed \in SUBSET (nodes \ stale) :
              /\ reload' = "closing" /\ todo' = nodes \ (passed \cup {n})
              /\ hub' = [hub EXCEPT ![n] = None]
  <2>1. PICK n \in stale, passed \in SUBSET (nodes \ stale) :
              /\ reload' = "closing" /\ todo' = nodes \ (passed \cup {n})
              /\ hub' = [hub EXCEPT ![n] = None]
    BY <1>6
  <2>2. hub'[n] = None
    BY <2>1 DEF ServedInv, TypeOK
  <2>3. \A k \in Connected' : k \in Connected /\ k # n /\ hub'[k] = hub[k]
    BY <1>1, <2>2 DEF Connected
  <2>4. \A k \in Connected' : Enabled(k) \/ k \in todo'
    BY <1>4, <2>1, <2>3
  <2>. QED
    BY <1>3, <2>1, <2>3, <2>4 DEF ServedIsEnabled, Enabled, SameSecret
<1>7. CASE ReloadFails
  BY <1>3, <1>7 DEF ReloadFails, ServedIsEnabled
<1>. QED
  BY <1>3, <1>5, <1>6, <1>7 DEF Checks

LEMMA ServedStep == ServedInv /\ [Next]_vars => ServedInv'
<1> SUFFICES ASSUME ServedInv, [Next]_vars PROVE ServedIsEnabled' /\ RevokedStaysOut'
  BY TypeStep DEF ServedInv
<1> USE DEF ServedInv
<1>1. CASE UNCHANGED <<config, revoked, hub, reload, todo>>
  BY <1>1 DEF ServedIsEnabled, RevokedStaysOut, SameSecret, Revoked, Connected
<1>2. ASSUME NEW h \in Hosts, NEW c \in Credentials, Authenticate(h, c)
      PROVE  ServedIsEnabled' /\ RevokedStaysOut'
  <2>1. UNCHANGED <<config, revoked>>
    BY <1>2 DEF Authenticate
  <2>2. \A n \in Connected' : (n \in Connected /\ hub'[n] = hub[n]) \/ hub'[n] = c
    BY <1>2 DEF Authenticate, Connected, TypeOK
  <2>3. c \in config /\ ~ Revoked(c) /\ UNCHANGED <<reload, todo>>
    BY <1>2 DEF Authenticate, Admitted
  <2>. QED
    BY <2>1, <2>2, <2>3 DEF ServedIsEnabled, RevokedStaysOut, SameSecret, Revoked
<1>3. ASSUME NEW n \in Nodes, Leave(n) PROVE ServedIsEnabled' /\ RevokedStaysOut'
  BY <1>3 DEF Leave, ServedIsEnabled, RevokedStaysOut, SameSecret, Revoked, Connected, TypeOK
<1>4. ASSUME NEW n \in Nodes, Revoke(n) PROVE ServedIsEnabled' /\ RevokedStaysOut'
  <2>1. \A k \in Connected' : k \in Connected /\ k # n /\ hub'[k] = hub[k] /\ hub[k].node = k /\ hub[k] \in Credentials
    BY <1>4 DEF Revoke, Connected, TypeOK
  <2>2. \A k \in Connected', row \in revoked' : row.node = k => row \in revoked
    BY <1>4, <2>1, RevokeRows
  <2>3. \A k \in Connected', c \in config : SameSecret(c, hub[k]) => c \in config'
    BY <1>4, <2>1 DEF Revoke, SameSecret
  <2>4. UNCHANGED <<reload, todo>>
    BY <1>4 DEF Revoke
  <2>5. RevokedStaysOut'
    BY <2>1, <2>2 DEF RevokedStaysOut, Revoked
  <2>6. ServedIsEnabled'
    BY <2>1, <2>3, <2>4 DEF ServedIsEnabled
  <2>. QED
    BY <2>5, <2>6
<1>5. CASE Reload
  BY <1>5 DEF Reload, ServedIsEnabled, RevokedStaysOut, Revoked, Connected
<1>6. CASE NotifierStopped
  BY <1>6, ChecksServed DEF NotifierStopped, Connected
<1>7. CASE SocketClosed
  <2>1. \A n \in Connected : n \in todo \/ Enabled(n)
    BY <1>7 DEF SocketClosed, ServedIsEnabled, Enabled
  <2>. QED
    BY <1>7, <2>1, ChecksServed DEF SocketClosed, TypeOK
<1>8. CASE Restart
  BY <1>8 DEF Restart, ServedIsEnabled, RevokedStaysOut, Connected
<1>. QED
  BY <1>1, <1>2, <1>3, <1>4, <1>5, <1>6, <1>7, <1>8 DEF Next, Accept, Abandon, Refuse, Forget, Edit, vars

-----------------------------------------------------------------------------
(***************************************************************************)
(* The theorems                                                             *)
(***************************************************************************)

\* Type correctness.
THEOREM CredentialsTypes == Spec => []TypeOK
<1>1. Init => TypeOK
  BY InitHolds DEF ServedInv
<1>. QED
  BY <1>1, TypeStep, PTL DEF Spec

\* The configuration enables every registered connection, except those a reload
\* has to check or has failed to.
THEOREM ConnectionsAreEnabled == Spec => []ServedIsEnabled
<1>1. Init => ServedInv
  BY InitHolds
<1>2. ServedInv => ServedIsEnabled
  BY DEF ServedInv
<1>. QED
  BY <1>1, <1>2, ServedStep, PTL DEF Spec

\* No connection has a revoked credential.
THEOREM NobodyRevokedIsConnected == Spec => []RevokedStaysOut
<1>1. Init => ServedInv
  BY InitHolds
<1>2. ServedInv => RevokedStaysOut
  BY DEF ServedInv
<1>. QED
  BY <1>1, <1>2, ServedStep, PTL DEF Spec

\* A revoked secret keeps its row and is not connected again.
THEOREM RevokedForGood == Spec => RevokedSecretStaysOut
<1> DEFINE Kept == \A row \in revoked : \E r \in revoked' : SameSecret(r, row) /\ (r = row \/ r \in config)
           Out == \A row \in revoked, n \in Connected' : ~ SameSecret(hub'[n], row)
<1>1. Init => ServedInv
  BY InitHolds
<1>2. ASSUME ServedInv, Next PROVE Kept
  <2>1. CASE \E n \in Nodes : Revoke(n)
    BY <1>2, <2>1, RevokeRows DEF ServedInv
  <2>2. CASE UNCHANGED revoked
    BY <2>2 DEF SameSecret
  <2>. QED
    BY <1>2, <2>1, <2>2 DEF Next, Accept, Abandon, Refuse, Forget, Authenticate, Leave, Edit, Reload,
                            NotifierStopped, SocketClosed, Restart
<1>3. ASSUME ServedInv, Next PROVE Out
  <2>1. RevokedStaysOut' /\ Kept
    BY <1>2, <1>3, ServedStep DEF ServedInv
  <2>. QED
    BY <2>1 DEF RevokedStaysOut, Revoked, SameSecret
<1>4. ServedInv /\ [Next]_vars => [Kept /\ Out]_vars
  BY <1>2, <1>3
<1>5. (Kept /\ Out) <=> \A row \in revoked :
                          /\ \E r \in revoked' : SameSecret(r, row) /\ (r = row \/ r \in config)
                          /\ \A n \in Connected' : ~ SameSecret(hub'[n], row)
  OBVIOUS
<1>6. ServedInv /\ [Next]_vars =>
        [\A row \in revoked :
            /\ \E r \in revoked' : SameSecret(r, row) /\ (r = row \/ r \in config)
            /\ \A n \in Connected' : ~ SameSecret(hub'[n], row)]_vars
  BY <1>4, <1>5
<1>. QED
  BY <1>1, <1>6, ServedStep, PTL DEF Spec, RevokedSecretStaysOut

\* The limit of failures is exceeded by the open handshakes at most.
THEOREM FailuresStayLimited == Spec => []FailuresAreLimited
<1>1. Init => TypeOK /\ FailuresAreLimited
  BY InitHolds DEF ServedInv
<1>. QED
  BY <1>1, TypeStep, FailuresStep, PTL DEF Spec
=============================================================================
