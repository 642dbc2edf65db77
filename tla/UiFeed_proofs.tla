----------------------------- MODULE UiFeed_proofs -----------------------------
(***************************************************************************)
(* Theorems about UiFeed, for every number of changes and sockets.           *)
(***************************************************************************)
EXTENDS UiFeed, TLAPS

\* The part of the types that the hub needs.
HubTypes ==
    /\ db \in 0 .. MaxChanges
    /\ clients \subseteq Sockets
    /\ since \in [Sockets -> 0 .. MaxChanges]
    /\ received \in [Sockets -> SUBSET Changes]
    /\ waiting \in [Changes -> SUBSET Sockets]
    /\ failed \in [Changes -> SUBSET Sockets]

\* A broadcast has not ended as long as it waits for a socket.
WaitingIsRunning == \A b \in Changes : waiting[b] # {} => b \in running

FeedInv == HubTypes /\ WaitingIsRunning /\ ClientsMissNothing

LEMMA Bounds == MaxChanges \in Nat /\ MaxSockets \in Nat
BY FeedAssumption DEF FeedAssumption

LEMMA FeedInit == Init => FeedInv
BY Bounds DEF Init, FeedInv, HubTypes, WaitingIsRunning, ClientsMissNothing, Changes, Sockets

LEMMA BroadcastKeeps ==
    ASSUME FeedInv, Broadcast
    PROVE  FeedInv'
<1> DEFINE n == db + 1
<1>1. n \in Changes /\ db \in Nat /\ db' = n /\ n \in 0 .. MaxChanges
  BY Bounds DEF FeedInv, HubTypes, Broadcast, Changes
<1>2. /\ waiting' \in [Changes -> SUBSET Sockets] /\ waiting'[n] = clients
      /\ \A b \in Changes \ {n} : waiting'[b] = waiting[b]
      /\ running' = running \cup {n}
      /\ UNCHANGED <<clients, since, received, failed>>
  BY <1>1 DEF FeedInv, HubTypes, Broadcast
<1>3. HubTypes' /\ WaitingIsRunning'
  BY <1>1, <1>2 DEF FeedInv, HubTypes, WaitingIsRunning
<1>4. ASSUME NEW s \in clients, NEW b \in since[s] + 1 .. n
      PROVE  b \in received[s] \/ s \in waiting'[b] \/ (b \in running' /\ s \in failed[b])
  <2>1. since[s] \in Nat
    BY Bounds DEF FeedInv, HubTypes
  <2>2. CASE b = n
    BY <1>2, <2>2
  <2>3. CASE b # n
    <3>1. b \in since[s] + 1 .. db /\ b \in Changes
      BY <1>1, <2>1, <2>3, Bounds DEF Changes
    <3>. QED
      BY <1>2, <2>3, <3>1 DEF FeedInv, ClientsMissNothing
  <2>. QED
    BY <2>2, <2>3
<1>5. ClientsMissNothing'
  BY <1>1, <1>2, <1>4 DEF ClientsMissNothing
<1>. QED
  BY <1>3, <1>5 DEF FeedInv

\* A send that is over was received, or has failed in a broadcast that goes on.
LEMMA SendKeeps ==
    ASSUME FeedInv, NEW b \in Changes, NEW s \in Sockets, Send(b, s) \/ SendFails(b, s)
    PROVE  FeedInv'
<1>1. UNCHANGED <<db, clients, since, running>> /\ s \in waiting[b] /\ b \in running
  BY DEF Send, SendFails, FeedInv, WaitingIsRunning
<1>2. /\ waiting' \in [Changes -> SUBSET Sockets] /\ waiting'[b] = waiting[b] \ {s}
      /\ \A c \in Changes \ {b} : waiting'[c] = waiting[c]
  BY DEF Send, SendFails, FeedInv, HubTypes
<1>3. /\ received' \in [Sockets -> SUBSET Changes] /\ failed' \in [Changes -> SUBSET Sockets]
      /\ \A t \in Sockets : received[t] \subseteq received'[t]
      /\ \A c \in Changes : failed[c] \subseteq failed'[c]
      /\ b \in received'[s] \/ s \in failed'[b]
  BY DEF Send, SendFails, FeedInv, HubTypes
<1>4. HubTypes' /\ WaitingIsRunning'
  BY <1>1, <1>2, <1>3 DEF FeedInv, HubTypes, WaitingIsRunning
<1>5. ASSUME NEW t \in clients, NEW c \in since[t] + 1 .. db
      PROVE  c \in received'[t] \/ t \in waiting'[c] \/ (c \in running /\ t \in failed'[c])
  <2>1. c \in Changes /\ t \in Sockets
    <3>1. since[t] \in Nat /\ db \in 0 .. MaxChanges /\ t \in Sockets
      BY Bounds DEF FeedInv, HubTypes
    <3>. QED
      BY <3>1, Bounds DEF Changes
  <2>2. c \in received[t] \/ t \in waiting[c] \/ (c \in running /\ t \in failed[c])
    BY DEF FeedInv, ClientsMissNothing
  <2>. QED
    BY <1>1, <1>2, <1>3, <2>1, <2>2
<1>6. ClientsMissNothing'
  BY <1>1, <1>5 DEF ClientsMissNothing
<1>. QED
  BY <1>4, <1>6 DEF FeedInv

\* What a broadcast that has ended could not send to has left the hub.
LEMMA EndKeeps ==
    ASSUME FeedInv, NEW b \in Changes, BroadcastEnds(b)
    PROVE  FeedInv'
<1>1. /\ UNCHANGED <<db, since, received, waiting, failed>>
      /\ running' = running \ {b} /\ clients' = clients \ failed[b] /\ waiting[b] = {}
  BY DEF BroadcastEnds
<1>2. HubTypes' /\ WaitingIsRunning'
  BY <1>1 DEF FeedInv, HubTypes, WaitingIsRunning
<1>3. ASSUME NEW s \in clients', NEW c \in since[s] + 1 .. db
      PROVE  c \in received[s] \/ s \in waiting[c] \/ (c \in running' /\ s \in failed[c])
  BY <1>1 DEF FeedInv, ClientsMissNothing
<1>4. ClientsMissNothing'
  BY <1>1, <1>3 DEF ClientsMissNothing
<1>. QED
  BY <1>2, <1>4 DEF FeedInv

\* A socket that is registered has nothing to miss yet.
LEMMA RegisterKeeps ==
    ASSUME FeedInv, NEW s \in Sockets, Register(s)
    PROVE  FeedInv'
<1>1. /\ UNCHANGED <<db, received, waiting, failed, running>>
      /\ clients' = clients \cup {s} /\ since' = [since EXCEPT ![s] = db]
  BY DEF Register
<1>2. since'[s] = db /\ \A t \in Sockets \ {s} : since'[t] = since[t]
  BY <1>1 DEF FeedInv, HubTypes
<1>3. HubTypes' /\ WaitingIsRunning'
  BY <1>1 DEF FeedInv, HubTypes, WaitingIsRunning
<1>4. ASSUME NEW t \in clients', NEW c \in since'[t] + 1 .. db
      PROVE  t \in clients /\ c \in since[t] + 1 .. db
  <2>1. db \in Nat /\ t \in Sockets
    BY <1>1, Bounds DEF FeedInv, HubTypes
  <2>. QED
    BY <1>1, <1>2, <1>4, <2>1
<1>5. ClientsMissNothing'
  BY <1>1, <1>4 DEF FeedInv, ClientsMissNothing
<1>. QED
  BY <1>3, <1>5 DEF FeedInv

LEMMA FeedStep == FeedInv /\ [Next]_vars => FeedInv'
<1> SUFFICES ASSUME FeedInv, [Next]_vars PROVE FeedInv'
  OBVIOUS
<1>1. ASSUME UNCHANGED <<db, clients, since, received, waiting, failed, running>> PROVE FeedInv'
  BY <1>1 DEF FeedInv, HubTypes, WaitingIsRunning, ClientsMissNothing
<1>2. ASSUME NEW s \in Sockets, Unregister(s) PROVE FeedInv'
  <2>1. /\ UNCHANGED <<db, since, received, waiting, failed, running>>
        /\ clients' = clients \ {s}
    BY <1>2 DEF Unregister
  <2>. QED
    BY <2>1 DEF FeedInv, HubTypes, WaitingIsRunning, ClientsMissNothing
<1>3. CASE \/ Reconnect \/ Refresh \/ UNCHANGED vars
           \/ \E c \in Changes \cup {0} : Arrive(c)
           \/ \E s \in Sockets : Drop(s)
  BY <1>1, <1>3 DEF Reconnect, Refresh, Arrive, Drop, vars, hubVars
<1>. QED
  BY <1>2, <1>3, BroadcastKeeps, SendKeeps, EndKeeps, RegisterKeeps DEF Next

\* No client of the hub misses a broadcast, for any number of sockets and any
\* overlap of broadcasts.
THEOREM NothingIsMissed == Spec => []ClientsMissNothing
<1>1. FeedInv => ClientsMissNothing
  BY DEF FeedInv
<1>. QED
  BY <1>1, FeedInit, FeedStep, PTL DEF Spec

=============================================================================
