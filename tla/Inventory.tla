------------------------------- MODULE Inventory -------------------------------
(***************************************************************************)
(* The way of the container list from Docker to the table: the collections  *)
(* of the agent in its thread pool, the sessions of the agent, and the      *)
(* handler of the server (client.py, docker_collector.py, app.py, db.py).   *)
(*                                                                          *)
(* A key has one future at most that runs.  A caller that gives up leaves    *)
(* it running, over the end of the session, too.  The hub has one entry for  *)
(* the node, but a handler whose entry is gone may still be at work.  What   *)
(* lies between two awaits is one action; a result is sent as soon as its    *)
(* caller gets it.                                                          *)
(***************************************************************************)
EXTENDS DockerLists

CONSTANTS
    Keys,        \* the kinds of collection
    Stuck,       \* keys whose callback never returns
    Workers,     \* collection_workers
    MaxWire,     \* bound of the messages on the way
    MaxFaults    \* bound of the errors, time-outs, dismissals and ends of a session

ASSUME InventoryAssumption ==
    /\ {"docker_inventory", "host_info"} \subseteq Keys
    /\ Stuck \subseteq Keys
    /\ Workers \in Nat \ {0}
    /\ MaxWire \in Nat \ {0}
    /\ MaxFaults \in Nat

VARIABLES
    docker,    \* Docker holds Contents[docker]
    future,    \* _collector_futures
    late,      \* a future that was replaced before its callback ran
    pool,      \* the jobs of the thread pool, in order of submission
    opened,    \* number of the connections so far
    session,   \* the connection of the agent, or 0
    phase,     \* "down", "connected" (hello is still to be sent), "up"
    hub,       \* the connection of the node that is registered, or 0
    handler,   \* where the handler of a connection stands
    wire,      \* messages of a connection on the way to its handler
    rows,      \* the rows of the containers table
    status,    \* docker_inventory_status
    seen,      \* the content whose list the table shows
    faults     \* errors, time-outs and ends so far

collectVars == <<future, late, pool>>
sessionVars == <<opened, session, phase>>
serverVars == <<hub, handler>>
tableVars == <<rows, status, seen>>
vars == <<docker, collectVars, sessionVars, serverVars, wire, tableVars, faults>>

Inventory == "docker_inventory"
Sessions  == 1 .. MaxFaults + 1
Callers   == {"loop", "command", "hello"}

\* A result: the content when the ids were listed, and the rows.
Lists  == [from : Versions, rows : SUBSET Containers]
NoList == [from |-> 0, rows |-> {}]

\* A future: its caller, the content when the collection was asked for, and the
\* list (NoList: the collection has failed).
Future == [state : {"none", "pending", "done"}, caller : Callers \cup {"nobody"},
           since : Versions, result : Lists]

NoFuture == [state |-> "none", caller |-> "nobody", since |-> 0, result |-> NoList]

\* The connections whose handler receives messages, and those whose handler lives.
Serving == {s \in Sessions : handler[s] = "serving"}
Alive   == {s \in Sessions : handler[s] \in {"greeting", "serving"}}

Init ==
    /\ docker = 1
    /\ future = [k \in Keys |-> NoFuture]
    /\ late = [k \in Keys |-> NoFuture]
    /\ pool = <<>>
    /\ opened = 0
    /\ session = 0
    /\ phase = "down"
    /\ hub = 0
    /\ handler = [s \in Sessions |-> "unused"]
    /\ wire = [s \in Sessions |-> <<>>]
    /\ rows = {}
    /\ status = "unknown"
    /\ seen = 0
    /\ faults = 0

\* A fault of the environment.
Fault == faults < MaxFaults /\ faults' = faults + 1

\* Containers come, go, start and stop, by a command or by themselves.
Change ==
    /\ docker < Len(Contents)
    /\ docker' = docker + 1
    /\ UNCHANGED <<collectVars, sessionVars, serverVars, wire, tableVars, faults>>

-----------------------------------------------------------------------------
(***************************************************************************)
(* Collections                                                              *)
(***************************************************************************)

\* The caller goes on with the result of a collection: a list is sent, and so
\* is its failure; with the host information, or without, the session is greeted.
Answer(k, caller, result) ==
    /\ wire' = IF k = Inventory /\ caller # "nobody" /\ session \in Serving
               THEN [wire EXCEPT ![session] = Append(@, result)] ELSE wire
    /\ phase' = IF caller = "hello" THEN "up" ELSE phase

Asked(k, caller) ==
    [state |-> "pending", caller |-> caller,
     since |-> IF k = Inventory THEN docker ELSE 0, result |-> NoList]

\* A collection starts in place of the future that is done, if there is one,
\* whose callback is still to come.
Start(k, caller) ==
    /\ late[k].state = "none"
    /\ late' = [late EXCEPT ![k] = future[k]]
    /\ future' = [future EXCEPT ![k] = Asked(k, caller)]
    /\ pool' = Append(pool, [key |-> k, taken |-> 0])
    /\ UNCHANGED <<wire, phase>>

\* A wrong variant: the caller waits for the collection that is running.
CollectJoins(k, caller) ==
    \/ /\ future[k].state = "pending"
       /\ future' = [future EXCEPT ![k] = Asked(k, caller)]
       /\ UNCHANGED <<late, pool, wire, phase>>
    \/ future[k].state # "pending" /\ Start(k, caller)

\* While a collection is running the next one fails.
Collect(k, caller) ==
    \/ /\ future[k].state = "pending"
       /\ Answer(k, caller, NoList)
       /\ UNCHANGED collectVars
    \/ future[k].state # "pending" /\ Start(k, caller)

\* The hello of a session; then the turns of the loops, and the inventory that
\* follows a command.
Turn(k, caller) ==
    /\ phase = IF caller = "hello" THEN "connected" ELSE "up"
    /\ caller = "hello" => k = "host_info"
    /\ caller = "command" => k = Inventory
    /\ caller \notin {future[k].caller, late[k].caller}
    /\ Len(wire[session]) < MaxWire
    /\ Collect(k, caller)
    /\ UNCHANGED <<docker, opened, session, serverVars, tableVars, faults>>

Running == {i \in 1 .. Len(pool) : i <= Workers}

\* A thread has the ids from Docker.
List(i) ==
    /\ i \in Running
    /\ pool[i] = [key |-> Inventory, taken |-> 0]
    /\ pool' = [pool EXCEPT ![i].taken = docker]
    /\ UNCHANGED <<docker, future, late, sessionVars, serverVars, wire, tableVars, faults>>

\* Job i is over, and its future is done.
Done(i, result) ==
    /\ i \in Running
    /\ pool[i].key \notin Stuck
    /\ pool' = [j \in 1 .. Len(pool) - 1 |-> IF j < i THEN pool[j] ELSE pool[j + 1]]
    /\ future' = [future EXCEPT ![pool[i].key] = [@ EXCEPT !.state = "done", !.result = result]]
    /\ UNCHANGED <<docker, late, sessionVars, serverVars, wire, tableVars>>

\* The containers of the ids have been inspected one by one.
Return(i) ==
    /\ IF i \in Running /\ pool[i].key = Inventory
       THEN /\ pool[i].taken # 0
            /\ \E listed \in Readings(pool[i].taken, docker) :
                  Done(i, [from |-> pool[i].taken, rows |-> listed])
       ELSE Done(i, NoList)
    /\ UNCHANGED faults

\* Docker does not answer, or with an error; a container that was removed after
\* its id was listed is one.
Fail(i) ==
    /\ i \in Running /\ pool[i].key = Inventory
    /\ Done(i, NoList)
    /\ IF pool[i].taken # 0 /\ Removed(pool[i].taken, docker) THEN UNCHANGED faults ELSE Fault

\* A future whose caller is gone.
Released(f) == [f EXCEPT !.caller = "nobody", !.since = 0]

\* The caller gives up after collection_timeout_seconds; the future goes on.
Timeout(k) ==
    /\ future[k].state = "pending"
    /\ future[k].caller # "nobody"
    /\ IF k \in Stuck THEN UNCHANGED faults ELSE Fault
    /\ Answer(k, future[k].caller, NoList)
    /\ future' = [future EXCEPT ![k] = Released(@)]
    /\ UNCHANGED <<docker, late, pool, opened, session, serverVars, tableVars>>

\* The callback of a future runs, and its caller wakes up.
Called(k) ==
    /\ future[k].state = "done"
    /\ late[k].state = "none"
    /\ Answer(k, future[k].caller, future[k].result)
    /\ future' = [future EXCEPT ![k] = NoFuture]
    /\ UNCHANGED <<docker, late, pool, opened, session, serverVars, tableVars, faults>>

\* A wrong variant: the callback removes whatever future the key has.
CalledLateRemoves(k) ==
    /\ late[k].state = "done"
    /\ Answer(k, late[k].caller, late[k].result)
    /\ late' = [late EXCEPT ![k] = NoFuture]
    /\ future' = [future EXCEPT ![k] = NoFuture]
    /\ UNCHANGED <<docker, pool, opened, session, serverVars, tableVars, faults>>

\* The callback of a future that was replaced leaves the new one alone.
CalledLate(k) ==
    /\ late[k].state = "done"
    /\ Answer(k, late[k].caller, late[k].result)
    /\ late' = [late EXCEPT ![k] = NoFuture]
    /\ UNCHANGED <<docker, future, pool, opened, session, serverVars, tableVars, faults>>

-----------------------------------------------------------------------------
(***************************************************************************)
(* Sessions                                                                 *)
(***************************************************************************)

\* The agent has connected and sent its credentials.  The server lets the node in
\* unless it has an entry in the hub.
Connect ==
    /\ opened <= MaxFaults
    /\ session = 0
    /\ hub = 0
    /\ opened' = opened + 1
    /\ session' = opened + 1
    /\ hub' = opened + 1
    /\ handler' = [handler EXCEPT ![opened + 1] = "greeting"]
    /\ UNCHANGED <<docker, collectVars, phase, wire, tableVars, faults>>

\* A node with an entry in the hub is refused, and tries again later.
Refused ==
    /\ session = 0
    /\ hub # 0
    /\ UNCHANGED vars

\* The handler has recorded and broadcast the connection, and sends auth_ok.
Greet(s) ==
    /\ handler[s] = "greeting"
    /\ handler' = [handler EXCEPT ![s] = "serving"]
    /\ phase' = IF session = s THEN "connected" ELSE phase
    /\ UNCHANGED <<docker, collectVars, opened, session, hub, wire, tableVars, faults>>

\* A record cannot be written or auth_ok cannot be sent: the handler ends before
\* its try block, and the entry in the hub stays.
GreetFails(s) ==
    /\ handler[s] = "greeting"
    /\ IF s = session THEN Fault ELSE UNCHANGED faults
    /\ handler' = [handler EXCEPT ![s] = "ended"]
    /\ UNCHANGED <<docker, collectVars, sessionVars, hub, wire, tableVars>>

\* The callers of a session that has ended are gone.
Left(futures) == [k \in Keys |-> Released(futures[k])]

\* The connection breaks, or the agent finds that the server has closed it.
\* Every task of the session is cancelled; the futures are not.
Break ==
    /\ session # 0
    /\ IF session \in Alive /\ session = hub THEN Fault ELSE UNCHANGED faults
    /\ session' = 0
    /\ phase' = "down"
    /\ future' = Left(future)
    /\ late' = Left(late)
    /\ UNCHANGED <<docker, pool, opened, serverVars, wire, tableVars>>

\* A command that cannot be sent, a revocation or a reload takes the entry out of
\* the hub.  The handler lives until it finds its socket closed.
Dismiss ==
    /\ hub # 0
    /\ Fault
    /\ hub' = 0
    /\ UNCHANGED <<docker, collectVars, sessionVars, handler, wire, tableVars>>

-----------------------------------------------------------------------------
(***************************************************************************)
(* The handler of the server                                                *)
(***************************************************************************)

\* A wrong variant: a row that exists is not updated.
InsertOnly(table, listed) == table \cup listed

\* A wrong variant: the rows that were not listed stay.
UpsertOnly(table, listed) == listed \cup {r \in table : \A l \in listed : l.id # r.id}

\* Rows are inserted or updated by id, then the rows that were not listed are
\* deleted.
Replace(table, listed) ==
    {r \in UpsertOnly(table, listed) : \E l \in listed : l.id = r.id}

\* A wrong variant: a list does not end the staleness.
ReceiveListStale(s) ==
    /\ s \in Serving
    /\ wire[s] # <<>> /\ Head(wire[s]) # NoList
    /\ wire' = [wire EXCEPT ![s] = Tail(@)]
    /\ rows' = Replace(rows, Head(wire[s]).rows)
    /\ seen' = Head(wire[s]).from
    /\ status' = IF status = "stale" THEN "stale" ELSE "current"
    /\ UNCHANGED <<docker, collectVars, sessionVars, serverVars, faults>>

\* A list replaces the rows of the node, whichever connection it comes from.
ReceiveList(s) ==
    /\ s \in Serving
    /\ wire[s] # <<>> /\ Head(wire[s]) # NoList
    /\ wire' = [wire EXCEPT ![s] = Tail(@)]
    /\ rows' = Replace(rows, Head(wire[s]).rows)
    /\ seen' = Head(wire[s]).from
    /\ status' = "current"
    /\ UNCHANGED <<docker, collectVars, sessionVars, serverVars, faults>>

\* A failed collection leaves the rows as they are.
ReceiveFailure(s) ==
    /\ s \in Serving
    /\ wire[s] # <<>> /\ Head(wire[s]) = NoList
    /\ wire' = [wire EXCEPT ![s] = Tail(@)]
    /\ status' = "stale"
    /\ UNCHANGED <<docker, collectVars, sessionVars, serverVars, rows, seen, faults>>

\* The handler finds the connection closed, or a record that cannot be written
\* ends it.  It takes its own entry out of the hub; the messages on the way are
\* gone.
Leave(s) ==
    /\ s \in Serving
    /\ IF s = session /\ s = hub THEN Fault ELSE UNCHANGED faults
    /\ handler' = [handler EXCEPT ![s] = "ended"]
    /\ hub' = IF hub = s THEN 0 ELSE hub
    /\ wire' = [wire EXCEPT ![s] = <<>>]
    /\ UNCHANGED <<docker, collectVars, sessionVars, tableVars>>

-----------------------------------------------------------------------------
Next ==
    \/ Change \/ Connect \/ Refused \/ Break \/ Dismiss
    \/ \E k \in Keys : \/ \E caller \in Callers : Turn(k, caller)
                       \/ Timeout(k) \/ Called(k) \/ CalledLate(k)
    \/ \E i \in 1 .. Workers : List(i) \/ Return(i) \/ Fail(i)
    \/ \E s \in Sessions : \/ Greet(s) \/ GreetFails(s)
                           \/ ReceiveList(s) \/ ReceiveFailure(s) \/ Leave(s)

Spec == Init /\ [][Next]_vars

\* The loops go on, threads that are not stuck return, a wait for a stuck one is
\* ended by collection_timeout_seconds, callbacks run, both ends of a connection
\* notice its end, and the agent tries to connect again.  Nothing is assumed of an
\* entry in the hub whose handler is gone.
FairSpec ==
    /\ Spec
    /\ WF_vars(Connect)
    /\ WF_vars(session \notin Alive /\ Break)
    /\ WF_vars(Turn("host_info", "hello"))
    /\ WF_vars(Turn(Inventory, "loop"))
    /\ \A i \in 1 .. Workers : WF_vars(List(i)) /\ WF_vars(Return(i))
    /\ \A k \in Keys : WF_vars(Called(k)) /\ WF_vars(CalledLate(k))
    /\ \A k \in Stuck : WF_vars(Timeout(k))
    /\ \A s \in Sessions : /\ WF_vars(Greet(s))
                           /\ WF_vars(ReceiveList(s) \/ ReceiveFailure(s))
                           /\ WF_vars(s # session /\ Leave(s))

-----------------------------------------------------------------------------
TypeOK ==
    /\ docker \in 1 .. Len(Contents)
    /\ future \in [Keys -> Future]
    /\ late \in [Keys -> Future]
    /\ pool \in Seq([key : Keys, taken : Versions])
    /\ opened \in 0 .. MaxFaults + 1
    /\ session \in Sessions \cup {0}
    /\ phase \in {"down", "connected", "up"}
    /\ hub \in Sessions \cup {0}
    /\ handler \in [Sessions -> {"unused", "greeting", "serving", "ended"}]
    /\ wire \in [Sessions -> Seq(Lists)]
    /\ \A r, s \in rows : r.id = s.id => r = s
    /\ status \in {"unknown", "current", "stale"}
    /\ seen \in Versions
    /\ faults \in 0 .. MaxFaults

\* A key never takes two threads, over time-outs, sessions and callbacks that run
\* late; its future is registered as long as its job is in the pool
\* (_run_blocking_collection against _collection_finished).
OneJobPerKey ==
    /\ \A i, j \in 1 .. Len(pool) : pool[i].key = pool[j].key => i = j
    /\ \A k \in Keys : future[k].state = "pending" <=> \E i \in 1 .. Len(pool) : pool[i].key = k

\* A list that is sent was taken after it was asked for, ids and containers: the
\* inventory that follows a command shows what the command has done.
ListsAreFresh ==
    \A k \in Keys : \A f \in {future[k], late[k]} :
        f.state = "done" /\ f.result # NoList => f.result.from >= f.since

\* The table implements ContainerTable: it is always a list that Docker gave at
\* some time, and it goes back to an earlier one only while the handler of an
\* earlier connection lives, whatever sessions, dismissals and failed collections
\* lie between (replace_inventory and register_agent against the loops of the
\* agent).
Table ==
    INSTANCE ContainerTable WITH
        shown   <- seen,
        overlap <- \E s \in Alive : s < opened

FollowsDocker == Table!Spec

\* When Docker and the connections are left alone, the table ends up with what
\* Docker holds, although threads are stuck, and is not stale for good; unless
\* the hub keeps the entry of a handler that failed to greet, for which every
\* new connection is refused.
TableConverges ==
    \/ <>[](hub # 0 /\ hub \notin Alive)
    \/ <>[](rows = Contents[docker]) /\ []<>(status = "current")

=============================================================================
