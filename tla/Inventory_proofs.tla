--------------------------- MODULE Inventory_proofs ---------------------------
(***************************************************************************)
(* Theorems about Inventory, for all contents of Docker, keys, stuck        *)
(* collectors, sizes of the pool and numbers of faults.                     *)
(***************************************************************************)
EXTENDS Inventory, TLAPS

LEMMA Bounds ==
    /\ Len(Contents) \in Nat \ {0} /\ Inventory \in Keys
    /\ Workers \in Nat /\ MaxFaults \in Nat /\ "nobody" \notin Callers
    /\ 0 \in Versions /\ Versions \subseteq Nat
    /\ NoList \in Lists /\ NoList.from = 0
BY InventoryAssumption, DockerAssumption
   DEF InventoryAssumption, DockerAssumption, Inventory, Callers, Versions, Lists, NoList

\* A list that Docker has given by now: its ids are of one content, and its
\* containers of that and later ones.
Given(list, now) ==
    list # NoList => list.from \in 1 .. now /\ list.rows \in Readings(list.from, now)

LEMMA ReadingsGrow ==
    ASSUME NEW v \in Nat, NEW w \in Nat, NEW x \in Nat, w <= x
    PROVE  Readings(v, w) \subseteq Readings(v, x)
<1>1. v .. w \subseteq v .. x
  OBVIOUS
<1>2. UNION {Contents[y] : y \in v .. w} \subseteq UNION {Contents[y] : y \in v .. x}
  BY <1>1
<1>3. SUBSET UNION {Contents[y] : y \in v .. w} \subseteq SUBSET UNION {Contents[y] : y \in v .. x}
  BY <1>2
<1>. QED
  BY <1>3 DEF Readings

LEMMA GivenGrows ==
    ASSUME NEW list, NEW now \in Nat, NEW later \in Nat, now <= later, Given(list, now)
    PROVE  Given(list, later)
BY ReadingsGrow DEF Given

\* A reading is a set of containers that have different ids.
LEMMA ReadingRows ==
    ASSUME NEW v \in 1 .. Len(Contents), NEW w \in 1 .. Len(Contents), NEW listed \in Readings(v, w)
    PROVE  /\ listed \in SUBSET Containers
           /\ \A r, s \in listed : r.id = s.id => r = s
<1>1. v .. w \subseteq 1 .. Len(Contents)
  BY Bounds
<1>2. UNION {Contents[y] : y \in v .. w} \subseteq Containers
  BY <1>1 DEF Containers
<1>. QED
  BY <1>2 DEF Readings

Job == [key : Keys, taken : Versions]

\* A pool without its job i.
Without(i) == [j \in 1 .. Len(pool) - 1 |-> IF j < i THEN pool[j] ELSE pool[j + 1]]

LEMMA WithoutJob ==
    ASSUME TypeOK, NEW i \in 1 .. Len(pool)
    PROVE  /\ Without(i) \in Seq(Job) /\ Len(Without(i)) = Len(pool) - 1
           /\ \A j \in 1 .. Len(pool) - 1 : Without(i)[j] = IF j < i THEN pool[j] ELSE pool[j + 1]
<1>1. pool \in Seq(Job) /\ Len(pool) - 1 \in Nat
  BY DEF TypeOK, Job
<1>2. \A j \in 1 .. Len(pool) - 1 : (IF j < i THEN pool[j] ELSE pool[j + 1]) \in Job
  BY <1>1
<1>. QED
  BY <1>1, <1>2 DEF Without

\* What an answer, a turn and the end of a job do.
LEMMA Answers ==
    ASSUME TypeOK, NEW k \in Keys, NEW caller, NEW result \in Lists, Answer(k, caller, result)
    PROVE  /\ \/ wire' = wire
              \/ /\ k = Inventory /\ caller # "nobody" /\ session \in Serving
                 /\ session \in Sessions
                 /\ wire' = [wire EXCEPT ![session] = Append(@, result)]
           /\ wire' \in [Sessions -> Seq(Lists)]
           /\ phase' \in {"down", "connected", "up"}
<1>1. CASE k = Inventory /\ caller # "nobody" /\ session \in Serving
  <2>1. wire' = [wire EXCEPT ![session] = Append(@, result)] /\ session \in Sessions
    BY <1>1 DEF Answer, Serving
  <2>2. Append(wire[session], result) \in Seq(Lists)
    BY <2>1 DEF TypeOK
  <2>. QED
    BY <1>1, <2>1, <2>2 DEF Answer, TypeOK
<1>2. CASE ~ (k = Inventory /\ caller # "nobody" /\ session \in Serving)
  BY <1>2 DEF Answer, TypeOK
<1>. QED
  BY <1>1, <1>2

LEMMA Turns ==
    ASSUME NEW k \in Keys, NEW caller \in Callers, Turn(k, caller)
    PROVE  /\ \/ future[k].state = "pending" /\ Answer(k, caller, NoList) /\ UNCHANGED collectVars
              \/ future[k].state # "pending" /\ Start(k, caller)
           /\ caller \notin {future[k].caller, late[k].caller}
           /\ UNCHANGED <<docker, opened, session, hub, handler, rows, status, seen, faults>>
BY DEF Turn, Collect, tableVars, serverVars

Finished(f, list) == [f EXCEPT !.state = "done", !.result = list]

LEMMA Jobs ==
    ASSUME TypeOK, NEW i \in 1 .. Workers, NEW list, Done(i, list)
    PROVE  /\ i \in 1 .. Len(pool) /\ pool[i] \in Job
           /\ pool' = Without(i)
           /\ future' = [future EXCEPT ![pool[i].key] = Finished(@, list)]
           /\ UNCHANGED <<docker, late, opened, session, phase, hub, handler, wire, rows, status, seen>>
<1>1. i \in 1 .. Len(pool) /\ pool[i] \in Job
  <2>1. i \in 1 .. Len(pool)
    BY DEF Done, Running
  <2>2. pool \in Seq(Job)
    BY DEF TypeOK, Job
  <2>. QED
    BY <2>1, <2>2
<1>2. pool' = Without(i)
  BY DEF Done, Without
<1>3. future' = [future EXCEPT ![pool[i].key] = Finished(@, list)]
  BY Zenon DEF Done, Finished
<1>4. UNCHANGED <<docker, late, opened, session, phase, hub, handler, wire, rows, status, seen>>
  BY DEF Done, sessionVars, serverVars, tableVars
<1>. QED
  BY <1>1, <1>2, <1>3, <1>4

\* A job ends without a list, or with a reading of the ids it has taken.
LEMMA Ends ==
    ASSUME TypeOK, NEW i \in 1 .. Workers, Return(i) \/ Fail(i)
    PROVE  /\ \E list \in Lists :
                 /\ Done(i, list)
                 /\ list # NoList => /\ list.from = pool[i].taken /\ pool[i].taken # 0
                                     /\ list.rows \in Readings(pool[i].taken, docker)
           /\ faults' \in 0 .. MaxFaults
<1>1. CASE Done(i, NoList)
  BY <1>1, Bounds DEF Return, Fail, Fault, TypeOK
<1>2. CASE ~ Done(i, NoList)
  <2>1. Return(i) /\ pool[i].taken # 0
    BY <1>2 DEF Return, Fail
  <2>2. PICK listed \in Readings(pool[i].taken, docker) :
            Done(i, [from |-> pool[i].taken, rows |-> listed])
    BY <1>2, <2>1 DEF Return
  <2>3. pool[i] \in Job
    BY <2>2, Jobs
  <2>4. pool[i].taken \in 1 .. Len(Contents) /\ pool[i].taken \in Versions /\ docker \in 1 .. Len(Contents)
    BY <2>1, <2>3, Bounds DEF Job, Versions, TypeOK
  <2>5. listed \in SUBSET Containers
    BY <2>2, <2>4, ReadingRows
  <2>6. [from |-> pool[i].taken, rows |-> listed] \in Lists
    BY <2>4, <2>5 DEF Lists
  <2>. QED
    BY <2>1, <2>2, <2>6, Zenon DEF Return, TypeOK
<1>. QED
  BY <1>1, <1>2

\* The fields of a future.
LEMMA Fields ==
    ASSUME NEW f \in Future
    PROVE  /\ f.state \in {"none", "pending", "done"}
           /\ f.caller \in Callers \cup {"nobody"} /\ f.since \in Versions /\ f.result \in Lists
           /\ f.result.from \in Versions
BY DEF Future, Lists

LEMMA ReleasedFields ==
    ASSUME NEW f \in Future
    PROVE  /\ Released(f) \in Future
           /\ Released(f).state = f.state /\ Released(f).result = f.result
           /\ Released(f).caller = "nobody" /\ Released(f).since = 0
BY Bounds DEF Future, Released

LEMMA FinishedFields ==
    ASSUME NEW f \in Future, NEW list \in Lists
    PROVE  /\ Finished(f, list) \in Future
           /\ Finished(f, list).state = "done" /\ Finished(f, list).result = list
           /\ Finished(f, list).caller = f.caller /\ Finished(f, list).since = f.since
BY DEF Future, Finished

LEMMA AskedFields ==
    ASSUME TypeOK, NEW k \in Keys, NEW caller \in Callers
    PROVE  /\ Asked(k, caller) \in Future
           /\ Asked(k, caller).state = "pending" /\ Asked(k, caller).caller = caller
           /\ Asked(k, caller).result = NoList
           /\ Asked(k, caller).since = IF k = Inventory THEN docker ELSE 0
BY Bounds DEF TypeOK, Asked, Future, Versions

LEMMA NoFutureFields ==
    /\ NoFuture \in Future
    /\ NoFuture.state = "none" /\ NoFuture.caller = "nobody" /\ NoFuture.since = 0
    /\ NoFuture.result = NoList
BY Bounds DEF NoFuture, Future

LEMMA LeftType ==
    ASSUME NEW futures \in [Keys -> Future]
    PROVE  /\ Left(futures) \in [Keys -> Future]
           /\ \A k \in Keys : Left(futures)[k] = Released(futures[k])
<1>1. \A k \in Keys : Released(futures[k]) \in Future
  BY ReleasedFields
<1>. QED
  BY <1>1 DEF Left

-----------------------------------------------------------------------------
(***************************************************************************)
(* Types                                                                    *)
(***************************************************************************)

\* A list that replaces the rows is what is left of them.
LEMMA Replaced == ASSUME NEW table, NEW listed PROVE Replace(table, listed) = listed
BY DEF Replace, UpsertOnly

\* What is on the way.
LEMMA Wires ==
    ASSUME TypeOK
    PROVE  /\ seen \in Nat
           /\ \A s \in Sessions : wire[s] \in Seq(Lists) /\ Len(wire[s]) \in Nat
           /\ \A s \in Sessions : \A n \in 1 .. Len(wire[s]) :
                 wire[s][n] \in Lists /\ wire[s][n].from \in Nat
<1>1. \A s \in Sessions : wire[s] \in Seq(Lists)
  BY DEF TypeOK
<1>2. ASSUME NEW s \in Sessions, NEW n \in 1 .. Len(wire[s])
      PROVE  wire[s][n] \in Lists /\ wire[s][n].from \in Nat
  <2>1. wire[s][n] \in Lists
    BY <1>1
  <2>. QED
    BY <2>1, Bounds DEF Lists
<1>3. \A s \in Sessions : Len(wire[s]) \in Nat
  BY <1>1
<1>4. seen \in Nat
  BY Bounds DEF TypeOK
<1>. QED
  BY <1>1, <1>2, <1>3, <1>4

\* Every list that a future has or that is on the way was given by Docker.
ListsGiven ==
    /\ \A k \in Keys : Given(future[k].result, docker) /\ Given(late[k].result, docker)
    /\ \A s \in Sessions : \A n \in 1 .. Len(wire[s]) : Given(wire[s][n], docker)

LEMMA InitTypes == Init => TypeOK
<1> SUFFICES ASSUME Init PROVE TypeOK
  OBVIOUS
<1>1. future \in [Keys -> Future] /\ late \in [Keys -> Future]
  BY NoFutureFields DEF Init
<1>. QED
  BY <1>1, Bounds DEF Init, TypeOK

LEMMA CollectTypes ==
    ASSUME TypeOK,
           \/ \E k \in Keys : \/ \E caller \in Callers : Turn(k, caller)
                              \/ Timeout(k) \/ Called(k) \/ CalledLate(k)
           \/ \E i \in 1 .. Workers : List(i) \/ Return(i) \/ Fail(i)
    PROVE  TypeOK'
<1>1. ASSUME NEW k \in Keys, NEW caller \in Callers, Turn(k, caller) PROVE TypeOK'
  <2>1. UNCHANGED <<docker, opened, session, hub, handler, rows, status, seen, faults>>
    BY <1>1, Turns
  <2>2. CASE Answer(k, caller, NoList) /\ UNCHANGED collectVars
    <3>1. wire' \in [Sessions -> Seq(Lists)] /\ phase' \in {"down", "connected", "up"}
      BY <2>2, Answers, Bounds
    <3>. QED
      BY <2>1, <2>2, <3>1 DEF TypeOK, collectVars
  <2>3. CASE Start(k, caller)
    <3>1. Append(pool, [key |-> k, taken |-> 0]) \in Seq([key : Keys, taken : Versions])
      BY Bounds DEF TypeOK
    <3>2. late' \in [Keys -> Future] /\ future' \in [Keys -> Future]
      BY <2>3, AskedFields DEF Start, TypeOK
    <3>. QED
      BY <2>1, <2>3, <3>1, <3>2 DEF Start, TypeOK
  <2>. QED
    BY <1>1, <2>2, <2>3, Turns
<1>2. ASSUME NEW k \in Keys, Timeout(k) PROVE TypeOK'
  <2>1. wire' \in [Sessions -> Seq(Lists)] /\ phase' \in {"down", "connected", "up"}
    BY <1>2, Answers, Bounds DEF Timeout
  <2>2. future' \in [Keys -> Future]
    BY <1>2, ReleasedFields DEF Timeout, TypeOK
  <2>3. faults' \in 0 .. MaxFaults
    BY <1>2, Bounds DEF Timeout, Fault, TypeOK
  <2>. QED
    BY <1>2, <2>1, <2>2, <2>3 DEF Timeout, TypeOK, tableVars, serverVars
<1>3. ASSUME NEW k \in Keys, Called(k) PROVE TypeOK'
  <2>1. wire' \in [Sessions -> Seq(Lists)] /\ phase' \in {"down", "connected", "up"}
    BY <1>3, Answers, Fields DEF TypeOK, Called
  <2>2. future' \in [Keys -> Future]
    BY <1>3, NoFutureFields DEF Called, TypeOK
  <2>. QED
    BY <1>3, <2>1, <2>2 DEF Called, TypeOK, tableVars, serverVars
<1>4. ASSUME NEW k \in Keys, CalledLate(k) PROVE TypeOK'
  <2>1. wire' \in [Sessions -> Seq(Lists)] /\ phase' \in {"down", "connected", "up"}
    BY <1>4, Answers, Fields DEF TypeOK, CalledLate
  <2>2. late' \in [Keys -> Future]
    BY <1>4, NoFutureFields DEF CalledLate, TypeOK
  <2>. QED
    BY <1>4, <2>1, <2>2 DEF CalledLate, TypeOK, tableVars, serverVars
<1>5. ASSUME NEW i \in 1 .. Workers, List(i) PROVE TypeOK'
  <2>1. i \in 1 .. Len(pool)
    BY <1>5 DEF List, Running
  <2>2. pool \in Seq(Job) /\ docker \in Versions
    BY DEF TypeOK, Job, Versions
  <2>3. pool[i] \in Job
    BY <2>1, <2>2
  <2>4. [pool EXCEPT ![i].taken = docker] \in Seq([key : Keys, taken : Versions])
    BY <2>1, <2>2, <2>3 DEF Job
  <2>. QED
    BY <1>5, <2>4 DEF List, TypeOK, tableVars, sessionVars, serverVars
<1>6. ASSUME NEW i \in 1 .. Workers, Return(i) \/ Fail(i) PROVE TypeOK'
  <2>1. PICK list \in Lists : Done(i, list)
    BY <1>6, Ends
  <2>2. pool' \in Seq([key : Keys, taken : Versions])
    BY <2>1, Jobs, WithoutJob DEF Job
  <2>3. future' \in [Keys -> Future]
    <3>1. pool[i].key \in Keys
      BY <2>1, Jobs DEF Job
    <3>2. future \in [Keys -> Future] /\ Finished(future[pool[i].key], list) \in Future
      BY <3>1, FinishedFields DEF TypeOK
    <3>3. future' = [future EXCEPT ![pool[i].key] = Finished(@, list)]
      BY <2>1, Jobs
    <3>. QED
      BY <3>1, <3>2, <3>3
  <2>4. faults' \in 0 .. MaxFaults
    BY <1>6, Ends
  <2>. QED
    BY <2>1, <2>2, <2>3, <2>4, Jobs DEF TypeOK
<1>. QED
  BY <1>1, <1>2, <1>3, <1>4, <1>5, <1>6

LEMMA SessionTypes ==
    ASSUME TypeOK, \/ Connect \/ Refused \/ Break \/ Dismiss
                   \/ \E s \in Sessions : Greet(s) \/ GreetFails(s)
    PROVE  TypeOK'
<1>1. CASE Connect
  <2>1. opened + 1 \in Sessions
    BY <1>1, Bounds DEF Connect, TypeOK, Sessions
  <2>2. /\ opened' \in 0 .. MaxFaults + 1 /\ session' \in Sessions /\ hub' \in Sessions
        /\ handler' \in [Sessions -> {"unused", "greeting", "serving", "ended"}]
    BY <1>1, <2>1, Bounds DEF Connect, TypeOK, Sessions
  <2>. QED
    BY <1>1, <2>2 DEF Connect, TypeOK, collectVars, tableVars
<1>2. CASE Break
  <2>1. future' \in [Keys -> Future] /\ late' \in [Keys -> Future]
    BY <1>2, LeftType DEF Break, TypeOK
  <2>2. faults' \in 0 .. MaxFaults
    BY <1>2, Bounds DEF Break, Fault, TypeOK
  <2>. QED
    BY <1>2, <2>1, <2>2 DEF Break, TypeOK, tableVars, serverVars
<1>3. CASE Dismiss
  BY <1>3, Bounds DEF Dismiss, Fault, TypeOK, collectVars, sessionVars, tableVars
<1>4. ASSUME NEW s \in Sessions, Greet(s) PROVE TypeOK'
  BY <1>4 DEF Greet, TypeOK, collectVars, tableVars
<1>5. ASSUME NEW s \in Sessions, GreetFails(s) PROVE TypeOK'
  <2>1. faults' \in 0 .. MaxFaults
    BY <1>5, Bounds DEF GreetFails, Fault, TypeOK
  <2>. QED
    BY <1>5, <2>1 DEF GreetFails, TypeOK, collectVars, sessionVars, tableVars
<1>6. CASE Refused
  BY <1>6 DEF Refused, vars, TypeOK, collectVars, sessionVars, serverVars, tableVars
<1>. QED
  BY <1>1, <1>2, <1>3, <1>4, <1>5, <1>6

LEMMA TypeStep == TypeOK /\ ListsGiven /\ [Next]_vars => TypeOK'
<1> SUFFICES ASSUME TypeOK, ListsGiven, [Next]_vars PROVE TypeOK'
  OBVIOUS
<1>1. CASE \/ \E k \in Keys : \/ \E caller \in Callers : Turn(k, caller)
                              \/ Timeout(k) \/ Called(k) \/ CalledLate(k)
           \/ \E i \in 1 .. Workers : List(i) \/ Return(i) \/ Fail(i)
  BY <1>1, CollectTypes
<1>2. CASE Change
  BY <1>2, Bounds DEF Change, TypeOK, collectVars, sessionVars, serverVars, tableVars
<1>3. CASE \/ Connect \/ Refused \/ Break \/ Dismiss
           \/ \E s \in Sessions : Greet(s) \/ GreetFails(s)
  BY <1>3, SessionTypes
<1>5. ASSUME NEW s \in Sessions, ReceiveList(s) PROVE TypeOK'
  <2>1. wire[s] \in Seq(Lists) /\ wire[s] # <<>> /\ Head(wire[s]) # NoList
    BY <1>5 DEF ReceiveList, TypeOK
  <2>2. Head(wire[s]) = wire[s][1] /\ 1 \in 1 .. Len(wire[s]) /\ Head(wire[s]) \in Lists
        /\ Tail(wire[s]) \in Seq(Lists)
    BY <2>1
  <2>3. Given(Head(wire[s]), docker)
    BY <2>2 DEF ListsGiven
  <2>4. Head(wire[s]).from \in 1 .. Len(Contents) /\ docker \in 1 .. Len(Contents)
        /\ Head(wire[s]).rows \in Readings(Head(wire[s]).from, docker)
        /\ Head(wire[s]).from \in Versions
    BY <2>1, <2>2, <2>3, Bounds DEF Given, Versions, TypeOK
  <2>5. rows' = Head(wire[s]).rows
    BY <1>5, Replaced DEF ReceiveList
  <2>6. \A r, q \in rows' : r.id = q.id => r = q
    BY <2>4, <2>5, ReadingRows
  <2>7. UNCHANGED <<docker, future, late, pool, opened, session, phase, hub, handler, faults>>
    BY <1>5 DEF ReceiveList, collectVars, sessionVars, serverVars
  <2>8. wire' \in [Sessions -> Seq(Lists)] /\ seen' \in Versions /\ status' = "current"
    BY <1>5, <2>2, <2>4 DEF ReceiveList, TypeOK
  <2>. QED
    BY <2>6, <2>7, <2>8 DEF TypeOK
<1>6. ASSUME NEW s \in Sessions, ReceiveFailure(s) PROVE TypeOK'
  <2>1. Tail(wire[s]) \in Seq(Lists)
    BY <1>6 DEF ReceiveFailure, TypeOK
  <2>. QED
    BY <1>6, <2>1 DEF ReceiveFailure, TypeOK, collectVars, sessionVars, serverVars
<1>7. ASSUME NEW s \in Sessions, Leave(s) PROVE TypeOK'
  <2>1. faults' \in 0 .. MaxFaults
    BY <1>7, Bounds DEF Leave, Fault, TypeOK
  <2>2. hub' \in Sessions \cup {0} /\ handler' \in [Sessions -> {"unused", "greeting", "serving", "ended"}]
        /\ wire' \in [Sessions -> Seq(Lists)]
    BY <1>7 DEF Leave, TypeOK
  <2>. QED
    BY <1>7, <2>1, <2>2 DEF Leave, TypeOK, collectVars, sessionVars, tableVars
<1>8. CASE UNCHANGED vars
  BY <1>8 DEF vars, TypeOK, collectVars, sessionVars, serverVars, tableVars
<1>. QED
  BY <1>1, <1>2, <1>3, <1>5, <1>6, <1>7, <1>8 DEF Next

-----------------------------------------------------------------------------
(***************************************************************************)
(* Jobs                                                                     *)
(***************************************************************************)

\* The steps that touch neither the keys of the jobs nor who is pending.
LEMMA JobsKept ==
    ASSUME OneJobPerKey, Len(pool') = Len(pool),
           \A i \in 1 .. Len(pool) : pool'[i].key = pool[i].key,
           \A k \in Keys : future'[k].state = "pending" <=> future[k].state = "pending"
    PROVE  OneJobPerKey'
BY DEF OneJobPerKey

LEMMA JobStarts ==
    ASSUME TypeOK, OneJobPerKey, NEW k \in Keys, NEW caller \in Callers,
           future[k].state # "pending", Start(k, caller)
    PROVE  OneJobPerKey'
<1>1. /\ Len(pool') = Len(pool) + 1
      /\ \A i \in 1 .. Len(pool) : pool'[i] = pool[i]
      /\ pool'[Len(pool) + 1].key = k
      /\ Len(pool) \in Nat
  BY DEF Start, TypeOK
<1>2. future'[k].state = "pending" /\ \A j \in Keys \ {k} : future'[j] = future[j]
  BY AskedFields DEF Start, TypeOK
<1>3. \A i \in 1 .. Len(pool) : pool[i].key # k
  BY DEF OneJobPerKey
<1>4. \A i \in 1 .. Len(pool) + 1 : i \in 1 .. Len(pool) \/ i = Len(pool) + 1
  BY <1>1
<1>5. \A i, j \in 1 .. Len(pool') : pool'[i].key = pool'[j].key => i = j
  BY <1>1, <1>3, <1>4 DEF OneJobPerKey
<1>6. ASSUME NEW l \in Keys
      PROVE  future'[l].state = "pending" <=> \E i \in 1 .. Len(pool') : pool'[i].key = l
  <2>1. CASE l = k
    <3>1. Len(pool) + 1 \in 1 .. Len(pool')
      BY <1>1
    <3>. QED
      BY <2>1, <3>1, <1>1, <1>2
  <2>2. CASE l # k
    <3>1. (\E i \in 1 .. Len(pool') : pool'[i].key = l) <=> \E i \in 1 .. Len(pool) : pool[i].key = l
      BY <2>2, <1>1, <1>4
    <3>. QED
      BY <2>2, <3>1, <1>2 DEF OneJobPerKey
  <2>. QED
    BY <2>1, <2>2
<1>. QED
  BY <1>5, <1>6 DEF OneJobPerKey

LEMMA JobEnds ==
    ASSUME TypeOK, OneJobPerKey, NEW i \in 1 .. Workers, NEW list \in Lists, Done(i, list)
    PROVE  OneJobPerKey'
<1>1. i \in 1 .. Len(pool) /\ pool[i].key \in Keys
  <2>1. i \in 1 .. Len(pool) /\ pool[i] \in Job
    BY Jobs
  <2>. QED
    BY <2>1 DEF Job
<1>2. /\ Len(pool') = Len(pool) - 1 /\ Len(pool) \in Nat
      /\ \A j \in 1 .. Len(pool') : pool'[j] = IF j < i THEN pool[j] ELSE pool[j + 1]
  <2>1. Len(pool) \in Nat
    BY DEF TypeOK
  <2>. QED
    BY <1>1, <2>1, Jobs, WithoutJob
<1>3. /\ future'[pool[i].key].state = "done"
      /\ \A l \in Keys \ {pool[i].key} : future'[l] = future[l]
  <2>1. future \in [Keys -> Future] /\ future[pool[i].key] \in Future
    BY <1>1 DEF TypeOK
  <2>2. future' = [future EXCEPT ![pool[i].key] = Finished(@, list)]
    BY Jobs
  <2>. QED
    BY <1>1, <2>1, <2>2, FinishedFields
<1>4. ASSUME NEW j \in 1 .. Len(pool'), NEW l \in 1 .. Len(pool'), pool'[j].key = pool'[l].key
      PROVE  j = l
  <2> DEFINE place(n) == IF n < i THEN n ELSE n + 1
  <2>1. place(j) \in 1 .. Len(pool) /\ place(l) \in 1 .. Len(pool)
    BY <1>1, <1>2
  <2>2. pool'[j] = pool[place(j)] /\ pool'[l] = pool[place(l)]
    BY <1>2
  <2>3. place(j) = place(l)
    BY <1>4, <2>1, <2>2 DEF OneJobPerKey
  <2>. QED
    BY <1>1, <1>2, <2>3
<1>5. ASSUME NEW j \in 1 .. Len(pool) PROVE pool[j].key # pool[i].key <=> j # i
  BY <1>1 DEF OneJobPerKey
<1>6. ASSUME NEW l \in Keys
      PROVE  future'[l].state = "pending" <=> \E j \in 1 .. Len(pool') : pool'[j].key = l
  <2>1. CASE l = pool[i].key
    BY <2>1, <1>1, <1>2, <1>3, <1>5
  <2>2. CASE l # pool[i].key
    <3>1. ASSUME NEW j \in 1 .. Len(pool), pool[j].key = l PROVE \E n \in 1 .. Len(pool') : pool'[n].key = l
      <4>1. CASE j < i
        BY <4>1, <3>1, <1>1, <1>2
      <4>2. CASE j > i
        <5>1. j - 1 \in 1 .. Len(pool') /\ ~ (j - 1 < i) /\ (j - 1) + 1 = j
          BY <4>2, <1>1, <1>2
        <5>. QED
          BY <5>1, <3>1, <1>2
      <4>. QED
        BY <2>2, <3>1, <4>1, <4>2, <1>1
    <3>2. ASSUME NEW n \in 1 .. Len(pool'), pool'[n].key = l PROVE \E j \in 1 .. Len(pool) : pool[j].key = l
      BY <3>2, <1>1, <1>2
    <3>. QED
      BY <2>2, <3>1, <3>2, <1>3 DEF OneJobPerKey
  <2>. QED
    BY <2>1, <2>2
<1>. QED
  BY <1>4, <1>6 DEF OneJobPerKey

\* A turn submits a job only for a key without one, and the future that is
\* replaced or removed is done.
LEMMA JobsStep == TypeOK /\ OneJobPerKey /\ [Next]_vars => OneJobPerKey'
<1> SUFFICES ASSUME TypeOK, OneJobPerKey, [Next]_vars PROVE OneJobPerKey'
  OBVIOUS
<1>1. ASSUME UNCHANGED <<future, pool>> PROVE OneJobPerKey'
  BY <1>1 DEF OneJobPerKey
<1>2. ASSUME NEW k \in Keys, NEW caller \in Callers, Turn(k, caller) PROVE OneJobPerKey'
  BY <1>1, <1>2, Turns, JobStarts DEF collectVars
<1>3. ASSUME NEW k \in Keys, Timeout(k) PROVE OneJobPerKey'
  <2>1. pool' = pool /\ \A j \in Keys : future'[j].state = future[j].state
    BY <1>3, ReleasedFields DEF Timeout, TypeOK
  <2>. QED
    BY <2>1, JobsKept
<1>4. ASSUME NEW k \in Keys, Called(k) PROVE OneJobPerKey'
  <2>1. pool' = pool /\ \A j \in Keys : future'[j].state = "pending" <=> future[j].state = "pending"
    BY <1>4, NoFutureFields DEF Called, TypeOK
  <2>. QED
    BY <2>1, JobsKept
<1>5. ASSUME NEW i \in 1 .. Workers, List(i) PROVE OneJobPerKey'
  <2>1. future' = future /\ Len(pool') = Len(pool)
        /\ \A j \in 1 .. Len(pool) : pool'[j].key = pool[j].key
    BY <1>5 DEF List, TypeOK
  <2>. QED
    BY <2>1, JobsKept
<1>6. ASSUME NEW i \in 1 .. Workers, Return(i) \/ Fail(i) PROVE OneJobPerKey'
  <2>1. PICK list \in Lists : Done(i, list)
    BY <1>6, Ends
  <2>. QED
    BY <2>1, JobEnds
<1>7. CASE Break
  <2>1. pool' = pool /\ \A j \in Keys : future'[j].state = future[j].state
    BY <1>7, LeftType, ReleasedFields DEF Break, TypeOK
  <2>. QED
    BY <2>1, JobsKept
<1>8. CASE \/ Change \/ Connect \/ Refused \/ Dismiss \/ UNCHANGED vars
           \/ \E s \in Sessions : Greet(s) \/ GreetFails(s)
  BY <1>1, <1>8 DEF Change, Connect, Refused, Dismiss, Greet, GreetFails, vars, collectVars
<1>9. ASSUME NEW k \in Keys, CalledLate(k) PROVE OneJobPerKey'
  BY <1>1, <1>9 DEF CalledLate
<1>10. ASSUME NEW s \in Sessions, ReceiveList(s) \/ ReceiveFailure(s) \/ Leave(s) PROVE OneJobPerKey'
  BY <1>1, <1>10 DEF ReceiveList, ReceiveFailure, Leave, collectVars
<1>. QED
  BY <1>2, <1>3, <1>4, <1>5, <1>6, <1>7, <1>8, <1>9, <1>10 DEF Next

LEMMA InitJobs == Init => OneJobPerKey
BY NoFutureFields DEF Init, OneJobPerKey

-----------------------------------------------------------------------------
(***************************************************************************)
(* Freshness: a list is between the content when it was asked for and the   *)
(* content now.                                                             *)
(***************************************************************************)

Within(f, now) ==
    /\ f.since <= now /\ f.result.from <= now
    /\ f.state = "done" /\ f.result # NoList => f.result.from >= f.since

FuturesWithin == \A k \in Keys : Within(future[k], docker) /\ Within(late[k], docker)

JobsWithin ==
    \A i \in 1 .. Len(pool) :
        pool[i].taken # 0 => future[pool[i].key].since <= pool[i].taken /\ pool[i].taken <= docker

Fresh == FuturesWithin /\ JobsWithin

LEMMA FreshLists == TypeOK /\ Fresh => ListsAreFresh
BY DEF Fresh, FuturesWithin, Within, ListsAreFresh

LEMMA InitFresh == Init => Fresh
BY NoFutureFields, Bounds DEF Init, Fresh, FuturesWithin, JobsWithin, Within

LEMMA Numbers ==
    ASSUME TypeOK
    PROVE  /\ docker \in Nat /\ docker # 0 /\ docker \in Versions /\ Len(pool) \in Nat
           /\ \A k \in Keys : future[k] \in Future /\ late[k] \in Future
           /\ \A k \in Keys : /\ future[k].since \in Nat /\ future[k].result.from \in Nat
                              /\ late[k].since \in Nat /\ late[k].result.from \in Nat
           /\ \A i \in 1 .. Len(pool) : pool[i].key \in Keys /\ pool[i].taken \in Nat
<1>1. docker \in Nat /\ docker # 0 /\ docker \in Versions /\ Len(pool) \in Nat
  BY DEF TypeOK, Versions
<1>2. \A k \in Keys : future[k] \in Future /\ late[k] \in Future
  BY DEF TypeOK
<1>3. ASSUME NEW i \in 1 .. Len(pool) PROVE pool[i].key \in Keys /\ pool[i].taken \in Nat
  <2>1. pool \in Seq(Job)
    BY DEF TypeOK, Job
  <2>2. pool[i] \in Job
    BY <2>1
  <2>. QED
    BY <2>2, Bounds DEF Job
<1>. QED
  BY <1>1, <1>2, <1>3, Fields, Bounds

\* The steps that take no list and ask for none.
LEMMA FreshKept ==
    ASSUME TypeOK, Fresh, docker' \in Nat, docker' >= docker, pool' = pool,
           \A k \in Keys : \/ future'[k] = future[k]
                           \/ future'[k] = Released(future[k]) \/ future'[k] = NoFuture,
           \A k \in Keys : \/ late'[k] = late[k]
                           \/ late'[k] = Released(late[k]) \/ late'[k] = NoFuture
    PROVE  Fresh'
<1>1. ASSUME NEW f \in Future, NEW g, Within(f, docker), g = f \/ g = Released(f) \/ g = NoFuture
      PROVE  Within(g, docker') /\ g.since <= f.since
  <2>1. f.since \in Nat /\ f.result.from \in Nat /\ docker \in Nat
    BY Fields, Bounds, Numbers
  <2>. QED
    BY <1>1, <2>1, ReleasedFields, NoFutureFields, Bounds DEF Within
<1>2. FuturesWithin' /\ \A k \in Keys : future'[k].since <= future[k].since /\ future'[k].since \in Nat
  <2>1. \A k \in Keys : Within(future[k], docker) /\ Within(late[k], docker)
    BY DEF Fresh, FuturesWithin
  <2>2. \A k \in Keys : future'[k].since \in Nat
    BY Numbers, ReleasedFields, NoFutureFields
  <2>. QED
    BY <1>1, <2>1, <2>2, Numbers DEF FuturesWithin
<1>3. JobsWithin'
  BY <1>2, Numbers DEF Fresh, JobsWithin
<1>. QED
  BY <1>2, <1>3 DEF Fresh

LEMMA FreshStart ==
    ASSUME TypeOK, OneJobPerKey, Fresh, NEW k \in Keys, NEW caller \in Callers,
           future[k].state # "pending", Start(k, caller), docker' = docker
    PROVE  Fresh'
<1>1. /\ Len(pool') = Len(pool) + 1
      /\ \A i \in 1 .. Len(pool) : pool'[i] = pool[i]
      /\ pool'[Len(pool) + 1].taken = 0
  BY DEF Start, TypeOK
<1>2. /\ future'[k] = Asked(k, caller) /\ late'[k] = future[k]
      /\ \A j \in Keys \ {k} : future'[j] = future[j] /\ late'[j] = late[j]
  BY DEF Start, TypeOK
<1>3. FuturesWithin'
  <2>1. Within(Asked(k, caller), docker)
    BY AskedFields, Numbers, Bounds DEF Within
  <2>. QED
    BY <1>2, <2>1 DEF Fresh, FuturesWithin
<1>4. ASSUME NEW i \in 1 .. Len(pool), pool[i].taken # 0
      PROVE  future'[pool[i].key].since <= pool[i].taken /\ pool[i].taken <= docker
  <2>1. pool[i].key \in Keys \ {k}
    BY Numbers DEF OneJobPerKey
  <2>. QED
    BY <1>2, <1>4, <2>1 DEF Fresh, JobsWithin
<1>5. \A i \in 1 .. Len(pool') : i \in 1 .. Len(pool) \/ i = Len(pool) + 1
  BY <1>1, Numbers
<1>6. JobsWithin'
  BY <1>1, <1>4, <1>5 DEF JobsWithin
<1>. QED
  BY <1>3, <1>6 DEF Fresh

LEMMA FreshList ==
    ASSUME TypeOK, Fresh, NEW i \in 1 .. Workers, List(i)
    PROVE  Fresh'
<1>1. /\ i \in 1 .. Len(pool) /\ Len(pool') = Len(pool) /\ pool'[i].taken = docker /\ pool'[i].key = pool[i].key
      /\ \A j \in 1 .. Len(pool) \ {i} : pool'[j] = pool[j]
  BY DEF List, Running, TypeOK
<1>2. UNCHANGED <<docker, future, late>>
  BY DEF List
<1>3. FuturesWithin'
  BY <1>2 DEF Fresh, FuturesWithin
<1>4. JobsWithin'
  BY <1>1, <1>2, Numbers DEF Fresh, FuturesWithin, JobsWithin, Within
<1>. QED
  BY <1>3, <1>4 DEF Fresh

LEMMA FreshEnd ==
    ASSUME TypeOK, OneJobPerKey, Fresh, NEW i \in 1 .. Workers, NEW list \in Lists, Done(i, list),
           list # NoList => list.from = pool[i].taken /\ pool[i].taken # 0
    PROVE  Fresh'
<1> DEFINE k == pool[i].key
<1>1. i \in 1 .. Len(pool) /\ k \in Keys /\ pool[i].taken \in Versions /\ pool[i].taken \in Nat
  <2>1. i \in 1 .. Len(pool) /\ pool[i] \in Job
    BY Jobs
  <2>2. pool[i].key \in Keys /\ pool[i].taken \in Versions
    BY <2>1 DEF Job
  <2>. QED
    BY <2>1, <2>2, Bounds
<1>2. /\ Len(pool') = Len(pool) - 1
      /\ \A j \in 1 .. Len(pool') : pool'[j] = IF j < i THEN pool[j] ELSE pool[j + 1]
  <2>1. pool' = Without(i)
    BY Jobs
  <2>. QED
    BY <1>1, <2>1, WithoutJob
<1>3. /\ docker' = docker /\ late' = late
      /\ future'[k] = Finished(future[k], list)
      /\ \A j \in Keys \ {k} : future'[j] = future[j]
  <2>1. future \in [Keys -> Future]
    BY DEF TypeOK
  <2>. QED
    BY <1>1, <2>1, Jobs
<1>4. FuturesWithin'
  <2>1. Within(Finished(future[k], list), docker)
    BY <1>1, FinishedFields, Numbers, Bounds DEF Within, Fresh, FuturesWithin, JobsWithin
  <2>. QED
    BY <1>3, <2>1 DEF Fresh, FuturesWithin
<1>5. \A j \in Keys : future'[j].since = future[j].since
  BY <1>1, <1>3, FinishedFields, Numbers
<1>6. JobsWithin'
  <2> SUFFICES ASSUME NEW j \in 1 .. Len(pool'), pool'[j].taken # 0
               PROVE  future'[pool'[j].key].since <= pool'[j].taken /\ pool'[j].taken <= docker'
    BY DEF JobsWithin
  <2>1. PICK n \in 1 .. Len(pool) : pool'[j] = pool[n]
    <3>1. j \in 1 .. Len(pool) /\ j + 1 \in 1 .. Len(pool)
      BY <1>1, <1>2, Numbers
    <3>. QED
      BY <3>1, <1>2
  <2>. QED
    BY <2>1, <1>3, <1>5, Numbers DEF Fresh, JobsWithin
<1>. QED
  BY <1>4, <1>6 DEF Fresh

\* A list is taken after it was asked for, since a key has one job.
LEMMA FreshStep == TypeOK /\ OneJobPerKey /\ Fresh /\ [Next]_vars => Fresh'
<1> SUFFICES ASSUME TypeOK, OneJobPerKey, Fresh, [Next]_vars PROVE Fresh'
  OBVIOUS
<1>1. ASSUME UNCHANGED <<docker, future, late, pool>> PROVE Fresh'
  BY <1>1 DEF Fresh, FuturesWithin, JobsWithin
<1>2. ASSUME NEW k \in Keys, NEW caller \in Callers, Turn(k, caller) PROVE Fresh'
  BY <1>1, <1>2, Turns, FreshStart DEF collectVars
<1>3. ASSUME NEW k \in Keys, Timeout(k) PROVE Fresh'
  <2>1. UNCHANGED <<docker, late, pool>>
        /\ \A j \in Keys : future'[j] = future[j] \/ future'[j] = Released(future[j])
    BY <1>3 DEF Timeout, TypeOK
  <2>. QED
    BY <2>1, FreshKept, Numbers
<1>4. ASSUME NEW k \in Keys, Called(k) PROVE Fresh'
  <2>1. UNCHANGED <<docker, late, pool>>
        /\ \A j \in Keys : future'[j] = future[j] \/ future'[j] = NoFuture
    BY <1>4 DEF Called, TypeOK
  <2>. QED
    BY <2>1, FreshKept, Numbers
<1>5. ASSUME NEW k \in Keys, CalledLate(k) PROVE Fresh'
  <2>1. UNCHANGED <<docker, future, pool>>
        /\ \A j \in Keys : late'[j] = late[j] \/ late'[j] = NoFuture
    BY <1>5 DEF CalledLate, TypeOK
  <2>. QED
    BY <2>1, FreshKept, Numbers
<1>6. CASE Break
  <2>1. UNCHANGED <<docker, pool>>
        /\ \A j \in Keys : future'[j] = Released(future[j]) /\ late'[j] = Released(late[j])
    BY <1>6, LeftType DEF Break, TypeOK
  <2>. QED
    BY <2>1, FreshKept, Numbers
<1>7. CASE Change
  <2>1. UNCHANGED <<future, late, pool>> /\ docker' = docker + 1
    BY <1>7 DEF Change, collectVars
  <2>. QED
    BY <2>1, FreshKept, Numbers
<1>8. CASE \/ Connect \/ Refused \/ Dismiss \/ UNCHANGED vars
           \/ \E s \in Sessions : Greet(s) \/ GreetFails(s)
  BY <1>1, <1>8 DEF Connect, Refused, Dismiss, Greet, GreetFails, vars, collectVars
<1>9. ASSUME NEW i \in 1 .. Workers, List(i) PROVE Fresh'
  BY <1>9, FreshList
<1>11. ASSUME NEW i \in 1 .. Workers, Return(i) \/ Fail(i) PROVE Fresh'
  BY <1>11, Ends, FreshEnd
<1>10. ASSUME NEW s \in Sessions, ReceiveList(s) \/ ReceiveFailure(s) \/ Leave(s) PROVE Fresh'
  BY <1>1, <1>10 DEF ReceiveList, ReceiveFailure, Leave, collectVars
<1>. QED
  BY <1>2, <1>3, <1>4, <1>5, <1>6, <1>7, <1>8, <1>9, <1>10, <1>11 DEF Next

LEMMA GivenInit == Init => ListsGiven
<1> SUFFICES ASSUME Init PROVE ListsGiven
  OBVIOUS
<1>1. \A s \in Sessions : Len(wire[s]) = 0
  BY DEF Init
<1>. QED
  BY <1>1, NoFutureFields DEF Init, ListsGiven, Given

\* The steps that move the lists, or lose them, while Docker goes on.
LEMMA GivenKept ==
    ASSUME TypeOK, ListsGiven, docker' \in Nat, docker' >= docker,
           \A k \in Keys : \/ future'[k].result \in {NoList, future[k].result, late[k].result}
                           \/ Given(future'[k].result, docker),
           \A k \in Keys : late'[k].result \in {NoList, future[k].result, late[k].result},
           \A s \in Sessions : \A n \in 1 .. Len(wire'[s]) :
              \/ \E m \in 1 .. Len(wire[s]) : wire'[s][n] = wire[s][m]
              \/ Given(wire'[s][n], docker)
    PROVE  ListsGiven'
<1>1. ASSUME NEW list, Given(list, docker) PROVE Given(list, docker')
  BY <1>1, GivenGrows, Numbers
<1>2. Given(NoList, docker)
  BY DEF Given
<1>3. ASSUME NEW k \in Keys PROVE Given(future'[k].result, docker) /\ Given(late'[k].result, docker)
  BY <1>2 DEF ListsGiven
<1>4. ASSUME NEW s \in Sessions, NEW n \in 1 .. Len(wire'[s]) PROVE Given(wire'[s][n], docker)
  BY DEF ListsGiven
<1>. QED
  BY <1>1, <1>3, <1>4 DEF ListsGiven

\* What an answer puts on the way.
LEMMA Answered ==
    ASSUME TypeOK, NEW k \in Keys, NEW caller, NEW result \in Lists, Answer(k, caller, result)
    PROVE  \A s \in Sessions : \A n \in 1 .. Len(wire'[s]) :
              \/ \E m \in 1 .. Len(wire[s]) : wire'[s][n] = wire[s][m]
              \/ wire'[s][n] = result
<1>1. CASE wire' = wire
  BY <1>1
<1>2. CASE session \in Sessions /\ wire' = [wire EXCEPT ![session] = Append(@, result)]
  <2>1. wire[session] \in Seq(Lists) /\ wire'[session] = Append(wire[session], result)
        /\ \A s \in Sessions \ {session} : wire'[s] = wire[s]
    BY <1>2, Wires DEF TypeOK
  <2>2. \A n \in 1 .. Len(wire'[session]) :
            (n \in 1 .. Len(wire[session]) /\ wire'[session][n] = wire[session][n]) \/ wire'[session][n] = result
    BY <2>1
  <2>. QED
    BY <2>1, <2>2
<1>. QED
  BY <1>1, <1>2, Answers

LEMMA GivenCollect ==
    ASSUME TypeOK, Fresh, ListsGiven,
           \/ \E k \in Keys : \/ \E caller \in Callers : Turn(k, caller)
                              \/ Timeout(k) \/ Called(k) \/ CalledLate(k)
           \/ \E i \in 1 .. Workers : List(i) \/ Return(i) \/ Fail(i)
    PROVE  ListsGiven'
<1>. USE Numbers
<1>1. ASSUME NEW k \in Keys, NEW caller \in Callers, Turn(k, caller) PROVE ListsGiven'
  <2>1. CASE Answer(k, caller, NoList) /\ UNCHANGED collectVars
    BY <1>1, <2>1, Turns, Answered, Bounds, GivenKept DEF collectVars, Given
  <2>2. CASE Start(k, caller)
    <3>1. /\ future'[k].result = NoList /\ late'[k] = future[k] /\ wire' = wire
          /\ \A j \in Keys \ {k} : future'[j] = future[j] /\ late'[j] = late[j]
      BY <2>2, AskedFields DEF Start, TypeOK
    <3>. QED
      BY <1>1, <3>1, Turns, GivenKept
  <2>. QED
    BY <1>1, <2>1, <2>2, Turns
<1>2. ASSUME NEW k \in Keys, Timeout(k) PROVE ListsGiven'
  <2>1. /\ UNCHANGED <<docker, late>> /\ Answer(k, future[k].caller, NoList)
        /\ \A j \in Keys : future'[j].result = future[j].result
    BY <1>2, ReleasedFields DEF Timeout, TypeOK
  <2>. QED
    BY <2>1, Answered, Bounds, GivenKept DEF Given
<1>3. ASSUME NEW k \in Keys, Called(k) PROVE ListsGiven'
  <2>1. /\ UNCHANGED <<docker, late>> /\ Answer(k, future[k].caller, future[k].result)
        /\ \A j \in Keys : future'[j].result \in {future[j].result, NoList}
    BY <1>3, NoFutureFields DEF Called, TypeOK
  <2>2. future[k].result \in Lists /\ Given(future[k].result, docker)
    BY Fields DEF ListsGiven
  <2>. QED
    BY <2>1, <2>2, Answered, GivenKept
<1>4. ASSUME NEW k \in Keys, CalledLate(k) PROVE ListsGiven'
  <2>1. /\ UNCHANGED <<docker, future>> /\ Answer(k, late[k].caller, late[k].result)
        /\ \A j \in Keys : late'[j].result \in {late[j].result, NoList}
    BY <1>4, NoFutureFields DEF CalledLate, TypeOK
  <2>2. late[k].result \in Lists /\ Given(late[k].result, docker)
    BY Fields DEF ListsGiven
  <2>. QED
    BY <2>1, <2>2, Answered, GivenKept
<1>5. ASSUME NEW i \in 1 .. Workers, List(i) PROVE ListsGiven'
  BY <1>5 DEF List, ListsGiven
<1>6. ASSUME NEW i \in 1 .. Workers, Return(i) \/ Fail(i) PROVE ListsGiven'
  <2>1. PICK list \in Lists :
            /\ Done(i, list)
            /\ list # NoList => /\ list.from = pool[i].taken /\ pool[i].taken # 0
                                /\ list.rows \in Readings(pool[i].taken, docker)
    BY <1>6, Ends
  <2>2. i \in 1 .. Len(pool) /\ pool[i].key \in Keys /\ UNCHANGED <<docker, late, wire>>
        /\ future' = [future EXCEPT ![pool[i].key] = Finished(@, list)]
    BY <2>1, Jobs
  <2>3. Given(list, docker)
    BY <2>1, <2>2 DEF Given, Fresh, JobsWithin
  <2>4. /\ future'[pool[i].key].result = list
        /\ \A k \in Keys \ {pool[i].key} : future'[k] = future[k]
    BY <2>2, FinishedFields DEF TypeOK
  <2>. QED
    BY <2>2, <2>3, <2>4, GivenKept
<1>. QED
  BY <1>1, <1>2, <1>3, <1>4, <1>5, <1>6

\* Docker gives a list once; then it only travels.
LEMMA GivenStep == TypeOK /\ Fresh /\ ListsGiven /\ [Next]_vars => ListsGiven'
<1> SUFFICES ASSUME TypeOK, Fresh, ListsGiven, [Next]_vars PROVE ListsGiven'
  OBVIOUS
<1>1. CASE \/ \E k \in Keys : \/ \E caller \in Callers : Turn(k, caller)
                              \/ Timeout(k) \/ Called(k) \/ CalledLate(k)
           \/ \E i \in 1 .. Workers : List(i) \/ Return(i) \/ Fail(i)
  BY <1>1, GivenCollect
<1>2. CASE Change
  BY <1>2, GivenKept, Numbers DEF Change, collectVars
<1>3. CASE Break
  <2>1. /\ UNCHANGED <<docker, wire>>
        /\ \A k \in Keys : future'[k].result = future[k].result /\ late'[k].result = late[k].result
    BY <1>3, LeftType, ReleasedFields, Numbers DEF Break, TypeOK
  <2>. QED
    BY <2>1, GivenKept, Numbers
<1>4. CASE \/ Connect \/ Refused \/ Dismiss \/ UNCHANGED vars
           \/ \E s \in Sessions : Greet(s) \/ GreetFails(s)
  <2>1. UNCHANGED <<docker, future, late, wire>>
    BY <1>4 DEF Connect, Refused, Dismiss, Greet, GreetFails, vars, collectVars
  <2>. QED
    BY <2>1 DEF ListsGiven
<1>5. ASSUME NEW s \in Sessions, ReceiveList(s) \/ ReceiveFailure(s) PROVE ListsGiven'
  <2>1. /\ UNCHANGED <<docker, future, late>> /\ wire[s] # <<>> /\ wire[s] \in Seq(Lists)
        /\ wire'[s] = Tail(wire[s]) /\ \A t \in Sessions \ {s} : wire'[t] = wire[t]
    BY <1>5 DEF ReceiveList, ReceiveFailure, collectVars, TypeOK
  <2>2. \A n \in 1 .. Len(wire'[s]) : n + 1 \in 1 .. Len(wire[s]) /\ wire'[s][n] = wire[s][n + 1]
    BY <2>1
  <2>3. ASSUME NEW t \in Sessions, NEW n \in 1 .. Len(wire'[t])
        PROVE  \E m \in 1 .. Len(wire[t]) : wire'[t][n] = wire[t][m]
    BY <2>1, <2>2
  <2>. QED
    BY <2>1, <2>3, GivenKept, Numbers
<1>6. ASSUME NEW s \in Sessions, Leave(s) PROVE ListsGiven'
  <2>1. /\ UNCHANGED <<docker, future, late>>
        /\ wire'[s] = <<>> /\ \A t \in Sessions \ {s} : wire'[t] = wire[t]
    BY <1>6 DEF Leave, collectVars, TypeOK
  <2>2. Len(wire'[s]) = 0
    BY <2>1
  <2>. QED
    BY <2>1, <2>2 DEF ListsGiven
<1>. QED
  BY <1>1, <1>2, <1>3, <1>4, <1>5, <1>6 DEF Next

\* The invariant that the theorems on types, threads and freshness rest on.
Collected == TypeOK /\ OneJobPerKey /\ Fresh /\ ListsGiven

LEMMA CollectedInit == Init => Collected
BY InitTypes, InitJobs, InitFresh, GivenInit DEF Collected

LEMMA CollectedStep == Collected /\ [Next]_vars => Collected'
BY TypeStep, JobsStep, FreshStep, GivenStep DEF Collected

\* The variables of the agent, the connections and the server keep their types,
\* and no two rows of the table have the same id.
THEOREM InventoryTypes == Spec => []TypeOK
<1>1. Collected => TypeOK
  BY DEF Collected
<1>. QED
  BY <1>1, CollectedInit, CollectedStep, PTL DEF Spec

\* Each key has one job at most, and a future as long as it has one, over
\* time-outs, ends of sessions and callbacks that run late
\* (_run_blocking_collection, _collection_finished).
THEOREM KeysTakeOneThread == Spec => []OneJobPerKey
<1>1. Collected => OneJobPerKey
  BY DEF Collected
<1>. QED
  BY <1>1, CollectedInit, CollectedStep, PTL DEF Spec

\* A list that reaches its caller was taken after it was asked for.
THEOREM FreshnessHolds == Spec => []ListsAreFresh
<1>1. Collected => ListsAreFresh
  BY FreshLists DEF Collected
<1>. QED
  BY <1>1, CollectedInit, CollectedStep, PTL DEF Spec

-----------------------------------------------------------------------------
(***************************************************************************)
(* Order: the list of a caller is later than everything sent before it,     *)
(* because it is later than the moment it was asked for.                     *)
(***************************************************************************)

\* Nothing shown and nothing on the way is later than x.
Upper(x, shown, messages) ==
    /\ shown <= x
    /\ \A s \in Sessions : \A n \in 1 .. Len(messages[s]) : messages[s][n].from <= x

\* A list of the newest connection is not earlier than what is shown, what is in
\* front of it, and what the handlers of earlier connections may still receive.
Ordered(newest, shown, messages) ==
    newest \in Sessions =>
        \A n \in 1 .. Len(messages[newest]) : messages[newest][n] # NoList =>
            /\ shown <= messages[newest][n].from
            /\ \A m \in 1 .. n : messages[newest][m].from <= messages[newest][n].from
            /\ \A s \in Sessions \ {newest} : \A m \in 1 .. Len(messages[s]) :
                  messages[s][m].from <= messages[newest][n].from

\* The agent has no connection but the newest, and those to come are unused.
Connections ==
    /\ session \in {0, opened}
    /\ \A s \in Sessions : s > opened => handler[s] = "unused" /\ wire[s] = <<>>
    /\ \A s \in Sessions : wire[s] # <<>> => s \in Serving

\* A caller has a future, and a session.
CallersHaveFutures ==
    /\ \A k \in Keys : /\ future[k].state = "none" => future[k].caller = "nobody"
                       /\ late[k].state = "none" => late[k].caller = "nobody"
                       /\ session = 0 => future[k].caller = "nobody" /\ late[k].caller = "nobody"
    /\ session = 0 => phase = "down"

\* What was there when a caller asked is not later than its list will be.
AskedAfter ==
    /\ Upper(docker, seen, wire)
    /\ future[Inventory].caller # "nobody" => Upper(future[Inventory].since, seen, wire)
    /\ late[Inventory].caller # "nobody" => Upper(late[Inventory].since, seen, wire)
    /\ future[Inventory].caller # "nobody" /\ late[Inventory].caller # "nobody"
         => late[Inventory].result.from <= future[Inventory].since

InOrder == Connections /\ CallersHaveFutures /\ AskedAfter /\ Ordered(opened, seen, wire)

\* An answer that is not earlier than everything before it keeps the order and
\* the bounds.
LEMMA Sending ==
    ASSUME TypeOK, Connections, Ordered(opened, seen, wire),
           NEW k \in Keys, NEW caller, NEW result \in Lists,
           Answer(k, caller, result), UNCHANGED <<opened, session, handler, seen>>,
           k = Inventory /\ caller # "nobody" => result = NoList \/ Upper(result.from, seen, wire)
    PROVE  /\ Ordered(opened', seen', wire')
           /\ Connections'
           /\ \A x \in Nat : Upper(x, seen, wire) /\ (k = Inventory /\ caller # "nobody" => result.from <= x)
                             => Upper(x, seen', wire')
<1>1. CASE wire' = wire
  BY <1>1 DEF Connections, Serving
<1>2. CASE /\ k = Inventory /\ caller # "nobody" /\ session \in Serving /\ session \in Sessions
           /\ wire' = [wire EXCEPT ![session] = Append(@, result)]
  <2>1. /\ \A s \in Sessions \ {session} : wire'[s] = wire[s]
        /\ Len(wire'[session]) = Len(wire[session]) + 1
        /\ \A n \in 1 .. Len(wire[session]) : wire'[session][n] = wire[session][n]
        /\ wire'[session][Len(wire[session]) + 1] = result
    <3>1. wire'[session] = Append(wire[session], result) /\ wire[session] \in Seq(Lists)
          /\ \A s \in Sessions \ {session} : wire'[s] = wire[s]
      BY <1>2, Wires DEF TypeOK
    <3>. QED
      BY <3>1
  <2>2. \A n \in 1 .. Len(wire'[session]) : n \in 1 .. Len(wire[session]) \/ n = Len(wire[session]) + 1
    BY <2>1, <1>2, Wires
  <2>3. result.from \in Nat /\ Len(wire[session]) \in Nat /\ session = opened
    <3>1. result.from \in Nat
      BY Bounds DEF Lists
    <3>2. Len(wire[session]) \in Nat
      BY <1>2, Wires
    <3>3. session = opened
      BY <1>2 DEF Connections, Sessions
    <3>. QED
      BY <3>1, <3>2, <3>3
  <2>4. ASSUME NEW x \in Nat, Upper(x, seen, wire), result.from <= x PROVE Upper(x, seen', wire')
    <3>1. ASSUME NEW s \in Sessions, NEW n \in 1 .. Len(wire'[s]) PROVE wire'[s][n].from <= x
      BY <2>1, <2>2, <2>4 DEF Upper
    <3>. QED
      BY <2>4, <3>1 DEF Upper
  <2>5. Ordered(opened, seen, wire')
    <3> SUFFICES ASSUME NEW n \in 1 .. Len(wire'[session]), wire'[session][n] # NoList
                 PROVE  /\ seen <= wire'[session][n].from
                        /\ \A m \in 1 .. n : wire'[session][m].from <= wire'[session][n].from
                        /\ \A s \in Sessions \ {session} : \A m \in 1 .. Len(wire'[s]) :
                              wire'[s][m].from <= wire'[session][n].from
      BY <2>3 DEF Ordered
    <3>1. CASE n \in 1 .. Len(wire[session])
      <4>1. \A m \in 1 .. n : m \in 1 .. Len(wire[session])
        BY <3>1, <2>3
      <4>2. wire'[session][n] = wire[session][n] /\ wire[session][n] # NoList
        BY <3>1, <2>1
      <4>3. /\ seen <= wire[session][n].from
            /\ \A m \in 1 .. n : wire[session][m].from <= wire[session][n].from
            /\ \A s \in Sessions \ {session} : \A m \in 1 .. Len(wire[s]) :
                  wire[s][m].from <= wire[session][n].from
        BY <1>2, <2>3, <3>1, <4>2 DEF Ordered
      <4>. QED
        BY <4>1, <4>2, <4>3, <2>1
    <3>2. CASE n = Len(wire[session]) + 1
      <4>1. wire'[session][n] = result /\ Upper(result.from, seen, wire)
        BY <3>2, <2>1, <1>2
      <4>2. ASSUME NEW m \in 1 .. n PROVE wire'[session][m].from <= result.from
        BY <1>2, <3>2, <4>1, <2>1, <2>2, <2>3 DEF Upper
      <4>3. ASSUME NEW s \in Sessions \ {session}, NEW m \in 1 .. Len(wire'[s])
            PROVE  wire'[s][m].from <= result.from
        BY <4>1, <2>1 DEF Upper
      <4>. QED
        BY <4>1, <4>2, <4>3 DEF Upper
    <3>. QED
      BY <3>1, <3>2, <2>2
  <2>6. Connections'
    BY <1>2, <2>1, <2>3 DEF Connections, Serving, Sessions
  <2>. QED
    BY <1>2, <2>4, <2>5, <2>6
<1>. QED
  BY <1>1, <1>2, Answers

\* A message that is received, with what is shown after it.
LEMMA Receiving ==
    ASSUME TypeOK, Connections, Ordered(opened, seen, wire), NEW s \in Serving, wire[s] # <<>>,
           UNCHANGED <<opened, session, handler>>,
           wire' = [wire EXCEPT ![s] = Tail(@)],
           seen' = seen \/ (seen' = Head(wire[s]).from /\ Head(wire[s]) # NoList)
    PROVE  /\ Ordered(opened', seen', wire')
           /\ Connections'
           /\ \A x \in Nat : Upper(x, seen, wire) => Upper(x, seen', wire')
<1>1. /\ s \in Sessions /\ wire[s] \in Seq(Lists) /\ Len(wire[s]) \in Nat \ {0}
      /\ Head(wire[s]) = wire[s][1] /\ 1 \in 1 .. Len(wire[s])
  <2>1. s \in Sessions /\ wire[s] \in Seq(Lists)
    BY Wires DEF Serving
  <2>. QED
    BY <2>1
<1>2. /\ wire'[s] = Tail(wire[s]) /\ \A t \in Sessions \ {s} : wire'[t] = wire[t]
  BY <1>1 DEF TypeOK
<1>3. /\ Len(wire'[s]) = Len(wire[s]) - 1
      /\ \A n \in 1 .. Len(wire'[s]) : wire'[s][n] = wire[s][n + 1] /\ n + 1 \in 1 .. Len(wire[s])
  <2>1. Len(Tail(wire[s])) = Len(wire[s]) - 1
        /\ \A n \in 1 .. Len(Tail(wire[s])) : Tail(wire[s])[n] = wire[s][n + 1]
    BY <1>1
  <2>2. \A n \in 1 .. Len(wire[s]) - 1 : n + 1 \in 1 .. Len(wire[s])
    BY <1>1
  <2>. QED
    BY <2>1, <2>2, <1>2
<1>4. ASSUME NEW x \in Nat, Upper(x, seen, wire) PROVE Upper(x, seen', wire')
  <2>1. seen' <= x
    BY <1>1, <1>4 DEF Upper
  <2>2. ASSUME NEW t \in Sessions, NEW n \in 1 .. Len(wire'[t]) PROVE wire'[t][n].from <= x
    <3>1. CASE t = s
      BY <3>1, <1>1, <1>3, <1>4 DEF Upper
    <3>2. CASE t # s
      BY <3>2, <1>2, <1>4 DEF Upper
    <3>. QED
      BY <3>1, <3>2
  <2>. QED
    BY <2>1, <2>2 DEF Upper
<1>5. Ordered(opened, seen', wire')
  <2> SUFFICES ASSUME opened \in Sessions, NEW n \in 1 .. Len(wire'[opened]), wire'[opened][n] # NoList
               PROVE  /\ seen' <= wire'[opened][n].from
                      /\ \A m \in 1 .. n : wire'[opened][m].from <= wire'[opened][n].from
                      /\ \A t \in Sessions \ {opened} : \A m \in 1 .. Len(wire'[t]) :
                            wire'[t][m].from <= wire'[opened][n].from
    BY DEF Ordered
  <2>1. CASE s = opened
    <3>1. /\ wire'[s][n] = wire[s][n + 1] /\ n + 1 \in 1 .. Len(wire[s]) /\ wire[s][n + 1] # NoList
      BY <2>1, <1>3
    <3>2. /\ seen <= wire[s][n + 1].from
          /\ \A m \in 1 .. n + 1 : wire[s][m].from <= wire[s][n + 1].from
          /\ \A t \in Sessions \ {s} : \A m \in 1 .. Len(wire[t]) : wire[t][m].from <= wire[s][n + 1].from
      BY <2>1, <1>1, <3>1 DEF Ordered
    <3>3. \A m \in 1 .. n : m + 1 \in 1 .. n + 1 /\ m \in 1 .. Len(wire'[s])
      BY <1>1, <1>3, <2>1
    <3>4. 1 \in 1 .. n + 1
      BY <3>3, <1>1, <1>3, <2>1
    <3>5. seen' <= wire[s][n + 1].from
      BY <3>2, <3>4, <1>1
    <3>6. \A m \in 1 .. n : wire'[s][m].from <= wire[s][n + 1].from
      BY <3>2, <3>3, <1>3
    <3>7. \A t \in Sessions \ {s} : \A m \in 1 .. Len(wire'[t]) : wire'[t][m].from <= wire[s][n + 1].from
      BY <3>2, <1>2
    <3>. QED
      BY <2>1, <3>1, <3>5, <3>6, <3>7
  <2>2. CASE s # opened
    <3>1. wire'[opened] = wire[opened] /\ n \in 1 .. Len(wire[opened]) /\ wire[opened][n] # NoList
      BY <2>2, <1>2
    <3>2. /\ seen <= wire[opened][n].from
          /\ \A m \in 1 .. n : wire[opened][m].from <= wire[opened][n].from
          /\ \A t \in Sessions \ {opened} : \A m \in 1 .. Len(wire[t]) :
                wire[t][m].from <= wire[opened][n].from
      BY <3>1 DEF Ordered
    <3>3. wire[s][1].from <= wire[opened][n].from
      BY <2>2, <3>2, <1>1
    <3>4. ASSUME NEW t \in Sessions \ {opened}, NEW m \in 1 .. Len(wire'[t])
          PROVE  wire'[t][m].from <= wire[opened][n].from
      <4>1. CASE t = s
        BY <4>1, <2>2, <3>2, <1>1, <1>3
      <4>2. CASE t # s
        BY <4>2, <3>2, <1>2
      <4>. QED
        BY <4>1, <4>2
    <3>. QED
      BY <3>1, <3>2, <3>3, <3>4, <1>1
  <2>. QED
    BY <2>1, <2>2
<1>6. Connections'
  BY <1>1, <1>2 DEF Connections, Serving, Sessions
<1>. QED
  BY <1>4, <1>5, <1>6

LEMMA InitOrder == Init => InOrder
<1> SUFFICES ASSUME Init PROVE InOrder
  OBVIOUS
<1>1. \A s \in Sessions : wire[s] = <<>> /\ Len(wire[s]) = 0
  BY DEF Init
<1>2. Connections /\ CallersHaveFutures
  BY <1>1, NoFutureFields DEF Init, Connections, CallersHaveFutures
<1>3. Upper(docker, seen, wire) /\ Ordered(opened, seen, wire)
  BY <1>1 DEF Init, Upper, Ordered
<1>4. future[Inventory].caller = "nobody" /\ late[Inventory].caller = "nobody"
  BY Bounds, NoFutureFields DEF Init
<1>. QED
  BY <1>2, <1>3, <1>4 DEF InOrder, AskedAfter

LEMMA OrderTurn ==
    ASSUME TypeOK, Fresh, InOrder, NEW k \in Keys, NEW caller \in Callers, Turn(k, caller)
    PROVE  InOrder'
<1>1. UNCHANGED <<docker, opened, session, handler, seen>> /\ session # 0
  BY Turns DEF Turn, InOrder, CallersHaveFutures
<1>2. CASE Answer(k, caller, NoList) /\ UNCHANGED collectVars
  <2>1. /\ Ordered(opened', seen', wire')
        /\ Connections'
        /\ \A x \in Nat : Upper(x, seen, wire) => Upper(x, seen', wire')
    BY <1>1, <1>2, Sending, Bounds DEF InOrder
  <2>2. UNCHANGED <<future, late>>
    BY <1>2 DEF collectVars
  <2>. QED
    BY <1>1, <2>1, <2>2, Numbers, Bounds DEF InOrder, CallersHaveFutures, AskedAfter
<1>3. CASE Start(k, caller)
  <2>1. /\ future'[k] = Asked(k, caller) /\ late'[k] = future[k] /\ wire' = wire
        /\ \A j \in Keys \ {k} : future'[j] = future[j] /\ late'[j] = late[j]
    BY <1>3 DEF Start, TypeOK
  <2>2. CallersHaveFutures'
    BY <1>1, <2>1, AskedFields DEF InOrder, CallersHaveFutures
  <2>3. AskedAfter'
    <3>1. CASE k = Inventory
      <4>1. future[k].result.from <= docker
        BY DEF Fresh, FuturesWithin, Within
      <4>. QED
        BY <1>1, <2>1, <3>1, <4>1, AskedFields DEF InOrder, AskedAfter
    <3>2. CASE k # Inventory
      BY <1>1, <2>1, <3>2, Bounds DEF InOrder, AskedAfter
    <3>. QED
      BY <3>1, <3>2
  <2>4. Connections'
    BY <1>1, <2>1 DEF InOrder, Connections, Serving
  <2>. QED
    BY <1>1, <2>1, <2>2, <2>3, <2>4 DEF InOrder
<1>. QED
  BY <1>2, <1>3, Turns

LEMMA OrderTimeout ==
    ASSUME TypeOK, InOrder, NEW k \in Keys, Timeout(k)
    PROVE  InOrder'
<1>1. /\ UNCHANGED <<docker, opened, session, handler, seen, late>>
      /\ Answer(k, future[k].caller, NoList)
      /\ future'[k] = Released(future[k])
      /\ \A j \in Keys \ {k} : future'[j] = future[j]
  BY DEF Timeout, TypeOK, tableVars, serverVars
<1>2. /\ Ordered(opened', seen', wire')
      /\ Connections'
      /\ \A x \in Nat : Upper(x, seen, wire) => Upper(x, seen', wire')
  BY <1>1, Sending, Bounds DEF InOrder
<1>3. \A j \in Keys : \/ future'[j] = future[j]
                      \/ future'[j].caller = "nobody" /\ future'[j].state = future[j].state
  BY <1>1, ReleasedFields, Numbers
<1>4. CallersHaveFutures'
  <2>1. session = 0 => phase' = "down"
    BY <1>1, Zenon DEF Answer, InOrder, CallersHaveFutures
  <2>. QED
    BY <1>1, <1>3, <2>1 DEF InOrder, CallersHaveFutures
<1>5. AskedAfter'
  BY <1>1, <1>2, <1>3, Numbers, Bounds DEF InOrder, AskedAfter
<1>. QED
  BY <1>2, <1>4, <1>5 DEF InOrder

\* The list of a caller is not earlier than anything it finds.
LEMMA Later ==
    ASSUME TypeOK, NEW f \in Future, Within(f, docker), f.state = "done", f.result # NoList,
           Upper(f.since, seen, wire)
    PROVE  Upper(f.result.from, seen, wire)
<1>1. f.since \in Nat /\ f.result.from \in Nat /\ f.since <= f.result.from
  BY Fields, Bounds DEF Within
<1>. QED
  BY <1>1, Wires DEF Upper

LEMMA OrderCalled ==
    ASSUME TypeOK, Fresh, InOrder, NEW k \in Keys, Called(k)
    PROVE  InOrder'
<1>1. /\ UNCHANGED <<docker, opened, session, handler, seen, late>>
      /\ Answer(k, future[k].caller, future[k].result)
      /\ future'[k] = NoFuture /\ late[k].caller = "nobody" /\ future[k].state = "done"
      /\ \A j \in Keys \ {k} : future'[j] = future[j]
  BY DEF Called, TypeOK, tableVars, serverVars, InOrder, CallersHaveFutures
<1>2. future[k] \in Future /\ future[k].result \in Lists
  BY Numbers, Fields
<1>3. k = Inventory /\ future[k].caller # "nobody"
        => future[k].result = NoList \/ Upper(future[k].result.from, seen, wire)
  BY <1>1, <1>2, Later DEF InOrder, AskedAfter, Fresh, FuturesWithin
<1>4. /\ Ordered(opened', seen', wire')
      /\ Connections'
      /\ \A x \in Nat : Upper(x, seen, wire) /\ (k = Inventory /\ future[k].caller # "nobody" => future[k].result.from <= x)
                        => Upper(x, seen', wire')
  BY <1>1, <1>2, <1>3, Sending DEF InOrder
<1>5. CallersHaveFutures'
  <2>1. session = 0 => phase' = "down"
    BY <1>1, Zenon DEF Answer, InOrder, CallersHaveFutures
  <2>. QED
    BY <1>1, <2>1, NoFutureFields DEF InOrder, CallersHaveFutures
<1>6. AskedAfter'
  <2>1. Upper(docker', seen', wire')
    BY <1>1, <1>4, Numbers DEF InOrder, AskedAfter, Fresh, FuturesWithin, Within
  <2>2. CASE k = Inventory
    BY <1>1, <2>1, <2>2, NoFutureFields DEF AskedAfter
  <2>3. CASE k # Inventory
    BY <1>1, <1>4, <2>1, <2>3, Numbers, Bounds DEF InOrder, AskedAfter
  <2>. QED
    BY <2>2, <2>3
<1>. QED
  BY <1>4, <1>5, <1>6 DEF InOrder

LEMMA OrderCalledLate ==
    ASSUME TypeOK, Fresh, InOrder, NEW k \in Keys, CalledLate(k)
    PROVE  InOrder'
<1>1. /\ UNCHANGED <<docker, opened, session, handler, seen, future>>
      /\ Answer(k, late[k].caller, late[k].result)
      /\ late'[k] = NoFuture /\ late[k].state = "done"
      /\ \A j \in Keys \ {k} : late'[j] = late[j]
  BY DEF CalledLate, TypeOK, tableVars, serverVars
<1>2. late[k] \in Future /\ late[k].result \in Lists
  BY Numbers, Fields
<1>3. k = Inventory /\ late[k].caller # "nobody"
        => late[k].result = NoList \/ Upper(late[k].result.from, seen, wire)
  BY <1>1, <1>2, Later DEF InOrder, AskedAfter, Fresh, FuturesWithin
<1>4. /\ Ordered(opened', seen', wire')
      /\ Connections'
      /\ \A x \in Nat : Upper(x, seen, wire) /\ (k = Inventory /\ late[k].caller # "nobody" => late[k].result.from <= x)
                        => Upper(x, seen', wire')
  BY <1>1, <1>2, <1>3, Sending DEF InOrder
<1>5. CallersHaveFutures'
  <2>1. session = 0 => phase' = "down"
    BY <1>1, Zenon DEF Answer, InOrder, CallersHaveFutures
  <2>. QED
    BY <1>1, <2>1, NoFutureFields DEF InOrder, CallersHaveFutures
<1>6. AskedAfter'
  <2>1. Upper(docker', seen', wire')
    BY <1>1, <1>4, Numbers DEF InOrder, AskedAfter, Fresh, FuturesWithin, Within
  <2>2. CASE k = Inventory
    BY <1>1, <1>4, <2>1, <2>2, NoFutureFields, Numbers DEF InOrder, AskedAfter
  <2>3. CASE k # Inventory
    BY <1>1, <1>4, <2>1, <2>3, Numbers, Bounds DEF InOrder, AskedAfter
  <2>. QED
    BY <2>2, <2>3
<1>. QED
  BY <1>4, <1>5, <1>6 DEF InOrder

\* The ends of jobs and of sessions, and what happens to Docker and the handlers.
LEMMA OrderKept ==
    ASSUME TypeOK, InOrder, UNCHANGED <<opened, wire, seen>>, Connections',
           docker' \in Nat, docker' >= docker,
           \A k \in Keys :
              \/ future'[k].caller = "nobody"
              \/ /\ future'[k].caller = future[k].caller /\ future'[k].since = future[k].since
                 /\ future'[k].state = "none" => future[k].state = "none"
                 /\ session' = session,
           \A k \in Keys : \/ late'[k].caller = "nobody"
                           \/ late'[k] = late[k] /\ session' = session,
           session' = 0 => phase' = "down"
    PROVE  InOrder'
<1>1. CallersHaveFutures' /\ Ordered(opened', seen', wire')
  BY DEF InOrder, CallersHaveFutures
<1>2. Upper(docker', seen', wire')
  BY Wires, Numbers DEF InOrder, AskedAfter, Upper
<1>3. AskedAfter'
  BY <1>2, Bounds DEF InOrder, AskedAfter
<1>. QED
  BY <1>1, <1>3 DEF InOrder

LEMMA OrderReceive ==
    ASSUME TypeOK, InOrder, NEW s \in Sessions, ReceiveList(s) \/ ReceiveFailure(s)
    PROVE  InOrder'
<1>1. /\ s \in Serving /\ wire[s] # <<>> /\ wire' = [wire EXCEPT ![s] = Tail(@)]
      /\ seen' = seen \/ (seen' = Head(wire[s]).from /\ Head(wire[s]) # NoList)
      /\ UNCHANGED <<docker, future, late, opened, session, phase, handler>>
  BY DEF ReceiveList, ReceiveFailure, collectVars, sessionVars, serverVars
<1>2. /\ Ordered(opened', seen', wire')
      /\ Connections'
      /\ \A x \in Nat : Upper(x, seen, wire) => Upper(x, seen', wire')
  BY <1>1, Receiving DEF InOrder
<1>3. CallersHaveFutures'
  BY <1>1, <1>2 DEF InOrder, CallersHaveFutures
<1>4. AskedAfter'
  BY <1>1, <1>2, Numbers, Bounds DEF InOrder, AskedAfter
<1>. QED
  BY <1>2, <1>3, <1>4 DEF InOrder

LEMMA OrderLeave ==
    ASSUME TypeOK, InOrder, NEW s \in Sessions, Leave(s)
    PROVE  InOrder'
<1>1. /\ UNCHANGED <<docker, future, late, opened, session, phase, seen>>
      /\ handler' = [handler EXCEPT ![s] = "ended"] /\ s \in Serving
      /\ wire'[s] = <<>> /\ \A t \in Sessions \ {s} : wire'[t] = wire[t]
  BY DEF Leave, collectVars, sessionVars, tableVars, TypeOK
<1>2. Len(wire'[s]) = 0
  BY <1>1
<1>3. \A x \in Nat : Upper(x, seen, wire) => Upper(x, seen', wire')
  BY <1>1, <1>2 DEF Upper
<1>4. Ordered(opened', seen', wire')
  BY <1>1, <1>2 DEF InOrder, Ordered
<1>5. CallersHaveFutures'
  BY <1>1 DEF InOrder, CallersHaveFutures
<1>6. AskedAfter'
  BY <1>1, <1>3, Numbers, Bounds DEF InOrder, AskedAfter
<1>7. Connections'
  <2>1. \A t \in Sessions \ {s} : handler'[t] = handler[t]
    BY <1>1 DEF TypeOK
  <2>2. s \in Sessions /\ ~ s > opened
    BY <1>1 DEF InOrder, Connections, Serving
  <2>. QED
    BY <1>1, <2>1, <2>2 DEF InOrder, Connections, Serving
<1>. QED
  BY <1>4, <1>5, <1>6, <1>7 DEF InOrder

\* A connection has no messages when it begins.
LEMMA OrderConnect ==
    ASSUME TypeOK, InOrder, Connect
    PROVE  InOrder'
<1>1. /\ UNCHANGED <<docker, future, late, wire, seen>> /\ session = 0
      /\ opened' = opened + 1 /\ session' = opened + 1
      /\ handler' = [handler EXCEPT ![opened + 1] = "greeting"]
  BY DEF Connect, collectVars, tableVars
<1>2. opened \in Nat /\ opened + 1 \in Sessions /\ wire[opened + 1] = <<>>
  BY Bounds DEF Connect, TypeOK, Sessions, InOrder, Connections
<1>3. Ordered(opened', seen', wire')
  <2>1. Len(wire[opened + 1]) = 0
    BY <1>2
  <2>. QED
    BY <1>1, <2>1 DEF Ordered
<1>4. Connections'
  <2>1. \A t \in Sessions \ {opened + 1} : handler'[t] = handler[t]
    BY <1>1 DEF TypeOK
  <2>2. \A t \in Sessions : t > opened + 1 => t > opened /\ t # opened + 1
    BY <1>2 DEF Sessions
  <2>. QED
    BY <1>1, <1>2, <2>1, <2>2 DEF InOrder, Connections, Serving
<1>5. CallersHaveFutures'
  BY <1>1, <1>2 DEF InOrder, CallersHaveFutures
<1>. QED
  BY <1>1, <1>3, <1>4, <1>5 DEF InOrder, AskedAfter

LEMMA OrderHandlers ==
    ASSUME TypeOK, InOrder,
           \/ Refused \/ Break \/ Dismiss \/ \E s \in Sessions : Greet(s) \/ GreetFails(s)
    PROVE  InOrder'
<1>1. CASE Break
  <2>1. \A k \in Keys : future'[k].caller = "nobody" /\ late'[k].caller = "nobody"
    BY <1>1, LeftType, ReleasedFields DEF Break, TypeOK
  <2>2. Connections'
    BY <1>1 DEF Break, InOrder, Connections, Serving, serverVars
  <2>3. phase' = "down"
    BY <1>1 DEF Break
  <2>. QED
    BY <1>1, <2>1, <2>2, <2>3, OrderKept, Numbers DEF Break, tableVars
<1>2. CASE Refused \/ Dismiss
  <2>1. UNCHANGED <<docker, future, late, opened, session, phase, handler, wire, seen>>
    BY <1>2 DEF Refused, Dismiss, vars, collectVars, sessionVars, serverVars, tableVars
  <2>2. Connections'
    BY <2>1 DEF InOrder, Connections, Serving
  <2>. QED
    BY <2>1, <2>2, OrderKept, Numbers DEF InOrder, CallersHaveFutures
<1>3. ASSUME NEW s \in Sessions, Greet(s) \/ GreetFails(s) PROVE InOrder'
  <2>1. /\ UNCHANGED <<docker, future, late, opened, session, wire, seen>>
        /\ handler[s] = "greeting" /\ \A t \in Sessions \ {s} : handler'[t] = handler[t]
    BY <1>3 DEF Greet, GreetFails, collectVars, sessionVars, tableVars, TypeOK
  <2>2. Connections'
    BY <2>1 DEF InOrder, Connections, Serving
  <2>3. session' = 0 => phase' = "down"
    BY <1>3, <2>1 DEF Greet, GreetFails, sessionVars, InOrder, CallersHaveFutures, Sessions
  <2>. QED
    BY <2>1, <2>2, <2>3, OrderKept, Numbers
<1>. QED
  BY <1>1, <1>2, <1>3

LEMMA OrderStep == TypeOK /\ Fresh /\ InOrder /\ [Next]_vars => InOrder'
<1> SUFFICES ASSUME TypeOK, Fresh, InOrder, [Next]_vars PROVE InOrder'
  OBVIOUS
<1>1. ASSUME UNCHANGED <<opened, session, handler, wire>> PROVE Connections'
  BY <1>1 DEF InOrder, Connections, Serving
<1>2. CASE Change \/ UNCHANGED vars
  BY <1>1, <1>2, OrderKept, Numbers
     DEF InOrder, CallersHaveFutures, Change, vars, collectVars, sessionVars, serverVars, tableVars
<1>3. CASE \/ Connect \/ Refused \/ Break \/ Dismiss
           \/ \E s \in Sessions : Greet(s) \/ GreetFails(s)
  BY <1>3, OrderConnect, OrderHandlers
<1>4. ASSUME NEW k \in Keys, \/ \E caller \in Callers : Turn(k, caller)
                             \/ Timeout(k) \/ Called(k) \/ CalledLate(k)
      PROVE  InOrder'
  BY <1>4, OrderTurn, OrderTimeout, OrderCalled, OrderCalledLate
<1>5. ASSUME NEW i \in 1 .. Workers, List(i) PROVE InOrder'
  BY <1>1, <1>5, OrderKept, Numbers DEF InOrder, CallersHaveFutures, List, sessionVars, serverVars, tableVars
<1>6. ASSUME NEW i \in 1 .. Workers, Return(i) \/ Fail(i) PROVE InOrder'
  <2>1. PICK list \in Lists : Done(i, list)
    BY <1>6, Ends
  <2>2. pool[i].key \in Keys /\ future[pool[i].key] \in Future
    BY <2>1, Jobs, Numbers DEF Job
  <2>3. \A k \in Keys : /\ future'[k].caller = future[k].caller /\ future'[k].since = future[k].since
                        /\ future'[k].state = "none" => future[k].state = "none"
    <3>1. future'[pool[i].key] = Finished(future[pool[i].key], list)
      BY <2>1, <2>2, Jobs DEF TypeOK
    <3>2. \A k \in Keys \ {pool[i].key} : future'[k] = future[k]
      BY <2>1, <2>2, Jobs DEF TypeOK
    <3>. QED
      BY <2>2, <3>1, <3>2, FinishedFields
  <2>4. UNCHANGED <<docker, late, opened, session, phase, handler, wire, seen>>
    BY <2>1, Jobs
  <2>. QED
    BY <1>1, <2>3, <2>4, OrderKept, Numbers DEF InOrder, CallersHaveFutures
<1>7. ASSUME NEW s \in Sessions, ReceiveList(s) \/ ReceiveFailure(s) \/ Leave(s) PROVE InOrder'
  BY <1>7, OrderReceive, OrderLeave
<1>. QED
  BY <1>2, <1>3, <1>4, <1>5, <1>6, <1>7 DEF Next

-----------------------------------------------------------------------------
(***************************************************************************)
(* The table implements ContainerTable                                      *)
(***************************************************************************)

\* The list that a handler receives is one that Docker has given, and not earlier
\* than the one that is shown unless the handler is one of an earlier connection.
LEMMA ListCopies ==
    ASSUME TypeOK, ListsGiven, InOrder, NEW s \in Sessions, ReceiveList(s)
    PROVE  \E version \in 1 .. Len(Contents) : Table!Copy(version)
<1> DEFINE list == Head(wire[s])
           overlaps == \E t \in Alive : t < opened
<1>1. wire[s] \in Seq(Lists) /\ wire[s] # <<>> /\ list # NoList /\ s \in Serving
  BY Wires DEF ReceiveList
<1>2. list = wire[s][1] /\ 1 \in 1 .. Len(wire[s])
  BY <1>1
<1>3. Given(list, docker)
  BY <1>2 DEF ListsGiven
<1>4. /\ list.from \in 1 .. Len(Contents) /\ list.from <= docker
      /\ list.rows \in Readings(list.from, docker)
  BY <1>1, <1>3, Bounds DEF Given, TypeOK
<1>5. overlaps \/ seen <= list.from
  <2>1. CASE s = opened
    BY <1>1, <1>2, <2>1 DEF InOrder, Ordered
  <2>2. CASE s # opened
    <3>1. s \in Alive /\ s < opened
      BY <1>1, <2>2 DEF Alive, Serving, InOrder, Connections, Sessions, TypeOK
    <3>. QED
      BY <3>1
  <2>. QED
    BY <2>1, <2>2
<1>6. /\ seen' = list.from /\ rows' = list.rows /\ status' = "current" /\ docker' = docker
      /\ overlaps' = overlaps
  BY Replaced DEF ReceiveList, Alive, serverVars, sessionVars
<1>. HIDE DEF list
<1>7. Table!Copy(list.from)
  BY <1>4, <1>5, <1>6 DEF Table!Copy, Table!Readings, Readings
<1>. QED
  BY <1>4, <1>7

LEMMA TableStep == TypeOK /\ ListsGiven /\ InOrder /\ [Next]_vars => [Table!Next]_Table!vars
<1> SUFFICES ASSUME TypeOK, ListsGiven, InOrder, [Next]_vars PROVE Table!Next
  OBVIOUS
<1>1. ASSUME NEW s \in Sessions, ReceiveList(s) PROVE Table!Next
  BY <1>1, ListCopies DEF Table!Next
<1>2. ASSUME NEW s \in Sessions, ReceiveFailure(s) PROVE Table!Next
  BY <1>2 DEF ReceiveFailure, Alive, sessionVars, serverVars, Table!Next, Table!Miss
<1>3. CASE Change
  BY <1>3 DEF Change, Alive, sessionVars, serverVars, tableVars, Table!Next, Table!Change
<1>4. ASSUME UNCHANGED <<docker, tableVars>> PROVE Table!Next
  BY <1>4 DEF tableVars, Table!Next, Table!Overlap
<1>5. CASE \/ Connect \/ Refused \/ Break \/ Dismiss \/ UNCHANGED vars
           \/ \E s \in Sessions : Greet(s) \/ GreetFails(s) \/ Leave(s)
  BY <1>4, <1>5 DEF Connect, Refused, Break, Dismiss, Greet, GreetFails, Leave, vars
<1>6. ASSUME NEW k \in Keys, \/ \E caller \in Callers : Turn(k, caller)
                             \/ Timeout(k) \/ Called(k) \/ CalledLate(k)
      PROVE  Table!Next
  BY <1>4, <1>6 DEF Turn, Timeout, Called, CalledLate
<1>7. ASSUME NEW i \in 1 .. Workers, List(i) \/ Return(i) \/ Fail(i) PROVE Table!Next
  <2>1. UNCHANGED <<docker, tableVars>>
    BY <1>7, Ends, Jobs DEF List, tableVars
  <2>. QED
    BY <1>4, <2>1
<1>. QED
  BY <1>1, <1>2, <1>3, <1>5, <1>6, <1>7 DEF Next

\* Every behaviour of the collections, the sessions and the handlers is one of the
\* table that ContainerTable promises.
THEOREM TableIsCopy == Spec => FollowsDocker
<1>1. Init => Collected /\ InOrder
  BY CollectedInit, InitOrder
<1>2. Collected /\ InOrder /\ [Next]_vars => (Collected /\ InOrder)'
  BY CollectedStep, OrderStep DEF Collected
<1>3. Init => Table!Init
  BY DEF Init, Alive, Table!Init
<1>4. Collected /\ InOrder /\ [Next]_vars => [Table!Next]_Table!vars
  BY TableStep DEF Collected
<1>. QED
  BY <1>1, <1>2, <1>3, <1>4, PTL DEF Spec, FollowsDocker, Table!Spec

=============================================================================
