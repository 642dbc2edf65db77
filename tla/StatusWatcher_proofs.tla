-------------------------- MODULE StatusWatcher_proofs --------------------------
(***************************************************************************)
(* Theorems about StatusWatcher, for every set of commands, every delay and *)
(* every limit of the failures.                                             *)
(***************************************************************************)
EXTENDS StatusWatcher, WellFoundedInduction, TLAPS

\* Where the watcher can stand, and that it never comes back once it has ended.
EndedForGood ==
    /\ task \in Awaits \cup {"ended", "dead"}
    /\ thread \in {"none", "running", "done", "failed"}
    /\ task \in {"waiting", "ended"} => lifespan # "serving"
    /\ lifespan = "closed" => task = "ended"

\* The inductive invariant.  That nothing runs after the close follows from it.
WatcherInv == EndedForGood /\ ThreadHasWaiter

LEMMA WatcherInit == Init => WatcherInv
BY DEF Init, WatcherInv, EndedForGood, ThreadHasWaiter, Awaits

\* However a cycle ends, the watcher then sleeps or is dead.
LEMMA CycleEnds ==
    ASSUME Succeeds \/ Fails
    PROVE  task' \in {"sleeping", "dead"}
BY DEF Succeeds, Fails

\* The steps that may audit a command leave no thread without a waiter.
LEMMA AuditsKeepsThread ==
    ASSUME NEW expired, Audits(expired), thread = "none"
    PROVE  /\ task' \in {"sleeping", "dead", "command", "maintenance"}
           /\ thread' \in {"none", "running"}
           /\ thread' # "none" <=> task' = "maintenance"
<1>1. CASE StartsMaintenance
  BY <1>1 DEF StartsMaintenance
<1>2. CASE task' = "command" /\ UNCHANGED thread
  BY <1>2
<1>3. CASE Fails /\ UNCHANGED thread
  BY <1>3, CycleEnds
<1>. QED
  BY <1>1, <1>2, <1>3 DEF Audits

LEMMA ExpiresKeepsThread ==
    ASSUME Expires, thread = "none"
    PROVE  /\ task' \in {"sleeping", "dead", "command", "maintenance"}
           /\ thread' \in {"none", "running"}
           /\ thread' # "none" <=> task' = "maintenance"
<1>1. CASE Fails /\ UNCHANGED thread
  BY <1>1, CycleEnds
<1>2. CASE Audits({c \in Commands : row[c] = "overdue"})
  BY <1>2, AuditsKeepsThread
<1>. QED
  BY <1>1, <1>2 DEF Expires

LEMMA WatcherStep == WatcherInv /\ [Next]_vars => WatcherInv'
<1> SUFFICES ASSUME WatcherInv, [Next]_vars PROVE WatcherInv'
  OBVIOUS
<1> USE DEF WatcherInv, EndedForGood, ThreadHasWaiter, Awaits
<1>1. CASE Wake
  <2>1. thread = "none" /\ UNCHANGED lifespan /\ task = "sleeping"
    BY <1>1 DEF Wake
  <2>2. CASE Fails /\ UNCHANGED thread
    BY <2>1, <2>2, CycleEnds
  <2>3. CASE task' = "nodes" /\ UNCHANGED thread
    BY <2>1, <2>3
  <2>4. CASE Expires
    BY <2>1, <2>4, ExpiresKeepsThread
  <2>. QED
    BY <1>1, <2>2, <2>3, <2>4 DEF Wake
<1>2. CASE NodesTold
  <2>1. thread = "none" /\ UNCHANGED lifespan /\ task = "nodes" /\ Expires
    BY <1>2 DEF NodesTold
  <2>. QED
    BY <2>1, ExpiresKeepsThread
<1>3. CASE CommandTold
  <2>1. thread = "none" /\ UNCHANGED lifespan /\ task = "command" /\ Audits(todo)
    BY <1>3 DEF CommandTold
  <2>. QED
    BY <2>1, AuditsKeepsThread
<1>4. CASE MaintenanceEnds
  <2>1. thread' = "none" /\ UNCHANGED lifespan /\ task = "maintenance"
    BY <1>4 DEF MaintenanceEnds
  <2>2. task' \in {"sleeping", "dead"}
    BY <1>4, CycleEnds DEF MaintenanceEnds
  <2>. QED
    BY <2>1, <2>2
<1>5. CASE WaitEnds
  <2>1. thread' = "none" /\ UNCHANGED lifespan /\ task = "waiting"
    BY <1>5 DEF WaitEnds
  <2>2. task' \in {"sleeping", "dead", "ended"}
    BY <1>5, CycleEnds DEF WaitEnds
  <2>3. lifespan # "closed"
    BY <2>1
  <2>. QED
    BY <2>1, <2>2, <2>3
<1>6. CASE ThreadEnds
  BY <1>6 DEF ThreadEnds
<1>7. CASE RollupBecomesDue \/ \E c \in Commands : BecomesOverdue(c)
  BY <1>7 DEF RollupBecomesDue, BecomesOverdue
<1>8. CASE Shutdown
  BY <1>8 DEF Shutdown
<1>9. CASE Closes
  BY <1>9 DEF Closes
<1>10. CASE UNCHANGED vars
  BY <1>10 DEF vars
<1>. QED
  BY <1>1, <1>2, <1>3, <1>4, <1>5, <1>6, <1>7, <1>8, <1>9, <1>10 DEF Next

\* A maintenance thread is at work only while the watcher awaits it.
THEOREM ThreadsAreAwaited == Spec => []ThreadHasWaiter
<1>1. WatcherInv => ThreadHasWaiter
  BY DEF WatcherInv
<1>. QED
  BY <1>1, WatcherInit, WatcherStep, PTL DEF Spec

\* The database is closed after the watcher and its thread have ended.
THEOREM CloseComesLast == Spec => []NothingRunsAfterClose
<1>1. WatcherInv => NothingRunsAfterClose
  BY DEF WatcherInv, EndedForGood, ThreadHasWaiter, NothingRunsAfterClose
<1>. QED
  BY <1>1, WatcherInit, WatcherStep, PTL DEF Spec

-----------------------------------------------------------------------------
\* The rest of a cycle tells every command it is left with, unless it fails.
LEMMA AuditsTell ==
    ASSUME NEW expired \in SUBSET Commands, Audits(expired),
           ~ (failures' = failures + 1 \/ task' = "dead"),
           NEW c \in Commands, c \in expired \/ c \in audited
    PROVE  c \in audited' \/ (task' = "command" /\ c \in todo')
<1>1. CASE expired = {} /\ StartsMaintenance
  BY <1>1 DEF StartsMaintenance
<1>2. CASE /\ \E d \in expired : audited' = audited \cup {d} /\ todo' = expired \ {d}
           /\ task' = "command"
  BY <1>2
<1>3. ~ Fails
  BY DEF Fails
<1>. QED
  BY <1>1, <1>2, <1>3 DEF Audits

LEMMA ExpiresTells ==
    ASSUME Expires, task # "command", ~ (failures' = failures + 1 \/ task' = "dead")
    PROVE  Untold' \subseteq Untold
<1>1. ~ Fails
  BY DEF Fails
<1>2. /\ row' = [c \in Commands |-> IF row[c] = "overdue" THEN "timeout" ELSE row[c]]
      /\ Audits({c \in Commands : row[c] = "overdue"})
  BY <1>1 DEF Expires
<1>. SUFFICES ASSUME NEW c \in Untold' PROVE c \in Untold
  OBVIOUS
<1>3. c \in Commands /\ row'[c] = "timeout" /\ c \notin audited' /\ ~ (task' = "command" /\ c \in todo')
  BY DEF Untold
<1>4. row[c] # "overdue" /\ c \notin audited
  BY <1>2, <1>3, AuditsTell
<1>. QED
  BY <1>2, <1>3, <1>4 DEF Untold

\* A timeout stays untold only if its cycle fails or is cancelled.
THEOREM NoTimeoutIsSkipped == Spec => TimeoutsAreTold
<1> DEFINE Rows == row \in [Commands -> {"open", "overdue", "timeout"}] /\ todo \subseteq Commands
<1>1. Init => Rows
  BY DEF Init
<1>2. Rows /\ [Next]_vars => Rows'
  <2> SUFFICES ASSUME Rows, [Next]_vars PROVE Rows'
    OBVIOUS
  <2>1. ASSUME NEW expired \in SUBSET Commands, Audits(expired) PROVE todo' \subseteq Commands
    BY <2>1 DEF Audits, StartsMaintenance
  <2>2. ASSUME Expires PROVE Rows'
    <3>1. {c \in Commands : row[c] = "overdue"} \in SUBSET Commands
      OBVIOUS
    <3>. QED
      BY <2>1, <2>2, <3>1 DEF Expires
  <2>. QED
    BY <2>1, <2>2 DEF Next, Wake, NodesTold, CommandTold, MaintenanceEnds, WaitEnds, ThreadEnds,
       RollupBecomesDue, Shutdown, Closes, BecomesOverdue, vars
<1>3. Rows /\ [Next]_vars =>
        [Untold' \subseteq Untold \/ failures' = failures + 1 \/ task' = "dead" \/ lifespan' # lifespan]_vars
  <2> SUFFICES ASSUME Rows, Next, ~ (failures' = failures + 1 \/ task' = "dead"), lifespan' = lifespan
               PROVE  Untold' \subseteq Untold
    OBVIOUS
  <2>1. ~ Fails
    BY DEF Fails
  <2>2. CASE Wake
    BY <2>1, <2>2, ExpiresTells DEF Wake, Untold
  <2>3. CASE NodesTold
    BY <2>3, ExpiresTells DEF NodesTold
  <2>4. CASE CommandTold
    <3>1. task = "command" /\ Audits(todo) /\ row' = row
      BY <2>4 DEF CommandTold
    <3>2. \A c \in Commands : c \in todo \/ c \in audited
                                => c \in audited' \/ (task' = "command" /\ c \in todo')
      BY <3>1, AuditsTell
    <3>. QED
      BY <3>1, <3>2 DEF Untold
  <2>5. CASE MaintenanceEnds \/ WaitEnds
    BY <2>5 DEF MaintenanceEnds, WaitEnds, Untold
  <2>6. CASE \E c \in Commands : BecomesOverdue(c)
    BY <2>6 DEF BecomesOverdue, Untold
  <2>7. CASE ThreadEnds \/ RollupBecomesDue
    BY <2>7 DEF ThreadEnds, RollupBecomesDue, Untold
  <2>8. CASE Shutdown \/ Closes
    BY <2>8, <2>1 DEF Shutdown, Closes
  <2>. QED
    BY <2>2, <2>3, <2>4, <2>5, <2>6, <2>7, <2>8 DEF Next
<1>. QED
  BY <1>1, <1>2, <1>3, PTL DEF Spec, TimeoutsAreTold

-----------------------------------------------------------------------------
(***************************************************************************)
(* The powers of two and the delays                                         *)
(***************************************************************************)

\* A set of numbers that is not empty has a least one.
LEMMA LeastNumber ==
    ASSUME NEW T \in SUBSET Nat, T # {}
    PROVE  \E x \in T : \A y \in T : x <= y
<1>1. PICK x \in T : \A y \in T : ~ (<<y, x>> \in OpToRel(<, Nat))
  BY NatLessThanWellFounded, WFMin
<1>2. \A a, b \in Nat : a < b => <<a, b>> \in OpToRel(<, Nat)
  BY DEF OpToRel
<1>3. \A y \in T : ~ (y < x)
  BY <1>1, <1>2, Zenon
<1>. QED
  BY <1>3

\* The first n powers.
Powers(h, n) ==
    /\ h \in [0 .. n -> Nat \ {0}]
    /\ h[0] = 1
    /\ \A k \in 1 .. n : h[k] = 2 * h[k - 1]

LEMMA PowersExist ==
    ASSUME NEW n \in Nat
    PROVE  \E h : Powers(h, n)
<1> DEFINE T == {m \in Nat : ~ \E h : Powers(h, m)}
<1> SUFFICES ASSUME T # {} PROVE FALSE
  OBVIOUS
<1>1. PICK m \in T : \A y \in T : m <= y
  BY LeastNumber
<1>2. CASE m = 0
  <2>1. Powers([k \in 0 .. m |-> 1], m)
    BY <1>2 DEF Powers
  <2>. QED
    BY <2>1
<1>3. CASE m # 0
  <2>1. m - 1 \in Nat /\ m - 1 \notin T /\ m \in Nat
    BY <1>1, <1>3
  <2>2. PICK h : Powers(h, m - 1)
    BY <2>1
  <2> DEFINE g == [k \in 0 .. m |-> IF k = m THEN 2 * h[m - 1] ELSE h[k]]
  <2>3. \A k \in 0 .. m - 1 : h[k] \in Nat \ {0}
    BY <2>2 DEF Powers
  <2>4. g \in [0 .. m -> Nat \ {0}]
    BY <2>1, <2>3
  <2>5. g[0] = 1
    BY <1>3, <2>1, <2>2 DEF Powers
  <2>6. ASSUME NEW k \in 1 .. m PROVE g[k] = 2 * g[k - 1]
    <3>1. CASE k = m
      BY <2>1, <3>1
    <3>2. CASE k # m
      BY <2>1, <2>2, <3>2 DEF Powers
    <3>. QED
      BY <3>1, <3>2
  <2>7. Powers(g, m)
    BY <2>4, <2>5, <2>6 DEF Powers
  <2>. QED
    BY <2>7
<1>. QED
  BY <1>2, <1>3

LEMMA PowersAgree ==
    ASSUME NEW n \in Nat, NEW m \in Nat, NEW h, NEW g, Powers(h, n), Powers(g, m)
    PROVE  \A k \in Nat : k <= n /\ k <= m => h[k] = g[k]
<1> DEFINE T == {k \in Nat : k <= n /\ k <= m /\ h[k] # g[k]}
<1> SUFFICES ASSUME T # {} PROVE FALSE
  OBVIOUS
<1>1. PICK k \in T : \A y \in T : k <= y
  BY LeastNumber
<1>2. k # 0
  BY <1>1 DEF Powers
<1>3. k - 1 \in Nat /\ k - 1 \notin T /\ k \in 1 .. n /\ k \in 1 .. m
  BY <1>1, <1>2
<1>4. h[k - 1] = g[k - 1]
  BY <1>3
<1>5. h[k] = 2 * h[k - 1] /\ g[k] = 2 * g[k - 1]
  BY <1>3 DEF Powers
<1>. QED
  BY <1>1, <1>4, <1>5

LEMMA PowerIsDefined ==
    Power = [f \in Nat |-> IF f = 0 THEN 1 ELSE 2 * Power[f - 1]]
<1> DEFINE first(n) == CHOOSE h : Powers(h, n)
           g == [n \in Nat |-> first(n)[n]]
<1>1. \A n \in Nat : Powers(first(n), n)
  BY PowersExist
<1>. HIDE DEF first
<1>2. ASSUME NEW n \in Nat PROVE g[n] = IF n = 0 THEN 1 ELSE 2 * g[n - 1]
  <2>1. CASE n = 0
    BY <1>1, <2>1 DEF Powers
  <2>2. CASE n # 0
    <3>1. n - 1 \in Nat /\ n \in 1 .. n
      BY <2>2
    <3>2. first(n)[n] = 2 * first(n)[n - 1]
      BY <1>1, <3>1 DEF Powers
    <3>3. first(n)[n - 1] = first(n - 1)[n - 1]
      <4>1. Powers(first(n), n) /\ Powers(first(n - 1), n - 1)
        BY <1>1, <3>1
      <4>. QED
        BY <3>1, <4>1, PowersAgree
    <3>. QED
      BY <2>2, <3>1, <3>2, <3>3
  <2>. QED
    BY <2>1, <2>2
<1>3. g = [n \in Nat |-> IF n = 0 THEN 1 ELSE 2 * g[n - 1]]
  <2>. HIDE DEF g
  <2>1. g = [n \in Nat |-> g[n]]
    BY DEF g
  <2>. QED
    BY <1>2, <2>1
<1>. QED
  BY <1>3 DEF Power

LEMMA PowerSteps ==
    /\ Power[0] = 1
    /\ \A f \in Nat : Power[f] \in Nat \ {0} /\ Power[f + 1] = 2 * Power[f]
<1>1. Power[0] = 1 /\ \A f \in Nat : Power[f + 1] = 2 * Power[f]
  BY PowerIsDefined
<1> DEFINE T == {f \in Nat : Power[f] \notin Nat \ {0}}
<1>2. ASSUME T # {} PROVE FALSE
  <2>1. PICK k \in T : \A y \in T : k <= y
    BY <1>2, LeastNumber
  <2>2. k # 0
    BY <1>1, <2>1
  <2>3. k - 1 \in Nat /\ k - 1 \notin T
    BY <2>1, <2>2
  <2>4. Power[k] = 2 * Power[k - 1]
    BY <1>1, <2>1, <2>3
  <2>. QED
    BY <2>1, <2>3, <2>4
<1>. QED
  BY <1>1, <1>2

\* The first delay is the interval, and every later one the double of the one
\* before it, up to the bound.
LEMMA DelaySteps ==
    /\ Delay(0) = Interval
    /\ \A f \in Nat :
          /\ Delay(f) \in Interval .. MaxRetry
          /\ Delay(f + 1) = IF 2 * Delay(f) < MaxRetry THEN 2 * Delay(f) ELSE MaxRetry
<1> USE WatcherAssumption
<1>1. Delay(0) = Interval
  <2>1. 0 .. 0 = {0} /\ Interval * Power[0] = Interval
    BY PowerSteps
  <2>. QED
    BY <2>1 DEF Delay
<1>2. ASSUME NEW f \in Nat
      PROVE  Interval * Power[f] \in Nat /\ Interval <= Interval * Power[f]
             /\ Interval * Power[f + 1] = 2 * (Interval * Power[f])
  <2>1. Power[f] \in Nat \ {0} /\ Power[f + 1] = 2 * Power[f]
    BY PowerSteps
  <2>. QED
    BY <2>1
<1>3. ASSUME NEW f \in Nat PROVE Delay(f) \in Interval .. MaxRetry
  <2>1. f \in 0 .. f
    OBVIOUS
  <2>. QED
    BY <1>2, <2>1 DEF Delay
<1>4. ASSUME NEW f \in Nat
      PROVE  Delay(f + 1) = IF 2 * Delay(f) < MaxRetry THEN 2 * Delay(f) ELSE MaxRetry
  <2>1. \A k \in 0 .. f + 1 : k \in 0 .. f \/ k = f + 1
    OBVIOUS
  <2>2. \A k \in 0 .. f : k \in 0 .. f + 1
    OBVIOUS
  <2>3. f \in 0 .. f /\ f + 1 \in 0 .. f + 1
    OBVIOUS
  <2>4. CASE \E k \in 0 .. f : Interval * Power[k] >= MaxRetry
    <3>1. Delay(f) = MaxRetry /\ Delay(f + 1) = MaxRetry
      BY <2>2, <2>4 DEF Delay
    <3>. QED
      BY <3>1
  <2>5. CASE ~ \E k \in 0 .. f : Interval * Power[k] >= MaxRetry
    <3>1. Delay(f) = Interval * Power[f]
      BY <2>5 DEF Delay
    <3>2. (\E k \in 0 .. f + 1 : Interval * Power[k] >= MaxRetry) <=> 2 * Delay(f) >= MaxRetry
      BY <1>2, <2>1, <2>3, <2>5, <3>1
    <3>3. Delay(f + 1) = IF 2 * Delay(f) >= MaxRetry THEN MaxRetry ELSE 2 * Delay(f)
      BY <1>2, <3>1, <3>2 DEF Delay
    <3>. QED
      BY <1>3, <3>3
  <2>. QED
    BY <2>4, <2>5
<1>. QED
  BY <1>1, <1>3, <1>4

-----------------------------------------------------------------------------
(***************************************************************************)
(* Types and the back-off                                                   *)
(***************************************************************************)

\* The delay is the one that belongs to the number of failures.
BackOffInv == TypeOK /\ retry = Delay(failures)

LEMMA BackOffInit == Init => BackOffInv
BY WatcherAssumption, DelaySteps DEF Init, BackOffInv, TypeOK, Awaits

\* However a cycle ends, the delay belongs to the failures.
LEMMA BackOffSet ==
    ASSUME BackOffInv, Succeeds \/ Fails
    PROVE  /\ task' \in {"sleeping", "dead"}
           /\ failures' \in 0 .. FloatLimit - 1
           /\ retry' \in Interval .. MaxRetry
           /\ retry' = Delay(failures')
<1>1. failures \in Nat /\ FloatLimit \in Nat \ {0} /\ failures < FloatLimit
      /\ retry \in Interval .. MaxRetry
  BY WatcherAssumption DEF BackOffInv, TypeOK
<1>2. CASE Succeeds
  BY <1>1, <1>2, DelaySteps DEF Succeeds
<1>3. CASE Fails
  <2>1. Delay(failures + 1) \in Interval .. MaxRetry
    BY <1>1, DelaySteps
  <2>2. CASE failures + 1 < FloatLimit
    BY <1>1, <1>3, <2>1, <2>2 DEF Fails
  <2>3. CASE ~ (failures + 1 < FloatLimit)
    BY <1>1, <1>3, <2>3 DEF Fails, BackOffInv
  <2>. QED
    BY <2>2, <2>3
<1>. QED
  BY <1>2, <1>3

LEMMA AuditsKeepsTypes ==
    ASSUME BackOffInv, NEW expired \in SUBSET Commands, Audits(expired)
    PROVE  /\ task' \in Awaits \cup {"ended", "dead"}
           /\ failures' \in 0 .. FloatLimit - 1
           /\ retry' \in Interval .. MaxRetry
           /\ retry' = Delay(failures')
           /\ audited' \subseteq Commands /\ todo' \subseteq Commands
           /\ due' \in BOOLEAN /\ thread' \in {"none", "running", "done", "failed"}
<1> USE DEF BackOffInv, TypeOK, Awaits
<1>1. CASE StartsMaintenance
  BY <1>1 DEF StartsMaintenance
<1>2. CASE /\ \E c \in expired : audited' = audited \cup {c} /\ todo' = expired \ {c}
           /\ task' = "command" /\ UNCHANGED <<failures, retry, due, thread>>
  BY <1>2
<1>3. CASE Fails /\ todo' = {} /\ UNCHANGED <<audited, due, thread>>
  BY <1>3, BackOffSet
<1>. QED
  BY <1>1, <1>2, <1>3 DEF Audits

LEMMA ExpiresKeepsTypes ==
    ASSUME BackOffInv, Expires, UNCHANGED lifespan
    PROVE  BackOffInv'
<1>1. CASE Fails /\ UNCHANGED <<row, audited, todo, due, thread>>
  BY <1>1, BackOffSet DEF BackOffInv, TypeOK, Awaits
<1>2. CASE /\ row' = [c \in Commands |-> IF row[c] = "overdue" THEN "timeout" ELSE row[c]]
           /\ Audits({c \in Commands : row[c] = "overdue"})
  <2>1. row' \in [Commands -> {"open", "overdue", "timeout"}]
    BY <1>2 DEF BackOffInv, TypeOK
  <2>. QED
    BY <1>2, <2>1, AuditsKeepsTypes DEF BackOffInv, TypeOK
<1>. QED
  BY <1>1, <1>2 DEF Expires

LEMMA BackOffStep == BackOffInv /\ [Next]_vars => BackOffInv'
<1> SUFFICES ASSUME BackOffInv, [Next]_vars PROVE BackOffInv'
  OBVIOUS
<1>1. CASE Wake
  <2>1. CASE Fails /\ UNCHANGED <<row, audited, todo, due, thread>>
    BY <1>1, <2>1, BackOffSet DEF Wake, BackOffInv, TypeOK, Awaits
  <2>2. CASE task' = "nodes" /\ UNCHANGED <<failures, retry, row, audited, todo, due, thread>>
    BY <1>1, <2>2 DEF Wake, BackOffInv, TypeOK, Awaits
  <2>3. CASE Expires
    BY <1>1, <2>3, ExpiresKeepsTypes DEF Wake
  <2>. QED
    BY <1>1, <2>1, <2>2, <2>3 DEF Wake
<1>2. CASE NodesTold
  BY <1>2, ExpiresKeepsTypes DEF NodesTold
<1>3. CASE CommandTold
  <2>1. todo \in SUBSET Commands /\ Audits(todo) /\ UNCHANGED <<row, lifespan>>
    BY <1>3 DEF CommandTold, BackOffInv, TypeOK
  <2>. QED
    BY <2>1, AuditsKeepsTypes DEF BackOffInv, TypeOK
<1>4. CASE MaintenanceEnds
  BY <1>4, BackOffSet DEF MaintenanceEnds, BackOffInv, TypeOK, Awaits
<1>5. CASE WaitEnds
  <2>1. CASE Succeeds \/ Fails
    BY <1>5, <2>1, BackOffSet DEF WaitEnds, BackOffInv, TypeOK, Awaits
  <2>2. CASE task' = "ended" /\ UNCHANGED <<failures, retry>>
    BY <1>5, <2>2 DEF WaitEnds, BackOffInv, TypeOK
  <2>. QED
    BY <1>5, <2>1, <2>2 DEF WaitEnds
<1>6. CASE ThreadEnds \/ RollupBecomesDue
  BY <1>6 DEF ThreadEnds, RollupBecomesDue, BackOffInv, TypeOK
<1>7. CASE \E c \in Commands : BecomesOverdue(c)
  BY <1>7 DEF BecomesOverdue, BackOffInv, TypeOK
<1>8. CASE Shutdown \/ Closes
  BY <1>8 DEF Shutdown, Closes, BackOffInv, TypeOK, Awaits
<1>9. CASE UNCHANGED vars
  BY <1>9 DEF vars, BackOffInv, TypeOK
<1>. QED
  BY <1>1, <1>2, <1>3, <1>4, <1>5, <1>6, <1>7, <1>8, <1>9 DEF Next

\* The variables keep their types; the delay stays between the interval and its
\* bound.
THEOREM WatcherTypes == Spec => []TypeOK
<1>1. BackOffInv => TypeOK
  BY DEF BackOffInv
<1>. QED
  BY <1>1, BackOffInit, BackOffStep, PTL DEF Spec

\* Every failure doubles the delay up to its bound, after a success it is the
\* interval again, and nothing else changes it (_status_watcher computes it from
\* the count of failures every time).
THEOREM DelayDoubles ==
    Spec => [][\/ UNCHANGED <<failures, retry>>
               \/ failures' = 0 /\ retry' = Interval
               \/ /\ failures' = failures + 1
                  /\ retry' = IF 2 * retry < MaxRetry THEN 2 * retry ELSE MaxRetry]_vars
<1> DEFINE Step == \/ UNCHANGED <<failures, retry>>
                   \/ failures' = 0 /\ retry' = Interval
                   \/ /\ failures' = failures + 1
                      /\ retry' = IF 2 * retry < MaxRetry THEN 2 * retry ELSE MaxRetry
<1>1. BackOffInv /\ [Next]_vars => [Step]_vars
  <2> SUFFICES ASSUME BackOffInv, Next PROVE Step
    OBVIOUS
  <2>1. ASSUME Succeeds PROVE Step
    BY <2>1 DEF Succeeds
  <2>2. ASSUME Fails PROVE Step
    <3>1. failures \in Nat /\ retry = Delay(failures)
      BY WatcherAssumption DEF BackOffInv, TypeOK
    <3>. QED
      BY <2>2, <3>1, DelaySteps DEF Fails
  <2>. HIDE DEF Step
  <2>3. ASSUME NEW expired, Audits(expired) PROVE Step
    BY <2>2, <2>3 DEF Audits, StartsMaintenance, Step
  <2>4. ASSUME Expires PROVE Step
    BY <2>2, <2>3, <2>4 DEF Expires
  <2>5. CASE Wake \/ NodesTold \/ CommandTold
    BY <2>2, <2>3, <2>4, <2>5 DEF Wake, NodesTold, CommandTold, Step
  <2>6. CASE MaintenanceEnds \/ WaitEnds
    BY <2>1, <2>2, <2>6 DEF MaintenanceEnds, WaitEnds, Step
  <2>7. CASE ThreadEnds \/ RollupBecomesDue \/ Shutdown \/ Closes
             \/ \E c \in Commands : BecomesOverdue(c)
    BY <2>7 DEF ThreadEnds, RollupBecomesDue, Shutdown, Closes, BecomesOverdue, Step
  <2>. QED
    BY <2>5, <2>6, <2>7 DEF Next
<1>. QED
  BY <1>1, BackOffInit, BackOffStep, PTL DEF Spec

\* The watcher dies of the failure that has no float for its delay, after all the
\* failures before it in a row, and of nothing else.
THEOREM DiesAtTheLimit ==
    Spec => [][task' = "dead" => task = "dead" \/ failures = FloatLimit - 1]_vars
<1> DEFINE Step == task' = "dead" => task = "dead" \/ failures = FloatLimit - 1
<1>1. BackOffInv /\ [Next]_vars => [Step]_vars
  <2> SUFFICES ASSUME BackOffInv, Next PROVE Step
    OBVIOUS
  <2>1. ASSUME Fails PROVE Step
    BY <2>1, WatcherAssumption DEF Fails, BackOffInv, TypeOK
  <2>2. ASSUME Succeeds PROVE Step
    BY <2>2 DEF Succeeds
  <2>. HIDE DEF Step
  <2>3. ASSUME NEW expired, Audits(expired) PROVE Step
    BY <2>1, <2>3 DEF Audits, StartsMaintenance, Step
  <2>4. ASSUME Expires PROVE Step
    BY <2>1, <2>3, <2>4 DEF Expires
  <2>5. CASE Wake \/ NodesTold \/ CommandTold
    BY <2>1, <2>3, <2>4, <2>5 DEF Wake, NodesTold, CommandTold, Step
  <2>6. CASE MaintenanceEnds \/ WaitEnds
    BY <2>1, <2>2, <2>6 DEF MaintenanceEnds, WaitEnds, Step
  <2>7. CASE ThreadEnds \/ RollupBecomesDue \/ Shutdown \/ Closes
             \/ \E c \in Commands : BecomesOverdue(c)
    BY <2>7 DEF ThreadEnds, RollupBecomesDue, Shutdown, Closes, BecomesOverdue, Step
  <2>. QED
    BY <2>5, <2>6, <2>7 DEF Next
<1>. QED
  BY <1>1, BackOffInit, BackOffStep, PTL DEF Spec

=============================================================================
