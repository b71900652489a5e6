------------------------- MODULE RunLifecycleProofs -------------------------
(***************************************************************************)
(* RunLifecycle for any number of clients.  The argument: the rows a       *)
(* transaction has locked still have the values it loaded (LoadedCurrent), *)
(* because every writer holds the row and locks are exclusive; start,      *)
(* which loads before it locks, is covered by the version column instead   *)
(* (FreshStart).  Hence every commit works on current values.              *)
(***************************************************************************)
EXTENDS RunLifecycle, TLAPS

(* What is left of a lock list, and how far a transaction has come.        *)
AllThree == <<"execution", "run", "request">>
RunRequest == <<"run", "request">>
JustRequest == <<"request">>
JustRun == <<"run">>

Rest(w, h) ==
    \/ w = RunRequest
    \/ w = JustRequest /\ "run" \in h
    \/ w = <<>> /\ "run" \in h /\ "request" \in h

FromRun(w, h) == "execution" \notin h /\ Rest(w, h)

FromExecution(w, h) == w = AllThree \/ ("execution" \in h /\ Rest(w, h))

RunOnly(w, h) == "execution" \notin h /\ (w = JustRun \/ (w = <<>> /\ "run" \in h))

Shape(t) ==
    /\ t.op = "none" => t = NoTransaction
    /\ t.op = "start" => FromRun(t.wants, t.holds)
    /\ t.op = "approve_run" => RunOnly(t.wants, t.holds)
    /\ t.op = "cancel_run" => FromRun(t.wants, t.holds) \/ FromExecution(t.wants, t.holds)
    /\ t.op \in {"cancel_workflow", "advance"} => FromExecution(t.wants, t.holds)

(* The parts of the invariant, of the values of the variables. *)
Shapes(t) == \A c \in Clients : Shape(t[c])

Exclusive(t) ==
    \A c, d \in Clients, row \in Rows : row \in t[c].holds /\ row \in t[d].holds => c = d

LoadedCurrent(t, x, r, q) ==
    \A c \in Clients : t[c].op # "start" =>
        /\ "execution" \in t[c].holds => t[c].seen.execution = x
        /\ "run" \in t[c].holds => t[c].seen.run = r
        /\ "request" \in t[c].holds => t[c].seen.request = q

FreshStart(t, s, r, q) ==
    /\ \A c \in s : t[c].op = "start"
    /\ \A c \in Clients : t[c].op = "start" =>
          /\ t[c].seen.run \in {"queued", "planning", "ready", "cancelled"}
          /\ c \notin s => t[c].seen.run = r /\ t[c].seen.request = q

WorkflowFound(t, x) ==
    \A c \in Clients : FromExecution(t[c].wants, t[c].holds) => x # "none"

BeforeExecution(x, r) == x = "none" => r \in {"queued", "planning", "ready", "cancelled"}

IInv ==
    /\ TypeOK
    /\ Shapes(tx)
    /\ Exclusive(tx)
    /\ LoadedCurrent(tx, execution, run, request)
    /\ FreshStart(tx, stale, run, request)
    /\ WorkflowFound(tx, execution)
    /\ BeforeExecution(execution, run)
    /\ RequestFollowsRun
    /\ ProjectionUnlessCancelled

-----------------------------------------------------------------------------
LEMMA Lists ==
    /\ AllThree # <<>> /\ AllThree # RunRequest /\ AllThree # JustRequest
    /\ AllThree # JustRun /\ RunRequest # <<>> /\ RunRequest # JustRequest
    /\ RunRequest # JustRun /\ JustRequest # <<>> /\ JustRequest # JustRun
    /\ JustRun # <<>>
<1>1. Len(AllThree) = 3 /\ Len(RunRequest) = 2 /\ Len(JustRequest) = 1 /\ Len(JustRun) = 1
      /\ Len(<<>>) = 0
  BY DEF AllThree, RunRequest, JustRequest, JustRun
<1>2. JustRequest # JustRun
  BY DEF JustRequest, JustRun
<1> QED
  BY <1>1, <1>2

LEMMA HeadsTails ==
    /\ Head(AllThree) = "execution" /\ Tail(AllThree) = RunRequest
    /\ Head(RunRequest) = "run" /\ Tail(RunRequest) = JustRequest
    /\ Head(JustRequest) = "request" /\ Tail(JustRequest) = <<>>
    /\ Head(JustRun) = "run" /\ Tail(JustRun) = <<>>
BY DEF AllThree, RunRequest, JustRequest, JustRun

LEMMA NoTransactionShape ==
    /\ NoTransaction \in Transactions
    /\ NoTransaction.op = "none"
    /\ NoTransaction.holds = {}
    /\ Shape(NoTransaction)
    /\ ~ FromExecution(NoTransaction.wants, NoTransaction.holds)
<1>1. /\ NoTransaction \in Transactions
      /\ NoTransaction.op = "none"
      /\ NoTransaction.holds = {}
      /\ NoTransaction.wants = <<>>
  BY DEF NoTransaction, Transactions, Nothing, Loaded, Executions, Open, Finished, Rows
<1>2. Shape(NoTransaction)
  BY <1>1 DEF Shape
<1>3. ~ FromExecution(NoTransaction.wants, NoTransaction.holds)
  BY <1>1, Lists DEF FromExecution
<1> QED
  BY <1>1, <1>2, <1>3

(* The lock list every operation begins with. *)
LEMMA LockOrderShape ==
    ASSUME NEW op \in Operations
    PROVE  /\ LockOrder(op) \in Seq(Rows)
           /\ op = "start" => LockOrder(op) = RunRequest
           /\ op = "approve_run" => LockOrder(op) = JustRun
           /\ op = "cancel_run" =>
                 LockOrder(op) = IF execution = "none" THEN RunRequest ELSE AllThree
           /\ op \in {"cancel_workflow", "advance"} => LockOrder(op) = AllThree
<1>1. /\ op = "start" => LockOrder(op) = RunRequest
      /\ op = "approve_run" => LockOrder(op) = JustRun
      /\ op = "cancel_run" =>
            LockOrder(op) = IF execution = "none" THEN RunRequest ELSE AllThree
      /\ op \in {"cancel_workflow", "advance"} => LockOrder(op) = AllThree
  BY DEF LockOrder, RunRequest, JustRun, AllThree
<1>2. RunRequest \in Seq(Rows) /\ JustRun \in Seq(Rows) /\ AllThree \in Seq(Rows)
  BY DEF RunRequest, JustRun, AllThree, Rows
<1> QED
  BY <1>1, <1>2 DEF Operations

LEMMA InvariantInit == Init => IInv
<1> SUFFICES ASSUME Init PROVE IInv
  OBVIOUS
<1>1. \A c \in Clients : tx[c] = NoTransaction
  BY DEF Init
<1>2. TypeOK
  BY NoTransactionShape DEF Init, TypeOK, RequestStatuses, RunStatuses, Executions, Open, Finished
<1>3. Shapes(tx) /\ WorkflowFound(tx, execution)
  BY <1>1, NoTransactionShape DEF Shapes, WorkflowFound
<1>4. Exclusive(tx) /\ LoadedCurrent(tx, execution, run, request)
  BY <1>1, NoTransactionShape DEF Exclusive, LoadedCurrent
<1>5. FreshStart(tx, stale, run, request)
  BY <1>1, NoTransactionShape DEF FreshStart, Init
<1>6. BeforeExecution(execution, run) /\ RequestFollowsRun /\ ProjectionUnlessCancelled
  BY DEF Init, BeforeExecution, RequestFollowsRun, ProjectionUnlessCancelled
<1> QED
  BY <1>2, <1>3, <1>4, <1>5, <1>6 DEF IInv

(* Beginning a transaction takes no lock; only start loads anything. *)
LEMMA BeginKeeps ==
    ASSUME IInv, NEW c \in Clients, NEW op \in Operations, Begin(c, op)
    PROVE  IInv'
<1> DEFINE t == [op |-> op, wants |-> LockOrder(op), holds |-> {},
                 seen |-> IF op = "start" THEN Database ELSE Nothing]
<1>1. /\ tx' = [tx EXCEPT ![c] = t]
      /\ UNCHANGED <<request, run, execution, stale>>
      /\ tx[c] = NoTransaction
      /\ op = "start" => execution = "none"
      /\ op \in {"cancel_workflow", "advance"} => execution # "none"
  BY DEF Begin
<1>2. t \in Transactions
  <2>2. Database \in Loaded /\ Nothing \in Loaded
    BY DEF IInv, TypeOK, Database, Nothing, Loaded, Executions
  <2> QED
    BY <2>2, LockOrderShape DEF Transactions, Rows
<1>3. t.op = op /\ t.holds = {} /\ t.wants = LockOrder(op)
      /\ (op = "start" => t.seen = Database)
  OBVIOUS
<1> HIDE DEF t
<1>4. Shape(t)
  <2>1. CASE t.wants = RunRequest
    BY <1>3, <2>1, LockOrderShape, Lists DEF Shape, Operations, FromRun, Rest
  <2>2. CASE t.wants = AllThree
    BY <1>3, <2>2, LockOrderShape, Lists DEF Shape, Operations, FromExecution
  <2>3. CASE t.wants = JustRun
    <3>1. op = "approve_run"
      BY <1>3, <2>3, LockOrderShape, Lists DEF Operations
    <3>2. RunOnly(t.wants, t.holds)
      BY <1>3, <2>3 DEF RunOnly
    <3>3. t.op = "approve_run"
      BY <1>3, <3>1
    <3> QED
      BY <3>2, <3>3 DEF Shape
  <2> QED
    BY <1>3, <2>1, <2>2, <2>3, LockOrderShape DEF Operations
<1>41. FromExecution(t.wants, t.holds) => execution # "none"
  BY <1>1, <1>3, LockOrderShape, Lists DEF FromExecution, Operations
<1>5. tx'[c] = t /\ \A d \in Clients : d # c => tx'[d] = tx[d]
  BY <1>1 DEF IInv, TypeOK
<1>6. TypeOK'
  BY <1>1, <1>2 DEF IInv, TypeOK
<1>7. Shapes(tx') /\ WorkflowFound(tx', execution')
  BY <1>1, <1>4, <1>41, <1>5 DEF IInv, Shapes, WorkflowFound
<1>8. Exclusive(tx')
  BY <1>3, <1>5 DEF IInv, Exclusive
<1>9. LoadedCurrent(tx', execution', run', request')
  BY <1>1, <1>3, <1>5 DEF IInv, LoadedCurrent
<1>10. FreshStart(tx', stale', run', request')
  <2>1. op = "start" => t.seen.run = run /\ t.seen.request = request
                        /\ run \in {"queued", "planning", "ready", "cancelled"}
    BY <1>1, <1>3 DEF IInv, Database, BeforeExecution
  <2>2. c \notin stale
    BY <1>1 DEF IInv, FreshStart, NoTransaction
  <2> QED
    BY <1>1, <1>3, <1>5, <2>1, <2>2 DEF IInv, FreshStart
<1> QED
  BY <1>1, <1>6, <1>7, <1>8, <1>9, <1>10
     DEF IInv, BeforeExecution, RequestFollowsRun, ProjectionUnlessCancelled

(* A granted lock is held by nobody else, and its row is loaded as it is.  *)
LEMMA AcquireKeeps ==
    ASSUME IInv, NEW c \in Clients, Acquire(c)
    PROVE  IInv'
<1> DEFINE row == Head(tx[c].wants)
           t == [op    |-> tx[c].op,
                 wants |-> Tail(tx[c].wants),
                 holds |-> tx[c].holds \union {row},
                 seen  |-> IF tx[c].op = "start" THEN tx[c].seen
                           ELSE [tx[c].seen EXCEPT ![row] = Database[row]]]
<1>1. /\ tx' = [tx EXCEPT ![c] = t]
      /\ UNCHANGED <<request, run, execution, stale>>
      /\ tx[c].wants # <<>>
      /\ \A d \in Clients : row \notin tx[d].holds
  BY DEF Acquire
<1>2. tx[c] \in Transactions /\ Shape(tx[c])
  BY DEF IInv, TypeOK, Shapes
<1>3. /\ tx[c].wants \in Seq(Rows) /\ tx[c].holds \subseteq Rows
      /\ tx[c].op \in Operations \union {"none"} /\ tx[c].seen \in Loaded
  BY <1>2 DEF Transactions
<1>4. row \in Rows /\ Tail(tx[c].wants) \in Seq(Rows)
  BY <1>1, <1>3
<1>5. Database \in Loaded
  BY DEF IInv, TypeOK, Database, Loaded
<1>6. t.seen \in Loaded
  <2>1. [tx[c].seen EXCEPT ![row] = Database[row]] \in Loaded
    BY <1>3, <1>4, <1>5 DEF Loaded, Rows
  <2> QED
    BY <1>3, <2>1
<1>7. t \in Transactions
  BY <1>3, <1>4, <1>6 DEF Transactions
<1>8. /\ Shape(t)
      /\ FromExecution(t.wants, t.holds) => FromExecution(tx[c].wants, tx[c].holds)
      /\ row = "execution" => FromExecution(tx[c].wants, tx[c].holds)
  <2>1. /\ t.op = tx[c].op /\ t.wants = Tail(tx[c].wants)
        /\ t.holds = tx[c].holds \union {row}
    OBVIOUS
  <2>2. tx[c].op # "none"
    BY <1>1, <1>2 DEF Shape, NoTransaction
  <2> HIDE DEF t
  <2>3. CASE tx[c].wants = AllThree
    BY <1>2, <2>1, <2>2, <2>3, Lists, HeadsTails
       DEF Shape, FromRun, FromExecution, RunOnly, Rest
  <2>4. CASE tx[c].wants = RunRequest
    BY <1>2, <2>1, <2>2, <2>4, Lists, HeadsTails
       DEF Shape, FromRun, FromExecution, RunOnly, Rest
  <2>5. CASE tx[c].wants = JustRequest
    BY <1>2, <2>1, <2>2, <2>5, Lists, HeadsTails
       DEF Shape, FromRun, FromExecution, RunOnly, Rest
  <2>6. CASE tx[c].wants = JustRun
    <3>1. tx[c].op = "approve_run" /\ "execution" \notin tx[c].holds
      BY <1>2, <1>3, <2>2, <2>6, Lists
         DEF Shape, FromRun, FromExecution, RunOnly, Rest, Operations
    <3>2. row = "run" /\ t.wants = <<>>
      BY <2>1, <2>6, HeadsTails
    <3>3. "execution" \notin t.holds /\ "run" \in t.holds
      BY <2>1, <3>1, <3>2
    <3> QED
      BY <2>1, <3>1, <3>2, <3>3, Lists DEF Shape, FromExecution, RunOnly
  <2> QED
    BY <1>1, <1>2, <1>3, <2>2, <2>3, <2>4, <2>5, <2>6
       DEF Shape, FromRun, FromExecution, RunOnly, Rest, Operations
<1>9. /\ t.op = tx[c].op /\ t.holds = tx[c].holds \union {row}
      /\ t.op = "start" => t.seen = tx[c].seen
  OBVIOUS
<1>10. t.op # "start" =>
         /\ t.seen.execution = IF row = "execution" THEN execution ELSE tx[c].seen.execution
         /\ t.seen.run = IF row = "run" THEN run ELSE tx[c].seen.run
         /\ t.seen.request = IF row = "request" THEN request ELSE tx[c].seen.request
  BY <1>3, <1>4 DEF Loaded, Database, Rows
<1> HIDE DEF t, row
<1>11. tx'[c] = t /\ \A d \in Clients : d # c => tx'[d] = tx[d]
  BY <1>1 DEF IInv, TypeOK
<1>12. TypeOK'
  BY <1>1, <1>7 DEF IInv, TypeOK
<1>13. Shapes(tx') /\ WorkflowFound(tx', execution')
  BY <1>1, <1>8, <1>11 DEF IInv, Shapes, WorkflowFound
<1>14. Exclusive(tx')
  BY <1>1, <1>9, <1>11 DEF IInv, Exclusive
<1>15. LoadedCurrent(tx', execution', run', request')
  BY <1>1, <1>9, <1>10, <1>11 DEF IInv, LoadedCurrent
<1>16. FreshStart(tx', stale', run', request')
  BY <1>1, <1>9, <1>11 DEF IInv, FreshStart
<1> QED
  BY <1>1, <1>12, <1>13, <1>14, <1>15, <1>16
     DEF IInv, BeforeExecution, RequestFollowsRun, ProjectionUnlessCancelled

(* A transaction that ends frees its locks.  Its writes keep the invariant *)
(* when nobody else has loaded what it wrote: a row it did not hold is not *)
(* written, and when the run is written every other start becomes stale.   *)
LEMMA EndKeeps ==
    ASSUME IInv, NEW c \in Clients, End(c),
           request' \in RequestStatuses, run' \in RunStatuses, execution' \in Executions,
           stale' \subseteq Starters \ {c},
           execution' # execution => \/ execution = "none"
                                     \/ "execution" \in tx[c].holds,
           execution' = "none" => execution = "none",
           run' # run => "run" \in tx[c].holds,
           request' # request => "request" \in tx[c].holds,
           \/ stale' = Starters \ {c}
           \/ stale' = stale \ {c} /\ run' = run /\ request' = request,
           BeforeExecution(execution', run'),
           RequestFollowsRun', ProjectionUnlessCancelled'
    PROVE  IInv'
<1>1. tx'[c] = NoTransaction /\ \A d \in Clients : d # c => tx'[d] = tx[d]
  BY DEF End, IInv, TypeOK
<1>2. TypeOK'
  BY NoTransactionShape DEF End, IInv, TypeOK, Starters
<1>3. Shapes(tx') /\ WorkflowFound(tx', execution')
  BY <1>1, NoTransactionShape DEF IInv, Shapes, WorkflowFound
<1>4. Exclusive(tx')
  BY <1>1, NoTransactionShape DEF IInv, Exclusive
<1>5. LoadedCurrent(tx', execution', run', request')
  <2> SUFFICES ASSUME NEW d \in Clients, d # c, tx[d].op # "start"
               PROVE  /\ "execution" \in tx[d].holds => tx[d].seen.execution = execution'
                      /\ "run" \in tx[d].holds => tx[d].seen.run = run'
                      /\ "request" \in tx[d].holds => tx[d].seen.request = request'
    BY <1>1, NoTransactionShape DEF LoadedCurrent
  <2>1. \A row \in Rows : row \in tx[d].holds => row \notin tx[c].holds
    BY DEF IInv, Exclusive
  <2>2. "execution" \in tx[d].holds => execution # "none"
    BY Lists DEF IInv, WorkflowFound, Shapes, Shape, FromRun, RunOnly, TypeOK, Transactions,
       Operations, NoTransaction
  <2> QED
    BY <2>1, <2>2 DEF IInv, LoadedCurrent, Rows
<1>6. FreshStart(tx', stale', run', request')
  BY <1>1, NoTransactionShape DEF IInv, FreshStart, Starters
<1> QED
  BY <1>2, <1>3, <1>4, <1>5, <1>6 DEF IInv

LEMMA RollbackKeeps ==
    ASSUME IInv, NEW c \in Clients, Rollback(c)
    PROVE  IInv'
<1>1. stale \ {c} \subseteq Starters \ {c}
  BY DEF IInv, TypeOK, FreshStart, Starters
<1>2. RequestFollowsRun' /\ ProjectionUnlessCancelled' /\ BeforeExecution(execution', run')
  BY DEF Rollback, IInv, RequestFollowsRun, ProjectionUnlessCancelled, BeforeExecution
<1> QED
  BY <1>1, <1>2, EndKeeps DEF Rollback, IInv, TypeOK

-----------------------------------------------------------------------------
(* The transactions that may commit hold what they write.                  *)
LEMMA Held ==
    ASSUME IInv, NEW c \in Clients, tx[c].wants = <<>>, tx[c].op # "none"
    PROVE  /\ "run" \in tx[c].holds
           /\ tx[c].op # "approve_run" => "request" \in tx[c].holds
           /\ tx[c].op \in {"cancel_workflow", "advance"} => "execution" \in tx[c].holds
           /\ tx[c].op \in {"start", "approve_run"} => "execution" \notin tx[c].holds
           /\ "execution" \in tx[c].holds => execution # "none"
<1>1. Shape(tx[c]) /\ tx[c].op \in Operations
  BY DEF IInv, Shapes, TypeOK, Transactions
<1>2. FromExecution(tx[c].wants, tx[c].holds) => execution # "none"
  BY DEF IInv, WorkflowFound
<1> QED
  BY <1>1, <1>2, Lists DEF Shape, FromRun, FromExecution, RunOnly, Rest, Operations

(* What a committing transaction loaded is what the rows hold, except for  *)
(* a stale start.                                                          *)
LEMMA Current ==
    ASSUME IInv, NEW c \in Clients, tx[c].wants = <<>>, tx[c].op # "none"
    PROVE  /\ tx[c].op # "start" =>
                 /\ tx[c].seen.run = run
                 /\ "request" \in tx[c].holds => tx[c].seen.request = request
                 /\ "execution" \in tx[c].holds => tx[c].seen.execution = execution
           /\ tx[c].op = "start" =>
                 /\ tx[c].seen.run \in {"queued", "planning", "ready", "cancelled"}
                 /\ c \notin stale => tx[c].seen.run = run /\ tx[c].seen.request = request
BY Held DEF IInv, LoadedCurrent, FreshStart

LEMMA TransitionTable ==
    /\ \A s \in TerminalRun : AllowedRunTransitions[s] = {}
    /\ \A s \in RunStatuses : "ready" \in AllowedRunTransitions[s] =>
          s \in {"planning", "awaiting_approval"}
BY DEF AllowedRunTransitions, TerminalRun, RunStatuses

(* The projection, from what the client loaded: afterwards the run shows   *)
(* the execution, and the request has followed.                            *)
LEMMA SynchronizeEffect ==
    ASSUME IInv, NEW c \in Clients, tx[c].wants = <<>>, tx[c].op # "none",
           tx[c].op # "approve_run",
           execution' \in Open \union Finished \union {"cancelled"},
           tx[c].op = "start" => execution' # "cancelled",
           Synchronize(c)
    PROVE  /\ run' = execution'
           /\ RequestFollowsRun'
           /\ request' \in RequestStatuses
           /\ run \in TerminalRun => run' = run /\ request' = request
           /\ \/ stale' = Starters \ {c}
              \/ stale' = stale \ {c} /\ run' = run /\ request' = request
<1>1. run \in RunStatuses /\ request \in RequestStatuses /\ RequestFollowsRun
  BY DEF IInv, TypeOK
<1>2. execution' # "ready" /\ execution' # "queued" /\ execution' # "planning"
  BY DEF Open, Finished
<1>3. CASE execution' = tx[c].seen.run
  <2>1. tx[c].op # "start"
    BY <1>2, <1>3, Current
  <2>2. tx[c].seen.run = run /\ tx[c].seen.request = request
    BY <2>1, Current, Held
  <2>3. run' = run
    BY <1>3, <2>2 DEF Synchronize, WriteRun
  <2>4. stale' = stale \ {c}
    BY <1>3 DEF Synchronize, WriteRun
  <2>5. request' = request
    BY <1>1, <1>3, <2>2 DEF Synchronize, RequestFollowsRun
  <2> QED
    BY <1>1, <1>3, <2>2, <2>3, <2>4, <2>5 DEF RequestFollowsRun
<1>4. CASE execution' # tx[c].seen.run
  <2>1. /\ execution' \in AllowedRunTransitions[tx[c].seen.run]
        /\ c \notin stale /\ run' = execution' /\ stale' = Starters \ {c}
    BY <1>4 DEF Synchronize, WriteRun
  <2>2. tx[c].seen.run = run /\ tx[c].seen.request = request
    BY <2>1, Current, Held
  <2>3. run \notin TerminalRun
    BY <2>1, <2>2, TransitionTable
  <2>4. request = "active"
    BY <1>1, <2>3 DEF RequestFollowsRun, RequestStatuses, TerminalRun
  <2> QED
    BY <2>1, <2>2, <2>3, <2>4 DEF Synchronize, RequestFollowsRun, RequestStatuses, TerminalRun
<1> QED
  BY <1>3, <1>4

(* One lemma per commit. *)
LEMMA CommitStep ==
    ASSUME IInv, NEW c \in Clients, tx[c].wants = <<>>,
           \/ CommitStart(c) \/ CommitCancelExecution(c) \/ CommitAdvance(c)
    PROVE  /\ run' = execution'
           /\ RequestFollowsRun'
           /\ request' \in RequestStatuses
           /\ execution' \in Open \union Finished \union {"cancelled"}
           /\ run \in TerminalRun => run' = run /\ request' = request
           /\ \/ stale' = Starters \ {c}
              \/ stale' = stale \ {c} /\ run' = run /\ request' = request
           /\ \/ execution = "none" /\ execution' # "cancelled"
              \/ execution \in Open /\ "execution" \in tx[c].holds
           /\ tx[c].op \notin {"none", "approve_run"}
<1>1. tx[c].op \in {"start", "cancel_run", "cancel_workflow", "advance"}
  BY DEF CommitStart, CommitCancelExecution, CommitAdvance
<1>2. /\ execution' \in Open \union Finished \union {"cancelled"}
      /\ tx[c].op = "start" => execution' # "cancelled"
      /\ Synchronize(c)
  BY DEF CommitStart, CommitCancelExecution, CommitAdvance, Open, Finished
<1>3. \/ execution = "none" /\ execution' # "cancelled"
      \/ execution \in Open /\ "execution" \in tx[c].holds
  BY <1>1, Current, Held
     DEF CommitStart, CommitCancelExecution, CommitAdvance, Open, Finished
<1> QED
  BY <1>1, <1>2, <1>3, SynchronizeEffect

LEMMA ApproveStep ==
    ASSUME IInv, NEW c \in Clients, tx[c].wants = <<>>, CommitApproveRun(c)
    PROVE  /\ run = "planning" /\ run' = "ready" /\ execution = "none"
           /\ UNCHANGED <<request, execution>>
           /\ stale' = Starters \ {c}
           /\ tx[c].op = "approve_run"
<1>1. /\ tx[c].op = "approve_run" /\ execution = "none"
      /\ "ready" \in AllowedRunTransitions[tx[c].seen.run]
      /\ run' = "ready" /\ stale' = Starters \ {c}
      /\ UNCHANGED <<request, execution>>
  BY DEF CommitApproveRun, WriteRun
<1>2. tx[c].seen.run = run
  BY <1>1, Current
<1>3. run \in {"planning", "awaiting_approval"}
  BY <1>1, <1>2, TransitionTable DEF IInv, TypeOK
<1>4. run # "awaiting_approval"
  BY <1>1 DEF IInv, BeforeExecution
<1> QED
  BY <1>1, <1>3, <1>4

LEMMA CancelAloneStep ==
    ASSUME IInv, NEW c \in Clients, tx[c].wants = <<>>, CommitCancelRunAlone(c)
    PROVE  /\ run \notin TerminalRun /\ run' = "cancelled"
           /\ request' = "cancelled" /\ UNCHANGED execution
           /\ stale' = Starters \ {c}
           /\ tx[c].op = "cancel_run"
<1>1. /\ tx[c].op = "cancel_run" /\ request' = "cancelled" /\ UNCHANGED execution
      /\ "cancelled" \in AllowedRunTransitions[tx[c].seen.run]
      /\ run' = "cancelled" /\ stale' = Starters \ {c}
  BY DEF CommitCancelRunAlone, WriteRun
<1>2. tx[c].seen.run = run
  BY <1>1, Current
<1> QED
  BY <1>1, <1>2, TransitionTable

LEMMA CommitKeeps ==
    ASSUME IInv, NEW c \in Clients, Commit(c)
    PROVE  IInv'
<1>1. tx[c].wants = <<>> /\ End(c)
  BY DEF Commit
<1>2. /\ stale \ {c} \subseteq Starters \ {c}
      /\ run \in RunStatuses /\ request \in RequestStatuses /\ execution \in Executions
      /\ RequestFollowsRun
  BY DEF IInv, TypeOK, FreshStart, Starters
<1>3. CASE CommitStart(c) \/ CommitCancelExecution(c) \/ CommitAdvance(c)
  <2> DEFINE done == Open \union Finished \union {"cancelled"}
  <2>1. /\ run' = execution' /\ RequestFollowsRun' /\ request' \in RequestStatuses
        /\ execution' \in done
        /\ \/ stale' = Starters \ {c}
           \/ stale' = stale \ {c} /\ run' = run /\ request' = request
        /\ execution = "none" \/ "execution" \in tx[c].holds
        /\ tx[c].op \notin {"none", "approve_run"}
    BY <1>1, <1>3, CommitStep
  <2>2. "run" \in tx[c].holds /\ "request" \in tx[c].holds
    BY <1>1, <2>1, Held
  <2>3. /\ execution' \in Executions /\ run' \in RunStatuses /\ execution' # "none"
    BY <2>1 DEF Executions, RunStatuses, Open, Finished
  <2>4. ProjectionUnlessCancelled' /\ BeforeExecution(execution', run')
    BY <2>1, <2>3 DEF ProjectionUnlessCancelled, BeforeExecution
  <2>5. stale' \subseteq Starters \ {c}
    BY <1>2, <2>1
  <2> HIDE DEF done
  <2> QED
    BY <1>1, <2>1, <2>2, <2>3, <2>4, <2>5, EndKeeps
<1>4. CASE CommitApproveRun(c)
  <2>1. /\ run = "planning" /\ run' = "ready" /\ execution = "none"
        /\ UNCHANGED <<request, execution>>
        /\ stale' = Starters \ {c} /\ tx[c].op = "approve_run"
    BY <1>1, <1>4, ApproveStep
  <2>2. "run" \in tx[c].holds
    BY <1>1, <2>1, Held
  <2>3. RequestFollowsRun' /\ ProjectionUnlessCancelled' /\ BeforeExecution(execution', run')
    BY <1>2, <2>1 DEF RequestFollowsRun, ProjectionUnlessCancelled, BeforeExecution
  <2>4. run' \in RunStatuses
    BY <2>1 DEF RunStatuses
  <2> QED
    BY <1>1, <1>2, <2>1, <2>2, <2>3, <2>4, EndKeeps
<1>5. CASE CommitCancelRunAlone(c)
  <2>1. /\ run \notin TerminalRun /\ run' = "cancelled"
        /\ request' = "cancelled" /\ UNCHANGED execution
        /\ stale' = Starters \ {c} /\ tx[c].op = "cancel_run"
    BY <1>1, <1>5, CancelAloneStep
  <2>2. "run" \in tx[c].holds /\ "request" \in tx[c].holds
    BY <1>1, <2>1, Held
  <2>3. RequestFollowsRun' /\ ProjectionUnlessCancelled' /\ BeforeExecution(execution', run')
    BY <2>1 DEF RequestFollowsRun, ProjectionUnlessCancelled, BeforeExecution
  <2>4. run' \in RunStatuses /\ request' \in RequestStatuses
    BY <2>1 DEF RunStatuses, RequestStatuses
  <2> QED
    BY <1>1, <1>2, <2>1, <2>2, <2>3, <2>4, EndKeeps
<1> QED
  BY <1>3, <1>4, <1>5 DEF Commit

LEMMA InvariantNext == IInv /\ [Next]_vars => IInv'
<1> SUFFICES ASSUME IInv, [Next]_vars PROVE IInv'
  OBVIOUS
<1>1. CASE UNCHANGED vars
  BY <1>1 DEF vars, IInv, TypeOK, RequestFollowsRun, ProjectionUnlessCancelled
<1>2. CASE Next
  BY <1>2, BeginKeeps, AcquireKeeps, CommitKeeps, RollbackKeeps DEF Next
<1> QED
  BY <1>1, <1>2

(* The inductive invariant, for every set of clients. *)
THEOREM Invariance == Spec => []IInv
BY InvariantInit, InvariantNext, PTL DEF Spec

(* Type correctness: statuses stay in their enumerations, and a client     *)
(* loads and locks only rows there are.                                    *)
THEOREM TypeCorrect == Spec => []TypeOK
<1>1. IInv => TypeOK
  BY DEF IInv
<1> QED
  BY <1>1, Invariance, PTL

(* The request is never completed or cancelled without its run, nor the    *)
(* run without its request, although the request row has no version.       *)
THEOREM RequestConsistency == Spec => []RequestFollowsRun
<1>1. IInv => RequestFollowsRun
  BY DEF IInv
<1> QED
  BY <1>1, Invariance, PTL

(* The run shows its workflow's status unless it was cancelled beside it.  *)
THEOREM Projection == Spec => []ProjectionUnlessCancelled
<1>1. IInv => ProjectionUnlessCancelled
  BY DEF IInv
<1> QED
  BY <1>1, Invariance, PTL

LEMMA RunStep ==
    ASSUME IInv, [Next]_vars
    PROVE  /\ run \in TerminalRun => run' = run /\ request' = request
           /\ run = "cancelled" => execution' \in {execution, "cancelled"}
           /\ \/ execution' = execution
              \/ execution = "none" /\ execution' \in Open \union Finished
              \/ execution \in Open /\ execution' \in Open \union Finished \union {"cancelled"}
<1>1. CASE UNCHANGED vars
  BY <1>1 DEF vars
<1>2. ASSUME NEW c \in Clients,
             Rollback(c) \/ Acquire(c) \/ \E op \in Operations : Begin(c, op)
      PROVE  UNCHANGED <<run, request, execution>>
  BY <1>2 DEF Rollback, Acquire, Begin
<1>3. ASSUME NEW c \in Clients, Commit(c),
             CommitStart(c) \/ CommitCancelExecution(c) \/ CommitAdvance(c)
      PROVE  /\ run \in TerminalRun => run' = run /\ request' = request
             /\ run' = execution'
             /\ \/ execution = "none" /\ execution' \in Open \union Finished
                \/ execution \in Open /\ execution' \in Open \union Finished \union {"cancelled"}
  <2>1. tx[c].wants = <<>>
    BY <1>3 DEF Commit
  <2> QED
    BY <1>3, <2>1, CommitStep
<1>4. ASSUME NEW c \in Clients, Commit(c), CommitApproveRun(c) \/ CommitCancelRunAlone(c)
      PROVE  run \notin TerminalRun /\ execution' = execution
  <2>1. tx[c].wants = <<>>
    BY <1>4 DEF Commit
  <2> QED
    BY <1>4, <2>1, ApproveStep, CancelAloneStep DEF TerminalRun
<1>5. "cancelled" \in TerminalRun
  BY DEF TerminalRun
<1> QED
  BY <1>1, <1>2, <1>3, <1>4, <1>5 DEF Next, Commit

(* A run that succeeded, failed or was cancelled keeps that status, and    *)
(* its request keeps the status it had.                                    *)
THEOREM RunFinality == Spec => TerminalRunFinal
<1>1. IInv /\ [Next]_vars =>
        [(run \in TerminalRun) => run' = run /\ request' = request]_vars
  BY RunStep
<1> QED
  BY <1>1, Invariance, PTL DEF Spec, TerminalRunFinal

(* No result of the workflow of a cancelled run is ever committed.         *)
THEOREM CancelledStops == Spec => CancelledRunStops
<1>1. IInv /\ [Next]_vars =>
        [(run = "cancelled") => execution' \in {execution, "cancelled"}]_vars
  BY RunStep
<1> QED
  BY <1>1, Invariance, PTL DEF Spec, CancelledRunStops

(* Seen from the run, the execution implements WorkflowStatus.             *)
THEOREM PromiseKept == Spec => ExecutionKeepsPromise
<1> DEFINE status == IF execution = "none" THEN "pending" ELSE execution
<1>1. Init => Workflow!Init
  BY DEF Init, Workflow!Init
<1>2. IInv /\ [Next]_vars => [Workflow!Next]_status
  BY RunStep DEF Workflow!Next, Workflow!Start, Workflow!Advance, Workflow!Cancel,
     Workflow!Open, Workflow!Finished, Open, Finished
<1> QED
  BY <1>1, <1>2, Invariance, PTL DEF Spec, ExecutionKeepsPromise, Workflow!Spec

(* For any number of clients, request, run and execution agree after every *)
(* commit (synchronize_execution_lifecycle).                               *)
THEOREM HierarchyConsistency == Spec => []HierarchyAgrees
  BY RequestConsistency, Projection, PTL DEF HierarchyAgrees

(* For any number of clients, no transaction undoes an end: of the         *)
(* execution, of the run or of the request.                                *)
THEOREM PromisesAreKept == Spec => PromisesKept
  BY PromiseKept, CancelledStops, RunFinality, PTL DEF PromisesKept
=============================================================================
