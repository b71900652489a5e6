------------------------- MODULE ReadinessMonitor -------------------------
(***************************************************************************)
(* How the readiness monitors walk over the active projects, page by page  *)
(* with a cursor they keep in memory, while projects are created and       *)
(* archived and the evaluation of some projects raises every time          *)
(* (worker_presence.monitor, evaluate_active_project_batch).  What the     *)
(* evaluation of one project does is in WorkerReadiness.                   *)
(***************************************************************************)
EXTENDS Integers, FiniteSets

CONSTANTS
    MnMonitors,   \* monitor processes
    MnProjects,   \* number of projects, numbered in created_at order
    MnOld,        \* projects that exist from the start
    MnBroken,     \* projects whose evaluation raises
    MnPage,       \* project_limit
    MnRestarts    \* bound on restarts of a monitor

ASSUME MnAssumption ==
    /\ MnProjects \in Nat /\ MnOld \in 0..MnProjects /\ MnBroken \subseteq 1..MnProjects
    /\ MnPage \in Nat \ {0} /\ MnRestarts \in Nat

VARIABLES
    mnCreated,    \* projects created so far
    mnActive,     \* projects with status ACTIVE
    mnMonitor,    \* mnMonitor[m]: cursor, rest of the page, the next cursor
    mnEvaluated,  \* the project whose evaluation ended last, 0 if it failed
    mnRestarted   \* restarts so far

mnVars == <<mnCreated, mnActive, mnMonitor, mnEvaluated, mnRestarted>>

\* WorkerReadinessMonitorRuntime: _cursor (0 for None) and the batch it works
\* on; page holds the projects of the batch that are still to be evaluated.
MnMonitorStates ==
    [phase : {"idle", "sweeping"}, cursor : 0..MnProjects, page : SUBSET (1..MnProjects),
     next : 0..MnProjects]

MnResting(cursor) == [phase |-> "idle", cursor |-> cursor, page |-> {}, next |-> 0]

MnInit ==
    /\ mnCreated = MnOld /\ mnActive = 1..MnOld
    /\ mnMonitor = [m \in MnMonitors |-> MnResting(0)]
    /\ mnEvaluated = 0 /\ mnRestarted = 0

\* A new project, which comes first in projects.list.
MnCreate ==
    /\ mnCreated < MnProjects /\ mnCreated' = mnCreated + 1
    /\ mnActive' = mnActive \cup {mnCreated + 1}
    /\ UNCHANGED <<mnMonitor, mnEvaluated, mnRestarted>>

MnArchive(p) ==
    /\ p \in mnActive /\ mnActive' = mnActive \ {p}
    /\ UNCHANGED <<mnCreated, mnMonitor, mnEvaluated, mnRestarted>>

\* SqlAlchemyProjectRepository.list: the active ones after the cursor.  The
\* cursor is a position, not a row: its project may be archived.
MnListed(cursor) == {p \in mnActive : cursor = 0 \/ p < cursor}

\* The listing is newest first.
MnFirst(projects, p) == p \in projects /\ \A q \in projects : q <= p
MnLast(projects, p) == p \in projects /\ \A q \in projects : p <= q

\* evaluate_active_project_batch: the first MnPage projects of the listing.
MnPageOf(listed) == {p \in listed : Cardinality({q \in listed : p < q}) < MnPage}

\* Its next_cursor: it reads one project more than the page, to know whether
\* another page follows.
MnNextCursor(listed, next) ==
    IF MnPageOf(listed) = listed THEN next = 0 ELSE MnLast(MnPageOf(listed), next)

\* WorkerReadinessMonitorRuntime.run_once starts.
MnBeginPage(m) ==
    LET listed == MnListed(mnMonitor[m].cursor)
    IN  /\ mnMonitor[m].phase = "idle"
        /\ \E next \in 0..MnProjects :
               /\ MnNextCursor(listed, next)
               /\ mnMonitor' = [mnMonitor EXCEPT ![m] =
                      [phase |-> "sweeping", cursor |-> mnMonitor[m].cursor,
                       page |-> MnPageOf(listed), next |-> next]]
        /\ UNCHANGED <<mnCreated, mnActive, mnEvaluated, mnRestarted>>

\* Mutant: an exception leaves the loop and the run, which starts over.
MnEvaluateUnguarded(m) ==
    /\ mnMonitor[m].phase = "sweeping"
    /\ \E p \in mnMonitor[m].page :
          /\ MnFirst(mnMonitor[m].page, p)
          /\ mnMonitor' = [mnMonitor EXCEPT ![m] =
                 IF p \in MnBroken THEN MnResting(0) ELSE [@ EXCEPT !.page = @ \ {p}]]
          /\ mnEvaluated' = IF p \in MnBroken THEN 0 ELSE p
    /\ UNCHANGED <<mnCreated, mnActive, mnRestarted>>

\* One turn of the batch's loop: an exception is recorded as a failure of the
\* project and the loop goes on.
MnEvaluate(m) ==
    /\ mnMonitor[m].phase = "sweeping"
    /\ \E p \in mnMonitor[m].page :
          /\ MnFirst(mnMonitor[m].page, p)
          /\ mnMonitor' = [mnMonitor EXCEPT ![m].page = @ \ {p}]
          /\ mnEvaluated' = IF p \in MnBroken THEN 0 ELSE p
    /\ UNCHANGED <<mnCreated, mnActive, mnRestarted>>

\* run_once keeps the batch's next_cursor; None starts the next sweep.
MnEndPage(m) ==
    /\ mnMonitor[m].phase = "sweeping" /\ mnMonitor[m].page = {}
    /\ mnMonitor' = [mnMonitor EXCEPT ![m] = MnResting(mnMonitor[m].next)]
    /\ UNCHANGED <<mnCreated, mnActive, mnEvaluated, mnRestarted>>

\* A monitor is started anew: the cursor is lost.
MnRestart(m) ==
    /\ mnMonitor[m] # MnResting(0) /\ mnRestarted < MnRestarts
    /\ mnRestarted' = mnRestarted + 1
    /\ mnMonitor' = [mnMonitor EXCEPT ![m] = MnResting(0)]
    /\ UNCHANGED <<mnCreated, mnActive, mnEvaluated>>

MnStep(m) == MnBeginPage(m) \/ MnEvaluate(m) \/ MnEndPage(m)

MnNext ==
    \/ MnCreate \/ \E p \in mnActive : MnArchive(p)
    \/ \E m \in MnMonitors : MnStep(m) \/ MnRestart(m)

MnSpec == MnInit /\ [][MnNext]_mnVars

-----------------------------------------------------------------------------
\* Projects and monitors have their types.
MnTypeOK ==
    /\ mnCreated \in 0..MnProjects /\ mnActive \subseteq 1..mnCreated
    /\ mnMonitor \in [MnMonitors -> MnMonitorStates]
    /\ mnEvaluated \in 0..MnProjects /\ mnRestarted \in Nat

\* No project starves: though the evaluation of other projects raises every
\* time, projects come and go between two pages and a monitor may lose its
\* cursor, a sound project is evaluated again and again while it is active.
MnNoProjectStarves ==
    \A p \in (1..MnProjects) \ MnBroken :
        []<>(mnEvaluated = p \/ p \notin mnActive)
=============================================================================
