----------------------------- MODULE EventStream -----------------------------
(***************************************************************************)
(* The event ledger and the resumable SSE streams that replay it           *)
(* (infrastructure.database.repositories, application services,            *)
(* api.event_streams).                                                     *)
(*                                                                         *)
(* A transaction inserts its events when it is flushed: the database gives *)
(* each the next sequence number at once, and other sessions see them once *)
(* the transaction commits.  An event is its sequence number here.  A      *)
(* stream holds a page of events, yields them one by one and polls for     *)
(* those after its cursor; a client whose connection broke comes back with *)
(* the last event id it received (Last-Event-ID).                          *)
(***************************************************************************)
EXTENDS Naturals, Sequences, FiniteSets, SequencesExt, FiniteSetsExt

CONSTANTS
    EsWriters,        \* concurrent transactions
    EsClients,        \* SSE clients
    EsPageLimit,      \* limit of one query
    EsMaxEvents,      \* bound on the events ever inserted
    EsMaxDisconnects  \* bound on broken connections of one client

ASSUME EsAssumption ==
    /\ EsPageLimit \in Nat \ {0}
    /\ EsMaxEvents \in Nat /\ EsMaxDisconnects \in Nat

VARIABLES
    esSequence,    \* the last sequence number the database gave out
    esInserted,    \* esInserted[x]: events of the open transaction of writer x
    esLedger,      \* committed events
    esTopic,       \* the events that belong to the stream's aggregates
    esOvertaken,   \* history: events still uncommitted when a later one committed
    esOnline,      \* clients with an open connection
    esPage,        \* esPage[c]: the events the server fetched for c and has not yielded
    esCursor,      \* esCursor[c]: the server's cursor for c, 0 before any event
    esWire,        \* esWire[c]: events yielded to c and not received yet
    esReceived,    \* esReceived[c]: events client c received, in order
    esDisconnects  \* esDisconnects[c]: broken connections so far (for EsMaxDisconnects)

esDatabase == <<esSequence, esInserted, esLedger, esTopic, esOvertaken>>
esStreams == <<esOnline, esPage, esCursor, esWire, esReceived, esDisconnects>>
esVars == <<esDatabase, esStreams>>

EsEvents == 1 .. EsMaxEvents

EsInit ==
    /\ esSequence = 0 /\ esInserted = [x \in EsWriters |-> {}] /\ esLedger = {}
    /\ esTopic = {} /\ esOvertaken = {}
    /\ esOnline = {} /\ esPage = [c \in EsClients |-> {}] /\ esCursor = [c \in EsClients |-> 0]
    /\ esWire = [c \in EsClients |-> <<>>] /\ esReceived = [c \in EsClients |-> <<>>]
    /\ esDisconnects = [c \in EsClients |-> 0]

-----------------------------------------------------------------------------
(* The ledger.                                                             *)

\* SqlAlchemyEventRepository.append, flushed: the event belongs to the
\* stream's aggregates or to others.
EsInsertEvent(x) ==
    /\ esSequence < EsMaxEvents
    /\ esSequence' = esSequence + 1
    /\ esInserted' = [esInserted EXCEPT ![x] = @ \cup {esSequence + 1}]
    /\ esTopic' \in {esTopic, esTopic \cup {esSequence + 1}}
    /\ UNCHANGED <<esLedger, esOvertaken, esStreams>>

\* SqlAlchemyUnitOfWork.commit.
EsCommitTransaction(x) ==
    /\ esInserted[x] # {}
    /\ esLedger' = esLedger \cup esInserted[x]
    /\ esInserted' = [esInserted EXCEPT ![x] = {}]
    /\ esOvertaken' = esOvertaken \cup
          {e \in UNION {esInserted[y] : y \in EsWriters \ {x}} : \E m \in esInserted[x] : e < m}
    /\ UNCHANGED <<esSequence, esTopic, esStreams>>

\* Mutant: the sequence numbers are taken back.
EsRollbackReusesNumbers(x) ==
    /\ esInserted[x] # {}
    /\ esInserted' = [esInserted EXCEPT ![x] = {}]
    /\ esSequence' = Min(esInserted[x]) - 1
    /\ UNCHANGED <<esLedger, esTopic, esOvertaken, esStreams>>

\* SqlAlchemyUnitOfWork.rollback: the sequence numbers are not given out again.
EsRollbackTransaction(x) ==
    /\ esInserted[x] # {}
    /\ esInserted' = [esInserted EXCEPT ![x] = {}]
    /\ UNCHANGED <<esSequence, esLedger, esTopic, esOvertaken, esStreams>>

-----------------------------------------------------------------------------
(* The streams.                                                            *)

\* ORDER BY sequence LIMIT EsPageLimit: the first events of what a query found.
EsFirstPage(found) == {e \in found : Cardinality({f \in found : f < e}) < EsPageLimit}

\* Mutant: the query includes the cursor's own event.
EsListFrom(after) == EsFirstPage({e \in esLedger \cap esTopic : e >= after})

\* list_after and list_project_after: the next page after a cursor.
EsListAfter(after) == EsFirstPage({e \in esLedger \cap esTopic : e > after})

\* The id of the last event the client received.
EsLastEventId(c) == IF esReceived[c] = <<>> THEN 0 ELSE Last(esReceived[c])

\* Mutant: the stream resumes where the server stopped yielding.
EsConnectAtServerCursor(c) ==
    /\ c \notin esOnline /\ esOnline' = esOnline \cup {c}
    /\ esPage' = [esPage EXCEPT ![c] = EsListAfter(esCursor[c])]
    /\ UNCHANGED <<esDatabase, esCursor, esWire, esReceived, esDisconnects>>

\* stream_project_events and stream_external_execution_events: the initial
\* page is read at the cursor the client sent.
EsConnect(c) ==
    /\ c \notin esOnline /\ esOnline' = esOnline \cup {c}
    /\ esCursor' = [esCursor EXCEPT ![c] = EsLastEventId(c)]
    /\ esPage' = [esPage EXCEPT ![c] = EsListAfter(EsLastEventId(c))]
    /\ UNCHANGED <<esDatabase, esWire, esReceived, esDisconnects>>

\* The stream yields the next event of its page, the one with the lowest number.
EsYield(c) ==
    /\ c \in esOnline
    /\ \E e \in esPage[c] :
          /\ \A f \in esPage[c] : e <= f
          /\ esCursor' = [esCursor EXCEPT ![c] = e]
          /\ esWire' = [esWire EXCEPT ![c] = Append(@, e)]
          /\ esPage' = [esPage EXCEPT ![c] = @ \ {e}]
    /\ UNCHANGED <<esDatabase, esOnline, esReceived, esDisconnects>>

\* Mutant: what the query finds is not kept.
EsPollDiscarded(c) ==
    /\ c \in esOnline /\ esPage[c] = {}
    /\ UNCHANGED esVars

\* The page is used up: the stream asks for the next one.
EsPoll(c) ==
    /\ c \in esOnline /\ esPage[c] = {}
    /\ esPage' = [esPage EXCEPT ![c] = EsListAfter(esCursor[c])]
    /\ UNCHANGED <<esDatabase, esOnline, esCursor, esWire, esReceived, esDisconnects>>

\* The client receives the next event on the wire.
EsReceive(c) ==
    /\ esWire[c] # <<>>
    /\ esReceived' = [esReceived EXCEPT ![c] = Append(@, Head(esWire[c]))]
    /\ esWire' = [esWire EXCEPT ![c] = Tail(@)]
    /\ UNCHANGED <<esDatabase, esOnline, esPage, esCursor, esDisconnects>>

\* The connection breaks, and what was on the wire or in the page is lost.
EsDisconnect(c) ==
    /\ c \in esOnline /\ esOnline' = esOnline \ {c}
    /\ esDisconnects[c] < EsMaxDisconnects
    /\ esDisconnects' = [esDisconnects EXCEPT ![c] = @ + 1]
    /\ esPage' = [esPage EXCEPT ![c] = {}] /\ esWire' = [esWire EXCEPT ![c] = <<>>]
    /\ UNCHANGED <<esDatabase, esCursor, esReceived>>

-----------------------------------------------------------------------------
EsServe(c) == EsConnect(c) \/ EsYield(c) \/ EsPoll(c) \/ EsReceive(c)

EsNext ==
    \/ \E x \in EsWriters : EsInsertEvent(x) \/ EsCommitTransaction(x) \/ EsRollbackTransaction(x)
    \/ \E c \in EsClients : EsServe(c) \/ EsDisconnect(c)

EsSpec == EsInit /\ [][EsNext]_esVars

\* A transaction ends; a client that lost its connection reconnects and reads,
\* and the server's loop polls and yields for as long as the client is there.
EsFairSpec ==
    /\ EsSpec
    /\ \A x \in EsWriters : WF_esVars(EsCommitTransaction(x) \/ EsRollbackTransaction(x))
    /\ \A c \in EsClients :
          /\ WF_esVars(EsConnect(c)) /\ WF_esVars(EsYield(c))
          /\ WF_esVars(EsPoll(c)) /\ WF_esVars(EsReceive(c))

-----------------------------------------------------------------------------
(* Properties.                                                             *)

\* Types, and no event beyond the last sequence number given out.
EsTypeOK ==
    /\ esSequence \in 0 .. EsMaxEvents
    /\ esInserted \in [EsWriters -> SUBSET (1 .. esSequence)]
    /\ esLedger \subseteq 1 .. esSequence
    /\ esTopic \subseteq EsEvents /\ esOvertaken \subseteq EsEvents
    /\ esOnline \subseteq EsClients /\ esCursor \in [EsClients -> 0 .. EsMaxEvents]
    /\ esPage \in [EsClients -> SUBSET EsEvents]
    /\ esWire \in [EsClients -> Seq(EsEvents)] /\ esReceived \in [EsClients -> Seq(EsEvents)]
    /\ esDisconnects \in [EsClients -> 0 .. EsMaxDisconnects]

\* However often a client reconnects, it receives committed events of its
\* stream only, in ledger order and each at most once.
EsReplayInOrder ==
    \A c \in EsClients :
        /\ ToSet(esReceived[c]) \subseteq esLedger \cap esTopic
        /\ \A i \in 1 .. Len(esReceived[c]) - 1 : esReceived[c][i] < esReceived[c][i + 1]

\* README, ORCH-017: replay from the ledger loses no events.  A client that
\* received an event received every earlier one of the ledger.
EsNoGap ==
    \A c \in EsClients : \A e \in esLedger \cap esTopic :
        e < EsLastEventId(c) => e \in ToSet(esReceived[c])

\* What the cursor does guarantee: over reconnects, page boundaries and broken
\* connections a client misses no event, unless the event was still uncommitted
\* when another transaction committed a later one.
EsNoGapUnlessOvertaken ==
    \A c \in EsClients : \A e \in (esLedger \cap esTopic) \ esOvertaken :
        e < EsLastEventId(c) => e \in ToSet(esReceived[c])

\* Together: what a client has received is a prefix of its stream, in order and
\* without duplicates, up to overtaken events.
EsReplayFaithful == EsReplayInOrder /\ EsNoGapUnlessOvertaken

\* Again and again every client is up to date: each committed event of the
\* stream that was not overtaken reaches it.
EsAllDelivered ==
    \A c \in EsClients :
        []<>((esLedger \cap esTopic) \ esOvertaken \subseteq ToSet(esReceived[c]))
=============================================================================
