------------------------ MODULE StreamsBundlesProofs ------------------------
(***************************************************************************)
(* Proofs about the two clients whose connections break: a client of the   *)
(* event streams receives the ledger in order and without gaps, and a      *)
(* bundle that was applied is in the catalog as it was written.            *)
(***************************************************************************)
EXTENDS MCConnections, FiniteSetTheorems, SequenceTheorems, NaturalsInduction,
        WellFoundedInduction, TLAPS

-----------------------------------------------------------------------------
(* Event streams: sequences of events.                                     *)

\* The numbers of s grow.
Increasing(s) == \A i, j \in 1 .. Len(s) : i < j => s[i] < s[j]

\* An element at the end of a sequence.
LEMMA AppendedEvents ==
    ASSUME NEW s \in Seq(EsEvents), NEW e \in EsEvents
    PROVE  /\ Append(s, e) \in Seq(EsEvents)
           /\ ToSet(Append(s, e)) = ToSet(s) \cup {e}
           /\ (Increasing(s) /\ \A d \in ToSet(s) : d < e) => Increasing(Append(s, e))
<1>1. /\ Append(s, e) \in Seq(EsEvents) /\ Len(Append(s, e)) = Len(s) + 1 /\ Len(s) \in Nat
      /\ \A i \in 1 .. Len(s) : Append(s, e)[i] = s[i]
      /\ Append(s, e)[Len(s) + 1] = e
  OBVIOUS
<1>2. /\ ToSet(s) = {s[i] : i \in 1 .. Len(s)}
      /\ ToSet(Append(s, e)) = {Append(s, e)[i] : i \in 1 .. Len(s) + 1}
  BY <1>1 DEF ToSet
<1>3. ToSet(Append(s, e)) = ToSet(s) \cup {e}
  <2>1. ToSet(Append(s, e)) \subseteq ToSet(s) \cup {e}
    <3>1. SUFFICES ASSUME NEW i \in 1 .. Len(s) + 1 PROVE Append(s, e)[i] \in ToSet(s) \cup {e}
      BY <1>2
    <3>2. CASE i \in 1 .. Len(s)
      BY <3>2, <1>1, <1>2
    <3>3. CASE i = Len(s) + 1
      BY <3>3, <1>1
    <3>4. QED
      BY <3>2, <3>3, <1>1
  <2>2. ASSUME NEW i \in 1 .. Len(s) PROVE s[i] \in ToSet(Append(s, e))
    <3>1. i \in 1 .. Len(s) + 1 /\ Append(s, e)[i] = s[i]
      BY <1>1
    <3>2. QED
      BY <3>1, <1>2
  <2>3. e \in ToSet(Append(s, e))
    <3>1. Len(s) + 1 \in 1 .. Len(s) + 1
      BY <1>1
    <3>2. QED
      BY <3>1, <1>1, <1>2
  <2>4. QED
    BY <2>1, <2>2, <2>3, <1>2
<1>4. ASSUME Increasing(s), \A d \in ToSet(s) : d < e PROVE Increasing(Append(s, e))
  <2>1. SUFFICES ASSUME NEW i \in 1 .. Len(s) + 1, NEW j \in 1 .. Len(s) + 1, i < j
                 PROVE  Append(s, e)[i] < Append(s, e)[j]
    BY <1>1 DEF Increasing
  <2>2. i \in 1 .. Len(s) /\ Append(s, e)[i] = s[i] /\ s[i] \in ToSet(s)
    BY <2>1, <1>1, <1>2
  <2>3. CASE j \in 1 .. Len(s)
    BY <2>1, <2>2, <2>3, <1>1, <1>4 DEF Increasing
  <2>4. CASE j = Len(s) + 1
    BY <2>2, <2>4, <1>1, <1>4
  <2>5. QED
    BY <2>3, <2>4, <1>1
<1>5. QED
  BY <1>1, <1>3, <1>4

\* The first element of a sequence and the rest.
LEMMA HeadAndTail ==
    ASSUME NEW s \in Seq(EsEvents), s # <<>>
    PROVE  /\ Head(s) \in EsEvents /\ Tail(s) \in Seq(EsEvents)
           /\ ToSet(s) = {Head(s)} \cup ToSet(Tail(s))
           /\ Increasing(s) => /\ Increasing(Tail(s))
                               /\ \A d \in ToSet(Tail(s)) : Head(s) < d
<1>1. /\ Len(s) \in Nat /\ Len(s) # 0 /\ Head(s) = s[1] /\ Head(s) \in EsEvents
      /\ Tail(s) \in Seq(EsEvents) /\ Len(Tail(s)) = Len(s) - 1
      /\ \A i \in 1 .. Len(s) - 1 : Tail(s)[i] = s[i + 1]
  OBVIOUS
<1>2. /\ ToSet(s) = {s[i] : i \in 1 .. Len(s)}
      /\ ToSet(Tail(s)) = {Tail(s)[i] : i \in 1 .. Len(s) - 1}
  <2>1. DOMAIN s = 1 .. Len(s) /\ DOMAIN Tail(s) = 1 .. Len(Tail(s))
    BY <1>1
  <2>2. DOMAIN Tail(s) = 1 .. Len(s) - 1
    BY <2>1, <1>1
  <2>3. QED
    BY <2>1, <2>2 DEF ToSet
<1>3. ASSUME NEW i \in 1 .. Len(s) PROVE s[i] \in {Head(s)} \cup ToSet(Tail(s))
  <2>1. CASE i = 1
    BY <2>1, <1>1
  <2>2. CASE i # 1
    <3>1. i - 1 \in 1 .. Len(s) - 1 /\ Tail(s)[i - 1] = s[i]
      BY <2>2, <1>1
    <3>2. QED
      BY <3>1, <1>2
  <2>3. QED
    BY <2>1, <2>2
<1>4. ASSUME NEW i \in 1 .. Len(s) - 1
      PROVE  /\ Tail(s)[i] \in ToSet(s)
             /\ Increasing(s) => Head(s) < Tail(s)[i]
  <2>1. i + 1 \in 1 .. Len(s) /\ 1 \in 1 .. Len(s) /\ 1 < i + 1 /\ Tail(s)[i] = s[i + 1]
    BY <1>1
  <2>2. QED
    BY <2>1, <1>1, <1>2 DEF Increasing
<1>5. Head(s) \in ToSet(s)
  <2>1. 1 \in 1 .. Len(s)
    BY <1>1
  <2>2. QED
    BY <2>1, <1>1, <1>2
<1>6. ToSet(s) = {Head(s)} \cup ToSet(Tail(s))
  BY <1>2, <1>3, <1>4, <1>5
<1>7. ASSUME Increasing(s) PROVE Increasing(Tail(s))
  <2>1. SUFFICES ASSUME NEW i \in 1 .. Len(s) - 1, NEW j \in 1 .. Len(s) - 1, i < j
                 PROVE  Tail(s)[i] < Tail(s)[j]
    BY <1>1 DEF Increasing
  <2>2. /\ i + 1 \in 1 .. Len(s) /\ j + 1 \in 1 .. Len(s) /\ i + 1 < j + 1
        /\ Tail(s)[i] = s[i + 1] /\ Tail(s)[j] = s[j + 1]
    BY <2>1, <1>1
  <2>3. QED
    BY <2>2, <1>7 DEF Increasing
<1>8. QED
  BY <1>1, <1>2, <1>4, <1>6, <1>7

\* Nothing has been received or sent.
LEMMA NoEvents == ToSet(<<>>) = {} /\ Increasing(<<>>) /\ <<>> \in Seq(EsEvents)
BY DEF ToSet, Increasing

\* The last element of a sequence that grows.
LEMMA LastIsLatest ==
    ASSUME NEW s \in Seq(EsEvents), s # <<>>
    PROVE  /\ Last(s) \in ToSet(s) /\ Last(s) \in EsEvents
           /\ Increasing(s) => \A d \in ToSet(s) : d <= Last(s)
<1>1. Len(s) \in 1 .. Len(s) /\ DOMAIN s = 1 .. Len(s) /\ Len(s) \in Nat
  OBVIOUS
<1>2. \A i \in 1 .. Len(s) : s[i] \in EsEvents
  BY <1>1
<1>3. Last(s) = s[Len(s)] /\ ToSet(s) = {s[i] : i \in 1 .. Len(s)}
  BY <1>1 DEF Last, ToSet
<1>4. ASSUME Increasing(s), NEW i \in 1 .. Len(s) PROVE s[i] <= s[Len(s)]
  <2>1. s[i] \in Int /\ s[Len(s)] \in Int
    BY <1>1, <1>2 DEF EsEvents
  <2>2. CASE i = Len(s)
    BY <2>1, <2>2
  <2>3. CASE i < Len(s)
    BY <2>1, <2>3, <1>1, <1>4 DEF Increasing
  <2>4. ASSUME NEW n \in Nat, i \in 1 .. n PROVE i = n \/ i < n
    BY <2>4
  <2>5. QED
    BY <2>2, <2>3, <2>4, <1>1
<1>5. QED
  BY <1>1, <1>2, <1>3, <1>4

\* A page is what a query found, without holes.
LEMMA PageHasNoHoles ==
    ASSUME NEW found \in SUBSET EsEvents, NEW e \in EsFirstPage(found), NEW f \in found, f < e,
           EsAssumption
    PROVE  f \in EsFirstPage(found)
<1>1. IsFiniteSet(found)
  <2>1. IsFiniteSet(EsEvents)
    BY FS_Interval DEF EsAssumption, EsEvents
  <2>2. QED
    BY <2>1, FS_Subset
<1>2. {g \in found : g < f} \subseteq {g \in found : g < e}
  <2>1. e \in Int /\ f \in Int /\ \A g \in found : g \in Int
    BY DEF EsEvents, EsFirstPage
  <2>2. ASSUME NEW g \in found, g < f PROVE g < e
    BY <2>1, <2>2
  <2>3. QED
    BY <2>2
<1>3. /\ Cardinality({g \in found : g < f}) \in Nat
      /\ Cardinality({g \in found : g < f}) <= Cardinality({g \in found : g < e})
  <2>1. IsFiniteSet({g \in found : g < e})
    BY <1>1, FS_Subset
  <2>2. QED
    BY <2>1, <1>2, FS_Subset, FS_CardinalityType
<1>4. Cardinality({g \in found : g < e}) < EsPageLimit /\ Cardinality({g \in found : g < e}) \in Nat
  BY <1>1, FS_Subset, FS_CardinalityType DEF EsFirstPage
<1>5. QED
  BY <1>3, <1>4 DEF EsAssumption, EsFirstPage

-----------------------------------------------------------------------------
(* Event streams: the inductive invariant.                                 *)

\* The committed events of the stream no cursor may have passed by.
Due == (esLedger \cap esTopic) \ esOvertaken

\* An event that is still uncommitted while a later one is committed is
\* overtaken: what commits later without being overtaken is the latest.
LateIsOvertaken ==
    /\ \A x \in EsWriters : \A e \in esInserted[x] :
          e \notin esLedger /\ \A g \in esLedger : e < g => e \in esOvertaken
    /\ \A x, y \in EsWriters : x # y => esInserted[x] \cap esInserted[y] = {}

\* What client c received comes before what is on the wire, both grow, and
\* they hold every due event up to the last one received.
ClientInOrder(c) ==
    /\ Increasing(esReceived[c]) /\ Increasing(esWire[c])
    /\ ToSet(esReceived[c]) \cup ToSet(esWire[c]) \cup esPage[c] \subseteq esLedger \cap esTopic
    /\ \A r \in ToSet(esReceived[c]) : \A w \in ToSet(esWire[c]) : r < w
    /\ \A r \in ToSet(esReceived[c]) : \A e \in Due : e <= r => e \in ToSet(esReceived[c])

\* The server's end of an open connection: every due event up to its cursor
\* was received or is on the wire, and its page follows without holes.
ServerInOrder(c) ==
    /\ esCursor[c] \in esLedger \cup {0}
    /\ \A e \in ToSet(esReceived[c]) \cup ToSet(esWire[c]) : e <= esCursor[c]
    /\ \A e \in Due : e <= esCursor[c] => e \in ToSet(esReceived[c]) \cup ToSet(esWire[c])
    /\ \A e \in esPage[c] : esCursor[c] < e
    /\ \A e \in esPage[c] : \A f \in Due : (esCursor[c] < f /\ f < e) => f \in esPage[c]

\* The inductive invariant of the streams.
StreamIInv ==
    /\ EsTypeOK /\ LateIsOvertaken
    /\ \A c \in EsClients : ClientInOrder(c)
    /\ \A c \in esOnline : ServerInOrder(c)
    /\ \A c \in EsClients \ esOnline : esWire[c] = <<>> /\ esPage[c] = {}

\* The invariant says what the runs check.
LEMMA StreamIInvSafe == StreamIInv => EsTypeOK /\ EsReplayFaithful
<1>1. SUFFICES ASSUME StreamIInv, NEW c \in EsClients
               PROVE  /\ ToSet(esReceived[c]) \subseteq esLedger \cap esTopic
                      /\ \A i \in 1 .. Len(esReceived[c]) - 1 : esReceived[c][i] < esReceived[c][i + 1]
                      /\ \A e \in Due : e < EsLastEventId(c) => e \in ToSet(esReceived[c])
  BY DEF EsReplayFaithful, EsReplayInOrder, EsNoGapUnlessOvertaken, Due, StreamIInv
<1>2. esReceived[c] \in Seq(EsEvents) /\ Len(esReceived[c]) \in Nat /\ ClientInOrder(c)
  BY <1>1 DEF StreamIInv, EsTypeOK
<1>3. ToSet(esReceived[c]) \subseteq esLedger \cap esTopic
  BY <1>2 DEF ClientInOrder
<1>4. ASSUME NEW i \in 1 .. Len(esReceived[c]) - 1 PROVE esReceived[c][i] < esReceived[c][i + 1]
  <2>1. i \in 1 .. Len(esReceived[c]) /\ i + 1 \in 1 .. Len(esReceived[c]) /\ i < i + 1
    BY <1>2
  <2>2. QED
    BY <2>1, <1>2 DEF ClientInOrder, Increasing
<1>5. ASSUME NEW e \in Due, e < EsLastEventId(c) PROVE e \in ToSet(esReceived[c])
  <2>1. e \in Nat \ {0}
    BY <1>1 DEF Due, StreamIInv, EsTypeOK, EsEvents
  <2>2. esReceived[c] # <<>> /\ EsLastEventId(c) = Last(esReceived[c])
    BY <1>5, <2>1 DEF EsLastEventId
  <2>4. EsLastEventId(c) \in ToSet(esReceived[c]) /\ EsLastEventId(c) \in Nat
    BY <2>2, <1>2, LastIsLatest DEF EsEvents
  <2>5. QED
    BY <1>5, <2>1, <2>4, <1>2 DEF ClientInOrder
<1>6. QED
  BY <1>3, <1>4, <1>5

\* The empty ledger.
LEMMA StreamInit == ASSUME EsAssumption, EsInit PROVE StreamIInv
<1>1. EsTypeOK
  BY NoEvents DEF EsAssumption, EsInit, EsTypeOK, EsEvents
<1>2. LateIsOvertaken
  BY DEF EsInit, LateIsOvertaken
<1>3. \A c \in EsClients : ClientInOrder(c) /\ esWire[c] = <<>> /\ esPage[c] = {}
  BY NoEvents DEF EsInit, ClientInOrder, Due
<1>4. QED
  BY <1>1, <1>2, <1>3 DEF StreamIInv, EsInit

\* The clients do not notice a step of the database that commits nothing.
LEMMA StreamsUndisturbed ==
    ASSUME NEW c \in EsClients, esLedger' = esLedger, esOvertaken' = esOvertaken,
           esTopic' \cap esLedger = esTopic \cap esLedger, UNCHANGED esStreams
    PROVE  /\ ClientInOrder(c) => ClientInOrder(c)'
           /\ ServerInOrder(c) => ServerInOrder(c)'
<1>1. Due' = Due /\ esLedger' \cap esTopic' = esLedger \cap esTopic
  BY DEF Due
<1>2. QED
  BY <1>1 DEF ClientInOrder, ServerInOrder, esStreams

\* The database: inserting, committing and rolling back.
LEMMA StreamInsert ==
    ASSUME EsAssumption, StreamIInv, NEW x \in EsWriters, EsInsertEvent(x)
    PROVE  StreamIInv'
<1>1. esSequence \in Nat /\ esSequence + 1 \in EsEvents /\ esSequence' = esSequence + 1
  BY DEF StreamIInv, EsTypeOK, EsInsertEvent, EsAssumption, EsEvents
<1>2. \A e \in 1 .. esSequence : e \in 1 .. esSequence + 1 /\ e # esSequence + 1
  BY <1>1
<1>3. esLedger \subseteq 1 .. esSequence /\ \A y \in EsWriters : esInserted[y] \subseteq 1 .. esSequence
  BY DEF StreamIInv, EsTypeOK
<1>4. /\ esInserted'[x] = esInserted[x] \cup {esSequence + 1}
      /\ \A y \in EsWriters \ {x} : esInserted'[y] = esInserted[y]
  BY DEF StreamIInv, EsTypeOK, EsInsertEvent
<1>5. EsTypeOK'
  <2>1. esSequence' \in 0 .. EsMaxEvents /\ esSequence + 1 \in 1 .. esSequence + 1
    BY <1>1 DEF EsEvents
  <2>2. esInserted' \in [EsWriters -> SUBSET (1 .. esSequence')]
    BY <1>1, <1>2, <1>3, <2>1 DEF StreamIInv, EsTypeOK, EsInsertEvent
  <2>3. esLedger' \subseteq 1 .. esSequence' /\ esTopic' \subseteq EsEvents
    BY <1>1, <1>2, <1>3 DEF StreamIInv, EsTypeOK, EsInsertEvent
  <2>4. QED
    BY <2>1, <2>2, <2>3 DEF StreamIInv, EsTypeOK, EsInsertEvent, esStreams
<1>6. LateIsOvertaken'
  <2>1. esLedger' = esLedger /\ esOvertaken' = esOvertaken
    BY DEF EsInsertEvent
  <2>2. ASSUME NEW y \in EsWriters, NEW e \in esInserted'[y]
        PROVE  e \notin esLedger /\ \A g \in esLedger : e < g => e \in esOvertaken
    <3>1. CASE e \in esInserted[y]
      BY <3>1 DEF StreamIInv, LateIsOvertaken
    <3>2. CASE e = esSequence + 1
      BY <3>2, <1>1, <1>3
    <3>3. QED
      BY <2>2, <3>1, <3>2, <1>4
  <2>3. \A y, z \in EsWriters : y # z => esInserted'[y] \cap esInserted'[z] = {}
    BY <1>2, <1>3, <1>4 DEF StreamIInv, LateIsOvertaken
  <2>4. QED
    BY <2>1, <2>2, <2>3 DEF LateIsOvertaken
<1>7. esTopic' \cap esLedger = esTopic \cap esLedger /\ esLedger' = esLedger /\ esOvertaken' = esOvertaken
  BY <1>2, <1>3 DEF EsInsertEvent
<1>8. UNCHANGED esStreams
  BY DEF EsInsertEvent, esStreams
<1>9. \A c \in EsClients : ClientInOrder(c)' /\ (c \in esOnline => ServerInOrder(c)')
  BY <1>7, <1>8, StreamsUndisturbed DEF StreamIInv
<1>10. QED
  BY <1>5, <1>6, <1>8, <1>9 DEF StreamIInv, EsTypeOK, esStreams

(* A commit makes the inserted events visible and keeps the invariant. *)
LEMMA StreamCommit ==
    ASSUME EsAssumption, StreamIInv, NEW x \in EsWriters, EsCommitTransaction(x)
    PROVE  StreamIInv'
<1>1. /\ esLedger' = esLedger \cup esInserted[x] /\ esTopic' = esTopic /\ UNCHANGED esStreams
      /\ esInserted'[x] = {} /\ \A y \in EsWriters \ {x} : esInserted'[y] = esInserted[y]
  BY DEF StreamIInv, EsTypeOK, EsCommitTransaction, esStreams
<1>2. /\ esOvertaken \subseteq esOvertaken'
      /\ \A y \in EsWriters \ {x} : \A e \in esInserted[y] :
            (\E m \in esInserted[x] : e < m) => e \in esOvertaken'
  BY DEF EsCommitTransaction
<1>3. EsTypeOK'
  <2>1. esSequence' = esSequence /\ 1 .. esSequence \subseteq EsEvents
    BY DEF StreamIInv, EsTypeOK, EsCommitTransaction, EsEvents
  <2>2. esInserted' \in [EsWriters -> SUBSET (1 .. esSequence')]
    BY <2>1 DEF StreamIInv, EsTypeOK, EsCommitTransaction
  <2>3. esLedger' \subseteq 1 .. esSequence'
    BY <2>1, <1>1 DEF StreamIInv, EsTypeOK
  <2>4. esOvertaken' \subseteq EsEvents
    <3>1. \A y \in EsWriters : esInserted[y] \subseteq EsEvents
      BY <2>1 DEF StreamIInv, EsTypeOK
    <3>2. QED
      BY <3>1 DEF StreamIInv, EsTypeOK, EsCommitTransaction
  <2>5. QED
    BY <2>1, <2>2, <2>3, <2>4, <1>1 DEF StreamIInv, EsTypeOK, esStreams
<1>4. LateIsOvertaken'
  <2>1. ASSUME NEW y \in EsWriters, NEW e \in esInserted'[y]
        PROVE  e \notin esLedger' /\ \A g \in esLedger' : e < g => e \in esOvertaken'
    <3>1. y # x /\ e \in esInserted[y]
      BY <2>1, <1>1
    <3>2. QED
      BY <3>1, <1>1, <1>2 DEF StreamIInv, LateIsOvertaken
  <2>2. \A y, z \in EsWriters : y # z => esInserted'[y] \cap esInserted'[z] = {}
    BY <1>1 DEF StreamIInv, LateIsOvertaken
  <2>3. QED
    BY <2>1, <2>2 DEF LateIsOvertaken
<1>5. \* What becomes due is later than everything that was committed.
      ASSUME NEW e \in Due', e \notin Due, NEW g \in esLedger PROVE ~(e <= g)
  <2>1. e \in esInserted[x] /\ e \notin esOvertaken
    BY <1>5, <1>1, <1>2 DEF Due
  <2>2. e \notin esLedger /\ (e < g => e \in esOvertaken)
    BY <2>1 DEF StreamIInv, LateIsOvertaken
  <2>3. e \in Nat /\ g \in Nat
    BY <2>1 DEF StreamIInv, EsTypeOK
  <2>4. QED
    BY <2>1, <2>2, <2>3
<1>6. ASSUME NEW e \in Due' PROVE e \in Nat \ {0}
  BY <1>3, <1>6 DEF Due, EsTypeOK, EsEvents
<1>7. ASSUME NEW c \in EsClients PROVE ClientInOrder(c)'
  <2>1. ClientInOrder(c) /\ esReceived'[c] = esReceived[c] /\ esWire'[c] = esWire[c] /\ esPage'[c] = esPage[c]
    BY <1>1 DEF StreamIInv, esStreams
  <2>2. ASSUME NEW r \in ToSet(esReceived[c]), NEW e \in Due', e <= r PROVE e \in ToSet(esReceived[c])
    <3>1. r \in esLedger
      BY <2>1 DEF ClientInOrder
    <3>2. e \in Due
      BY <3>1, <1>5, <2>2
    <3>3. QED
      BY <3>2, <2>1, <2>2 DEF ClientInOrder
  <2>3. QED
    BY <2>1, <2>2, <1>1 DEF ClientInOrder
<1>8. ASSUME NEW c \in esOnline PROVE ServerInOrder(c)'
  <2>1. /\ ServerInOrder(c) /\ c \in EsClients /\ ClientInOrder(c)
        /\ esReceived'[c] = esReceived[c] /\ esWire'[c] = esWire[c] /\ esPage'[c] = esPage[c]
        /\ esCursor'[c] = esCursor[c]
    BY <1>1 DEF StreamIInv, esStreams, EsTypeOK
  <2>2. ASSUME NEW e \in Due', e <= esCursor[c] PROVE e \in ToSet(esReceived[c]) \cup ToSet(esWire[c])
    <3>1. esCursor[c] \in esLedger
      BY <2>1, <2>2, <1>6 DEF ServerInOrder
    <3>2. e \in Due
      BY <3>1, <1>5, <2>2
    <3>3. QED
      BY <3>2, <2>1, <2>2 DEF ServerInOrder
  <2>3. ASSUME NEW e \in esPage[c], NEW f \in Due', esCursor[c] < f, f < e PROVE f \in esPage[c]
    <3>1. e \in esLedger
      BY <2>1 DEF ClientInOrder
    <3>2. e \in Nat /\ f \in Nat
      BY <3>1, <1>6 DEF StreamIInv, EsTypeOK
    <3>3. f \in Due
      BY <3>1, <3>2, <1>5, <2>3
    <3>4. QED
      BY <3>3, <2>1, <2>3 DEF ServerInOrder
  <2>4. QED
    BY <2>1, <2>2, <2>3, <1>1 DEF ServerInOrder
<1>9. QED
  BY <1>1, <1>3, <1>4, <1>7, <1>8 DEF StreamIInv, esStreams

(* A rollback makes nothing visible. *)
LEMMA StreamRollback ==
    ASSUME EsAssumption, StreamIInv, NEW x \in EsWriters, EsRollbackTransaction(x)
    PROVE  StreamIInv'
<1>1. /\ UNCHANGED <<esSequence, esLedger, esTopic, esOvertaken>> /\ UNCHANGED esStreams
      /\ esInserted' \in [EsWriters -> SUBSET (1 .. esSequence)]
      /\ esInserted'[x] = {} /\ \A y \in EsWriters \ {x} : esInserted'[y] = esInserted[y]
  BY DEF StreamIInv, EsTypeOK, EsRollbackTransaction, esStreams
<1>2. EsTypeOK'
  BY <1>1 DEF StreamIInv, EsTypeOK, esStreams
<1>3. LateIsOvertaken'
  BY <1>1 DEF StreamIInv, LateIsOvertaken
<1>4. \A c \in EsClients : ClientInOrder(c)' /\ (c \in esOnline => ServerInOrder(c)')
  BY <1>1, StreamsUndisturbed DEF StreamIInv
<1>5. QED
  BY <1>1, <1>2, <1>3, <1>4 DEF StreamIInv, EsTypeOK, esStreams

\* One client's connection: the database and the other clients stay as they are.
LEMMA OneConnection ==
    ASSUME StreamIInv, NEW c \in EsClients, UNCHANGED esDatabase, EsTypeOK',
           \A d \in EsClients \ {c} :
              /\ esReceived'[d] = esReceived[d] /\ esWire'[d] = esWire[d] /\ esPage'[d] = esPage[d]
              /\ esCursor'[d] = esCursor[d] /\ (d \in esOnline' <=> d \in esOnline),
           ClientInOrder(c)', c \in esOnline' => ServerInOrder(c)',
           c \notin esOnline' => (esWire'[c] = <<>> /\ esPage'[c] = {})
    PROVE  StreamIInv'
<1>1. Due' = Due /\ esLedger' = esLedger /\ esTopic' = esTopic
  BY DEF Due, esDatabase
<1>2. \A d \in EsClients \ {c} : ClientInOrder(d)' /\ (d \in esOnline' => ServerInOrder(d)')
  BY <1>1 DEF StreamIInv, ClientInOrder, ServerInOrder
<1>3. LateIsOvertaken'
  BY DEF StreamIInv, LateIsOvertaken, esDatabase
<1>4. QED
  BY <1>2, <1>3 DEF StreamIInv, EsTypeOK

\* What a query answers: events of the stream after the cursor, no due one left out.
LEMMA WhatAQueryFinds ==
    ASSUME EsAssumption, StreamIInv, NEW after \in Nat
    PROVE  /\ EsListAfter(after) \subseteq esLedger \cap esTopic /\ EsListAfter(after) \subseteq EsEvents
           /\ \A e \in EsListAfter(after) : after < e
           /\ \A e \in EsListAfter(after) : \A f \in Due :
                 (after < f /\ f < e) => f \in EsListAfter(after)
<1>1. PICK found \in SUBSET EsEvents : found = {e \in esLedger \cap esTopic : e > after}
  BY DEF StreamIInv, EsTypeOK
<1>2. EsListAfter(after) = EsFirstPage(found) /\ EsFirstPage(found) \subseteq found
  BY <1>1 DEF EsListAfter, EsFirstPage
<1>3. \A e \in EsListAfter(after) : \A f \in Due :
         (after < f /\ f < e) => f \in EsListAfter(after)
  <2>1. SUFFICES ASSUME NEW e \in EsFirstPage(found), NEW f \in Due, after < f, f < e
                 PROVE  f \in EsFirstPage(found)
    BY <1>2
  <2>2. f \in found
    BY <1>1, <2>1 DEF Due, StreamIInv, EsTypeOK, EsEvents
  <2>3. QED
    BY <2>1, <2>2, PageHasNoHoles
<1>4. \A e \in found : after < e
  BY <1>1 DEF StreamIInv, EsTypeOK, EsEvents
<1>5. QED
  BY <1>1, <1>2, <1>3, <1>4

\* The client sends the id of the last event it received.
LEMMA StreamConnect ==
    ASSUME EsAssumption, StreamIInv, NEW c \in EsClients, EsConnect(c)
    PROVE  StreamIInv'
<1>1. PICK id \in 0 .. EsMaxEvents : id = EsLastEventId(c)
  <2>1. esReceived[c] \in Seq(EsEvents) /\ 0 \in 0 .. EsMaxEvents
    BY DEF StreamIInv, EsTypeOK, EsAssumption
  <2>2. QED
    BY <2>1, LastIsLatest DEF EsLastEventId, EsEvents
<1>2. /\ esCursor'[c] = id /\ esPage'[c] = EsListAfter(id) /\ esOnline' = esOnline \cup {c}
      /\ esReceived' = esReceived /\ esWire' = esWire /\ esWire[c] = <<>> /\ UNCHANGED esDatabase
      /\ \A d \in EsClients \ {c} : esCursor'[d] = esCursor[d] /\ esPage'[d] = esPage[d]
  BY <1>1 DEF StreamIInv, EsTypeOK, EsConnect
<1>3. /\ EsListAfter(id) \subseteq esLedger \cap esTopic /\ EsListAfter(id) \subseteq EsEvents
      /\ \A e \in EsListAfter(id) : id < e
      /\ \A e \in EsListAfter(id) : \A f \in Due : (id < f /\ f < e) => f \in EsListAfter(id)
  <2>1. id \in Nat
    BY DEF EsAssumption
  <2>2. QED
    BY <2>1, WhatAQueryFinds
<1>4. Due' = Due /\ esLedger' = esLedger /\ esTopic' = esTopic
  BY <1>2 DEF Due, esDatabase
<1>5. ClientInOrder(c) /\ esReceived[c] \in Seq(EsEvents) /\ ToSet(esWire[c]) = {}
  BY <1>2, NoEvents DEF StreamIInv, EsTypeOK
<1>6. EsTypeOK'
  BY <1>1, <1>2, <1>3 DEF StreamIInv, EsTypeOK, EsConnect, esDatabase
<1>7. ClientInOrder(c)'
  BY <1>2, <1>3, <1>4, <1>5 DEF ClientInOrder
<1>8. ServerInOrder(c)'
  <2>1. CASE esReceived[c] = <<>>
    <3>1. id = 0 /\ ToSet(esReceived[c]) = {} /\ \A e \in Due : ~(e <= 0)
      BY <2>1, <1>1, NoEvents DEF EsLastEventId, Due, StreamIInv, EsTypeOK, EsEvents
    <3>2. QED
      BY <3>1, <1>2, <1>3, <1>4, <1>5 DEF ServerInOrder
  <2>2. CASE esReceived[c] # <<>>
    <3>1. id \in ToSet(esReceived[c]) /\ \A d \in ToSet(esReceived[c]) : d <= id
      BY <2>2, <1>1, <1>5, LastIsLatest DEF EsLastEventId, ClientInOrder
    <3>2. QED
      BY <3>1, <1>2, <1>3, <1>4, <1>5 DEF ServerInOrder, ClientInOrder
  <2>3. QED
    BY <2>1, <2>2
<1>9. QED
  BY <1>2, <1>6, <1>7, <1>8, OneConnection

(* Yielding an event moves the cursor onto it. *)
LEMMA StreamYield ==
    ASSUME EsAssumption, StreamIInv, NEW c \in EsClients, EsYield(c)
    PROVE  StreamIInv'
<1>1. PICK e \in esPage[c] :
         /\ \A f \in esPage[c] : e <= f
         /\ esCursor' = [esCursor EXCEPT ![c] = e]
         /\ esWire' = [esWire EXCEPT ![c] = Append(@, e)]
         /\ esPage' = [esPage EXCEPT ![c] = @ \ {e}]
  BY DEF EsYield
<1>2. /\ c \in esOnline /\ e \in EsEvents /\ esPage[c] \subseteq EsEvents
      /\ esWire[c] \in Seq(EsEvents) /\ esReceived[c] \in Seq(EsEvents)
      /\ ClientInOrder(c) /\ ServerInOrder(c) /\ esCursor[c] \in Nat
  BY <1>1 DEF StreamIInv, EsTypeOK, EsYield
<1>3. /\ esCursor'[c] = e /\ esWire'[c] = Append(esWire[c], e) /\ esPage'[c] = esPage[c] \ {e}
      /\ esReceived' = esReceived /\ esOnline' = esOnline /\ UNCHANGED esDatabase
      /\ \A d \in EsClients \ {c} : esCursor'[d] = esCursor[d] /\ esPage'[d] = esPage[d] /\ esWire'[d] = esWire[d]
  BY <1>1 DEF StreamIInv, EsTypeOK, EsYield
<1>4. Due' = Due /\ esLedger' = esLedger /\ esTopic' = esTopic
  BY <1>3 DEF Due, esDatabase
<1>5. /\ ToSet(Append(esWire[c], e)) = ToSet(esWire[c]) \cup {e}
      /\ Append(esWire[c], e) \in Seq(EsEvents)
  BY <1>2, AppendedEvents
<1>6. \* The event is later than all that was sent.
      \A d \in ToSet(esReceived[c]) \cup ToSet(esWire[c]) : d < e
  <2>1. esCursor[c] < e /\ \A d \in ToSet(esReceived[c]) \cup ToSet(esWire[c]) : d <= esCursor[c]
    BY <1>2 DEF ServerInOrder
  <2>2. e \in Nat /\ esLedger \subseteq Nat
    BY <1>2 DEF EsEvents, StreamIInv, EsTypeOK
  <2>3. \A d \in ToSet(esReceived[c]) \cup ToSet(esWire[c]) : d \in Nat
    BY <1>2, <2>2 DEF ClientInOrder
  <2>4. QED
    BY <2>1, <2>2, <2>3, <1>2
<1>7. EsTypeOK'
  <2>1. e \in 0 .. EsMaxEvents
    BY <1>2 DEF EsEvents
  <2>2. QED
    BY <2>1, <1>1, <1>2, <1>3, <1>5 DEF StreamIInv, EsTypeOK, EsYield, esDatabase
<1>8. ClientInOrder(c)'
  <2>1. Increasing(Append(esWire[c], e))
    BY <1>2, <1>6, AppendedEvents DEF ClientInOrder
  <2>2. QED
    BY <2>1, <1>1, <1>2, <1>3, <1>4, <1>5, <1>6 DEF ClientInOrder
<1>9. ServerInOrder(c)'
  <2>1. e \in esLedger
    BY <1>1, <1>2 DEF ClientInOrder
  <2>2. \A d \in ToSet(esReceived[c]) \cup ToSet(esWire[c]) \cup {e} : d <= e
    <3>1. e \in Nat /\ esLedger \subseteq Nat
      BY <1>2 DEF EsEvents, StreamIInv, EsTypeOK
    <3>2. \A d \in ToSet(esReceived[c]) \cup ToSet(esWire[c]) : d \in Nat
      BY <1>2, <3>1 DEF ClientInOrder
    <3>3. QED
      BY <3>1, <3>2, <1>6
  <2>3. ASSUME NEW f \in Due, f <= e PROVE f \in ToSet(esReceived[c]) \cup ToSet(esWire[c]) \cup {e}
    <3>1. f \in Nat /\ e \in Nat
      BY <1>2 DEF Due, StreamIInv, EsTypeOK, EsEvents
    <3>2. CASE f <= esCursor[c]
      BY <3>2, <1>2 DEF ServerInOrder
    <3>3. CASE esCursor[c] < f /\ f < e
      BY <3>1, <3>3, <1>1, <1>2 DEF ServerInOrder
    <3>4. QED
      BY <2>3, <3>1, <3>2, <3>3, <1>2
  <2>4. \A d \in esPage[c] \ {e} : e < d
    BY <1>1, <1>2 DEF EsEvents
  <2>5. ASSUME NEW d \in esPage[c] \ {e}, NEW f \in Due, e < f, f < d PROVE f \in esPage[c] \ {e}
    <3>1. f \in Nat /\ e \in Nat /\ esCursor[c] < e
      BY <1>2 DEF Due, StreamIInv, EsTypeOK, EsEvents, ServerInOrder
    <3>2. esCursor[c] < f /\ f # e
      BY <3>1, <2>5, <1>2
    <3>3. QED
      BY <3>2, <2>5, <1>2 DEF ServerInOrder
  <2>6. QED
    BY <2>1, <2>2, <2>3, <2>4, <2>5, <1>3, <1>4, <1>5 DEF ServerInOrder
<1>10. QED
  BY <1>2, <1>3, <1>7, <1>8, <1>9, OneConnection

(* Polling reads the page after the cursor. *)
LEMMA StreamPoll ==
    ASSUME EsAssumption, StreamIInv, NEW c \in EsClients, EsPoll(c)
    PROVE  StreamIInv'
<1>1. PICK id \in Nat : id = esCursor[c]
  BY DEF StreamIInv, EsTypeOK
<1>2. /\ esPage'[c] = EsListAfter(id) /\ esOnline' = esOnline /\ c \in esOnline
      /\ esReceived' = esReceived /\ esWire' = esWire /\ esCursor' = esCursor /\ UNCHANGED esDatabase
      /\ \A d \in EsClients \ {c} : esPage'[d] = esPage[d]
  BY <1>1 DEF StreamIInv, EsTypeOK, EsPoll
<1>3. /\ EsListAfter(id) \subseteq esLedger \cap esTopic /\ EsListAfter(id) \subseteq EsEvents
      /\ \A e \in EsListAfter(id) : id < e
      /\ \A e \in EsListAfter(id) : \A f \in Due : (id < f /\ f < e) => f \in EsListAfter(id)
  BY WhatAQueryFinds
<1>4. Due' = Due /\ esLedger' = esLedger /\ esTopic' = esTopic
  BY <1>2 DEF Due, esDatabase
<1>5. ClientInOrder(c) /\ ServerInOrder(c)
  BY <1>2 DEF StreamIInv
<1>6. EsTypeOK'
  BY <1>1, <1>2, <1>3 DEF StreamIInv, EsTypeOK, EsPoll, esDatabase
<1>7. ClientInOrder(c)'
  BY <1>2, <1>3, <1>4, <1>5 DEF ClientInOrder
<1>8. ServerInOrder(c)'
  BY <1>1, <1>2, <1>3, <1>4, <1>5 DEF ServerInOrder
<1>9. QED
  BY <1>2, <1>6, <1>7, <1>8, OneConnection

(* The client takes the next event in order. *)
LEMMA StreamReceive ==
    ASSUME EsAssumption, StreamIInv, NEW c \in EsClients, EsReceive(c)
    PROVE  StreamIInv'
<1>1. PICK e \in EsEvents : e = Head(esWire[c])
  BY HeadAndTail DEF StreamIInv, EsTypeOK, EsReceive
<1>2. /\ esWire[c] \in Seq(EsEvents) /\ esReceived[c] \in Seq(EsEvents) /\ esWire[c] # <<>>
      /\ c \in esOnline /\ ClientInOrder(c) /\ ServerInOrder(c)
  BY DEF StreamIInv, EsTypeOK, EsReceive
<1>3. /\ esReceived'[c] = Append(esReceived[c], e) /\ esWire'[c] = Tail(esWire[c])
      /\ esPage' = esPage /\ esCursor' = esCursor /\ esOnline' = esOnline /\ UNCHANGED esDatabase
      /\ \A d \in EsClients \ {c} : esReceived'[d] = esReceived[d] /\ esWire'[d] = esWire[d]
  BY <1>1 DEF StreamIInv, EsTypeOK, EsReceive
<1>4. Due' = Due /\ esLedger' = esLedger /\ esTopic' = esTopic
  BY <1>3 DEF Due, esDatabase
<1>5. /\ Append(esReceived[c], e) \in Seq(EsEvents) /\ Tail(esWire[c]) \in Seq(EsEvents)
      /\ ToSet(Append(esReceived[c], e)) = ToSet(esReceived[c]) \cup {e}
      /\ ToSet(esWire[c]) = {e} \cup ToSet(Tail(esWire[c]))
      /\ Increasing(Tail(esWire[c])) /\ \A d \in ToSet(Tail(esWire[c])) : e < d
  BY <1>1, <1>2, AppendedEvents, HeadAndTail DEF ClientInOrder
<1>6. Increasing(Append(esReceived[c], e))
  BY <1>2, <1>5, AppendedEvents DEF ClientInOrder
<1>7. EsTypeOK'
  BY <1>1, <1>2, <1>3, <1>5 DEF StreamIInv, EsTypeOK, EsReceive, esDatabase
<1>8. ClientInOrder(c)'
  <2>1. ASSUME NEW f \in Due, f <= e PROVE f \in ToSet(esReceived[c]) \cup {e}
    <3>1. f \in Nat /\ e \in Nat /\ esCursor[c] \in Nat /\ e <= esCursor[c]
      BY <1>2, <1>5 DEF Due, StreamIInv, EsTypeOK, EsEvents, ServerInOrder
    <3>2. f \in ToSet(esReceived[c]) \cup ToSet(esWire[c])
      BY <3>1, <2>1, <1>2 DEF ServerInOrder
    <3>3. f \notin ToSet(Tail(esWire[c]))
      BY <3>1, <2>1, <1>5
    <3>4. QED
      BY <3>2, <3>3, <1>5
  <2>2. \A r \in ToSet(esReceived[c]) \cup {e} : \A f \in Due :
           f <= r => f \in ToSet(esReceived[c]) \cup {e}
    BY <2>1, <1>2 DEF ClientInOrder
  <2>3. \A r \in ToSet(esReceived[c]) \cup {e} : \A w \in ToSet(Tail(esWire[c])) : r < w
    BY <1>2, <1>5 DEF ClientInOrder
  <2>4. QED
    BY <2>2, <2>3, <1>2, <1>3, <1>4, <1>5, <1>6 DEF ClientInOrder
<1>9. ServerInOrder(c)'
  BY <1>2, <1>3, <1>4, <1>5 DEF ServerInOrder
<1>10. QED
  BY <1>2, <1>3, <1>7, <1>8, <1>9, OneConnection

(* A disconnect loses what is in flight, and nothing the client received. *)
LEMMA StreamDisconnect ==
    ASSUME EsAssumption, StreamIInv, NEW c \in EsClients, EsDisconnect(c)
    PROVE  StreamIInv'
<1>1. /\ esWire'[c] = <<>> /\ esPage'[c] = {} /\ esReceived' = esReceived /\ esCursor' = esCursor
      /\ esOnline' = esOnline \ {c} /\ UNCHANGED esDatabase
      /\ \A d \in EsClients \ {c} : esPage'[d] = esPage[d] /\ esWire'[d] = esWire[d]
  BY DEF StreamIInv, EsTypeOK, EsDisconnect
<1>2. Due' = Due /\ esLedger' = esLedger /\ esTopic' = esTopic
  BY <1>1 DEF Due, esDatabase
<1>3. EsTypeOK'
  <2>1. esDisconnects' \in [EsClients -> 0 .. EsMaxDisconnects]
    BY DEF StreamIInv, EsTypeOK, EsDisconnect, EsAssumption
  <2>2. QED
    BY <2>1, <1>1, NoEvents DEF StreamIInv, EsTypeOK, EsDisconnect, esDatabase
<1>4. ClientInOrder(c)'
  <2>1. ClientInOrder(c)
    BY DEF StreamIInv
  <2>2. QED
    BY <2>1, <1>1, <1>2, NoEvents DEF ClientInOrder
<1>5. QED
  BY <1>1, <1>3, <1>4, OneConnection

(* Every step keeps the invariant. *)
LEMMA StreamNext == ASSUME EsAssumption, StreamIInv, EsNext PROVE StreamIInv'
<1>1. CASE \E x \in EsWriters : EsInsertEvent(x) \/ EsCommitTransaction(x) \/ EsRollbackTransaction(x)
  BY <1>1, StreamInsert, StreamCommit, StreamRollback
<1>2. CASE \E c \in EsClients : EsServe(c) \/ EsDisconnect(c)
  BY <1>2, StreamConnect, StreamYield, StreamPoll, StreamReceive, StreamDisconnect DEF EsServe
<1>3. QED
  BY <1>1, <1>2 DEF EsNext

(* So does a stuttering step. *)
LEMMA StreamStutters == ASSUME StreamIInv, UNCHANGED esVars PROVE StreamIInv'
<1>1. UNCHANGED <<esSequence, esInserted, esLedger, esTopic, esOvertaken>> /\ UNCHANGED esStreams
  BY DEF esVars, esDatabase
<1>2. EsTypeOK' /\ LateIsOvertaken'
  BY <1>1 DEF StreamIInv, EsTypeOK, LateIsOvertaken, esStreams
<1>3. \A c \in EsClients : ClientInOrder(c)' /\ (c \in esOnline => ServerInOrder(c)')
  BY <1>1, StreamsUndisturbed DEF StreamIInv
<1>4. QED
  BY <1>1, <1>2, <1>3 DEF StreamIInv, EsTypeOK, esStreams

\* Whatever the transactions, however many clients and however often their
\* connections break: a client receives the committed events of its stream in
\* ledger order, each at most once, and misses none that was not overtaken by
\* a transaction that committed first.
THEOREM StreamsReplayFaithfully == EsSpec => [](EsTypeOK /\ EsReplayFaithful)
<1>1. EsInit => StreamIInv
  BY EsAssumption, StreamInit
<1>2. StreamIInv /\ [EsNext]_esVars => StreamIInv'
  BY EsAssumption, StreamNext, StreamStutters
<1>3. QED
  BY <1>1, <1>2, StreamIInvSafe, PTL DEF EsSpec

-----------------------------------------------------------------------------
(* Catalog bundles: the inductive invariant.                               *)

\* Entry e is in the catalog as the file of operator o writes it.
CbAsWritten(o, e) == cbCatalog[e] = CbStoredForm(e, cbFile[o].content[e])

\* The entry the plan compares at a place, if it compares one there.
CbEntryAt(f, n) == IF n = 0 THEN CbProject ELSE f.entries[n]
CbCompared(f) == {n \in CbReads(f) : n \in 0..Len(f.entries) /\ CbEntryAt(f, n) \in CbIncluded(f)}

\* A plan without conflict is to create what it did not find as written.
CbPlanSound(o) ==
    (cbRun[o].phase = "planning" /\ ~cbRun[o].conflict) =>
        \A n \in CbCompared(cbFile[o]) : n < cbRun[o].next =>
            \/ CbEntryAt(cbFile[o], n) \in cbRun[o].create
            \/ CbAsWritten(o, CbEntryAt(cbFile[o], n))

\* A command that writes has planned every entry of its file, and the writes
\* it has gone past were accepted.
CbApplySound(o) ==
    cbRun[o].phase \in {"applying", "waiting"} =>
        /\ \A e \in CbIncluded(cbFile[o]) : e \in cbRun[o].create \/ CbAsWritten(o, e)
        /\ \A n \in 1..Len(cbFile[o].entries) :
              (cbFile[o].entries[n] \in cbRun[o].create /\ n < cbRun[o].next) =>
                  CbAsWritten(o, cbFile[o].entries[n])

\* The catalog keeps normal forms, and what it refers to.
CbCatalogSound ==
    /\ \A e \in CbEntries : CbIsRegistered(e) =>
          /\ CbStoredForm(e, cbCatalog[e]) = cbCatalog[e]
          /\ \A d \in CbRefs[e] : CbIsRegistered(d)
    /\ cbBinding # 0 => CbIsRegistered(cbBinding) /\ CbIsRegistered(CbProject)

CbPosts == [op : CbOperators, attempt : 0..CbMaxFaults, method : {"POST"}, entry : CbEntries,
            content : CbContents]
CbPuts == [op : CbOperators, attempt : 0..CbMaxFaults, method : {"PUT"}, entry : CbEntries \cup {0},
           content : {CbNothing}]

\* The inductive invariant of the bundles.
CbIInv ==
    /\ CbTypeOK /\ cbWire \subseteq CbPosts \cup CbPuts /\ CbCatalogSound
    /\ \A o \in CbOperators : CbPlanSound(o) /\ CbApplySound(o)
    /\ \A o \in cbApplied : \A e \in CbIncluded(cbFile[o]) : CbAsWritten(o, e)

(* The invariant gives the types and the property. *)
LEMMA CbIInvSafe == CbIInv => CbTypeOK /\ CbAppliedAsWritten
BY DEF CbIInv, CbAppliedAsWritten, CbCatalogSound, CbAsWritten

\* A file's entries, their places and their contents.
LEMMA CbFileSound ==
    ASSUME CbAssumption, CbTypeOK, NEW o \in CbOperators
    PROVE  /\ cbFile[o].entries \in Seq(CbEntries) /\ cbFile[o].binding \in CbEntries \cup {0}
           /\ Len(cbFile[o].entries) \in Nat
           /\ CbIncluded(cbFile[o]) = {cbFile[o].entries[n] : n \in 1..Len(cbFile[o].entries)}
           /\ CbIncluded(cbFile[o]) \subseteq CbEntries
           /\ \A e \in CbIncluded(cbFile[o]) :
                 cbFile[o].content[e] \in CbContents /\ (CbKind[e] = "project" => e = CbProject)
           /\ CbReads(cbFile[o]) \subseteq Nat
<1>1. /\ cbFile[o] \in CbFiles[o]
      /\ cbFile[o].entries \in Seq(CbEntries) /\ cbFile[o].binding \in CbEntries \cup {0}
      /\ \A e \in ToSet(cbFile[o].entries) :
            (CbKind[e] = "project" => e = CbProject) /\ cbFile[o].content[e] \in CbContents
  BY DEF CbTypeOK, CbAssumption
<1>2. /\ Len(cbFile[o].entries) \in Nat /\ DOMAIN cbFile[o].entries = 1..Len(cbFile[o].entries)
      /\ \A n \in 1..Len(cbFile[o].entries) : cbFile[o].entries[n] \in CbEntries
  BY <1>1
<1>3. /\ CbIncluded(cbFile[o]) = {cbFile[o].entries[n] : n \in 1..Len(cbFile[o].entries)}
      /\ CbIncluded(cbFile[o]) \subseteq CbEntries
  BY <1>2 DEF CbIncluded, ToSet
<1>4. CbEntries \subseteq Nat /\ Len(CbKind) \in Nat
  BY DEF CbAssumption, CbEntries
<1>5. CbExternal(cbFile[o]) \subseteq CbEntries
  BY DEF CbExternal
<1>6. CbReads(cbFile[o]) \subseteq Nat
  <2>1. {Len(cbFile[o].entries) + e : e \in CbExternal(cbFile[o])} \subseteq Nat
    <3>1. SUFFICES ASSUME NEW e \in CbExternal(cbFile[o]) PROVE Len(cbFile[o].entries) + e \in Nat
      OBVIOUS
    <3>2. e \in Nat
      BY <1>4, <1>5
    <3>3. QED
      BY <3>2, <1>2
  <2>2. CbBindingRead(cbFile[o]) \in Nat
    BY <1>2, <1>4 DEF CbBindingRead
  <2>3. QED
    BY <2>1, <2>2, <1>2 DEF CbReads
<1>7. QED
  BY <1>1, <1>2, <1>3, <1>6 DEF CbIncluded

\* What the catalog keeps of a content is a content, in its normal form.
LEMMA CbStoredFormNormal ==
    ASSUME NEW e, NEW v \in CbContents
    PROVE  /\ CbStoredForm(e, v) \in CbContents
           /\ CbStoredForm(e, CbStoredForm(e, v)) = CbStoredForm(e, v)
           /\ CbStoredForm(e, v) # CbNothing
<1>1. PICK w \in CbContents : w = [v EXCEPT !.spelling = "normal"]
  BY DEF CbContents
<1>2. [w EXCEPT !.spelling = "normal"] = w
  BY <1>1 DEF CbContents
<1>3. CbStoredForm(e, v) = v \/ CbStoredForm(e, v) = w
  BY <1>1 DEF CbStoredForm
<1>4. CbStoredForm(e, CbStoredForm(e, v)) = CbStoredForm(e, v)
  <2>1. CASE CbKind[e] \in CbNormalizing
    <3>1. CbStoredForm(e, v) = w /\ CbStoredForm(e, w) = [w EXCEPT !.spelling = "normal"]
      BY <2>1, <1>1 DEF CbStoredForm
    <3>2. QED
      BY <3>1, <1>2
  <2>2. CASE CbKind[e] \notin CbNormalizing
    <3>1. CbStoredForm(e, v) = v
      BY <2>2 DEF CbStoredForm
    <3>2. QED
      BY <3>1
  <2>3. QED
    BY <2>1, <2>2
<1>5. CbNothing \notin CbContents
  BY DEF CbNothing, CbContents
<1>6. QED
  BY <1>1, <1>3, <1>4, <1>5

(* No command has run at first. *)
LEMMA CbInitSound == ASSUME CbAssumption, CbInit PROVE CbIInv
<1>1. 0 \in 0..CbMaxFaults /\ CbIdle \in CbRuns /\ CbIdle.phase = "idle"
  BY DEF CbAssumption, CbIdle, CbRuns
<1>2. CbTypeOK
  BY <1>1 DEF CbInit, CbTypeOK
<1>3. CbCatalogSound
  BY DEF CbInit, CbCatalogSound, CbIsRegistered
<1>4. \A o \in CbOperators : cbRun[o].phase = "idle"
  BY <1>1 DEF CbInit
<1>5. QED
  BY <1>2, <1>3, <1>4 DEF CbIInv, CbInit, CbPlanSound, CbApplySound

-----------------------------------------------------------------------------
(* Catalog bundles: the steps of a command.                                *)

\* What is in the catalog as written stays so while registered entries are kept.
LEMMA CbWrittenKept ==
    ASSUME CbAssumption, CbIInv, cbFile' = cbFile,
           \A e \in CbEntries : CbIsRegistered(e) => cbCatalog'[e] = cbCatalog[e]
    PROVE  \A o \in CbOperators : \A e \in CbIncluded(cbFile[o]) :
              CbAsWritten(o, e) => CbAsWritten(o, e)'
<1>1. SUFFICES ASSUME NEW o \in CbOperators, NEW e \in CbIncluded(cbFile[o]), CbAsWritten(o, e)
               PROVE  cbCatalog'[e] = cbCatalog[e]
  BY DEF CbAsWritten
<1>2. e \in CbEntries /\ cbFile[o].content[e] \in CbContents
  BY CbFileSound DEF CbIInv
<1>3. CbIsRegistered(e)
  BY <1>1, <1>2, CbStoredFormNormal DEF CbAsWritten, CbIsRegistered
<1>4. QED
  BY <1>2, <1>3

\* A step of operator o that leaves the control plane alone.
LEMMA CbOneCommand ==
    ASSUME CbAssumption, CbIInv, NEW o \in CbOperators, NEW run \in CbRuns,
           cbRun' = [cbRun EXCEPT ![o] = run],
           UNCHANGED <<cbCatalog, cbBinding, cbNewer, cbFile, cbApplied>>,
           cbWire' \subseteq CbPosts \cup CbPuts, cbFaults' \in 0..CbMaxFaults,
           CbPlanSound(o)', CbApplySound(o)'
    PROVE  CbIInv'
<1>1. CbTypeOK'
  BY DEF CbIInv, CbTypeOK
<1>2. CbCatalogSound'
  BY DEF CbIInv, CbCatalogSound, CbIsRegistered
<1>3. \A q \in CbOperators \ {o} : cbRun'[q] = cbRun[q]
  BY DEF CbIInv, CbTypeOK
<1>4. \A q \in CbOperators \ {o} : CbPlanSound(q)' /\ CbApplySound(q)'
  BY <1>3 DEF CbIInv, CbPlanSound, CbApplySound, CbAsWritten
<1>5. \A q \in cbApplied : \A e \in CbIncluded(cbFile[q]) : CbAsWritten(q, e)'
  BY DEF CbIInv, CbAsWritten
<1>6. QED
  BY <1>1, <1>2, <1>4, <1>5 DEF CbIInv

(* Starting a command keeps the invariant. *)
LEMMA CbStartSound ==
    ASSUME CbAssumption, CbIInv, NEW o \in CbOperators, CbStart(o) PROVE CbIInv'
<1>1. PICK run \in CbRuns : run = [CbIdle EXCEPT !.phase = "planning", !.attempt = cbFaults]
  BY DEF CbIInv, CbTypeOK, CbIdle, CbRuns
<1>2. run.phase = "planning" /\ run.next = 0
  BY <1>1 DEF CbIdle
<1>3. cbRun'[o] = run /\ cbFile' = cbFile
  BY <1>1 DEF CbStart, CbIInv, CbTypeOK
<1>4. \A n \in CbCompared(cbFile[o]) : ~(n < 0)
  BY CbFileSound DEF CbCompared, CbIInv
<1>5. CbPlanSound(o)' /\ CbApplySound(o)'
  BY <1>2, <1>3, <1>4 DEF CbPlanSound, CbApplySound
<1>6. QED
  BY <1>1, <1>5, CbOneCommand DEF CbStart, CbIInv, CbTypeOK

\* The next place is one of the places, and none between is left out.
LEMMA CbNextPlace ==
    ASSUME NEW places \in SUBSET Nat, NEW next \in Nat, NEW n \in CbNextOf(places, next)
    PROVE  n \in places /\ n \in Nat /\ next <= n /\ \A m \in places : m < n + 1 => m < next \/ m = n
<1>1. n \in places /\ next <= n /\ \A m \in places : next =< m => n =< m
  BY DEF CbNextOf
<1>2. QED
  BY <1>1

\* The plan of one entry: it is to be created, or is as written, or conflicts.
CbPlansEntry(o, e, run, planned) ==
    /\ planned.phase = run.phase /\ run.create \subseteq planned.create
    /\ run.conflict => planned.conflict
    /\ planned.conflict \/ e \in planned.create \/ CbAsWritten(o, e)

(* One entry of the plan compares the file with the catalog. *)
LEMMA CbPlanEntrySound ==
    ASSUME CbAssumption, CbIInv, NEW o \in CbOperators, NEW run \in CbRuns,
           NEW e \in CbIncluded(cbFile[o])
    PROVE  \E planned \in CbRuns :
              planned = CbPlanEntry(run, e, cbFile[o]) /\ CbPlansEntry(o, e, run, planned)
<1>0. PICK planned : planned = CbPlanEntry(run, e, cbFile[o])
  OBVIOUS
<1>1. e \in CbEntries
  BY CbFileSound DEF CbIInv
<1>2. PICK action \in {"create", "unchanged", "conflict"} :
         action = CbCompare(e, cbFile[o].content[e])
  BY DEF CbCompare
<1>3. planned = [run EXCEPT !.create = IF action = "create" THEN run.create \cup {e} ELSE run.create,
                            !.conflict = run.conflict \/ action = "conflict"]
  BY <1>0, <1>2 DEF CbPlanEntry, CbRuns
<1>4. /\ planned \in CbRuns /\ planned.phase = run.phase
      /\ planned.create = IF action = "create" THEN run.create \cup {e} ELSE run.create
      /\ planned.conflict = (run.conflict \/ action = "conflict")
  <2>1. (run.conflict \/ action = "conflict") \in BOOLEAN
    OBVIOUS
  <2>2. (IF action = "create" THEN run.create \cup {e} ELSE run.create) \in SUBSET CbEntries
    BY <1>1 DEF CbRuns
  <2>3. QED
    BY <1>3, <2>1, <2>2 DEF CbRuns
<1>5. action = "unchanged" => CbAsWritten(o, e)
  BY <1>1, <1>2 DEF CbCompare, CbSeen, CbListed, CbAsWritten, CbIInv, CbCatalogSound
<1>6. QED
  BY <1>0, <1>4, <1>5 DEF CbPlansEntry

\* A nonempty set of naturals has a least element, so that places are left out
\* only when all of them are passed.
LEMMA CbNoPlaceLeft ==
    ASSUME NEW places \in SUBSET Nat, NEW next \in Nat, CbNextOf(places, next) = {},
           NEW n \in places
    PROVE  n < next
<1>1. SUFFICES ASSUME next <= n PROVE FALSE
  OBVIOUS
<1>2. PICK rest \in SUBSET Nat : rest = {m \in places : next <= m}
  OBVIOUS
<1>3. PICK least \in rest : \A m \in rest : ~(<<m, least>> \in OpToRel(<, Nat))
  <2>1. IsWellFoundedOn(OpToRel(<, Nat), Nat)
    BY NatLessThanWellFounded
  <2>2. rest # {} /\ rest \in SUBSET Nat
    BY <1>1, <1>2
  <2>3. QED
    BY <2>1, <2>2, WFMin
<1>4. \A m \in rest : ~(m < least)
  BY <1>3 DEF OpToRel
<1>5. least \in CbNextOf(places, next)
  BY <1>2, <1>4 DEF CbNextOf
<1>6. QED
  BY <1>5

(* A step of plan_bundle keeps the invariant. *)
LEMMA CbPlanStepSound ==
    ASSUME CbAssumption, CbIInv, NEW o \in CbOperators, CbPlan(o) PROVE CbIInv'
<1>0. /\ Len(cbFile[o].entries) \in Nat
      /\ \A i \in 1..Len(cbFile[o].entries) : cbFile[o].entries[i] \in CbIncluded(cbFile[o])
  BY CbFileSound, ZenonT(40) DEF CbIInv
<1>1. PICK n \in CbNextOf(CbReads(cbFile[o]), cbRun[o].next) :
         cbRun' = [cbRun EXCEPT ![o] = [CbPlanned(cbRun[o], n, cbFile[o]) EXCEPT !.next = n + 1]]
  BY DEF CbPlan
<1>2. PICK run \in CbRuns : run = cbRun[o]
  BY DEF CbIInv, CbTypeOK
<1>3. /\ n \in CbReads(cbFile[o]) /\ n \in Nat /\ run.phase = "planning" /\ run.next \in Nat
      /\ \A m \in CbReads(cbFile[o]) : m < n + 1 => m < run.next \/ m = n
  <2>1. CbReads(cbFile[o]) \in SUBSET Nat /\ run.next \in Nat /\ run.phase = "planning"
    BY <1>2, CbFileSound DEF CbIInv, CbRuns, CbPlan
  <2>2. QED
    BY <2>1, <1>1, <1>2, CbNextPlace, ZenonT(40)
<1>4. PICK planned : planned = CbPlanned(run, n, cbFile[o])
  OBVIOUS
<1>5. /\ planned \in CbRuns /\ planned.phase = run.phase
      /\ run.create \subseteq planned.create /\ (run.conflict => planned.conflict)
      /\ n \in CbCompared(cbFile[o]) =>
            \/ planned.conflict \/ CbEntryAt(cbFile[o], n) \in planned.create
            \/ CbAsWritten(o, CbEntryAt(cbFile[o], n))
  <2>1. CASE n = 0
    <3>1. PICK middle : middle = IF CbProject \in CbIncluded(cbFile[o])
                                 THEN CbPlanEntry(run, CbProject, cbFile[o]) ELSE run
      OBVIOUS
    <3>2. planned = [middle EXCEPT !.found = CbListed]
      <4>1. planned = CbPlanProject(run, cbFile[o])
        BY <2>1, <1>4 DEF CbPlanned
      <4>2. QED
        BY <4>1, <3>1 DEF CbPlanProject
    <3>3. /\ middle \in CbRuns /\ middle.phase = run.phase
          /\ run.create \subseteq middle.create /\ (run.conflict => middle.conflict)
          /\ CbProject \in CbIncluded(cbFile[o]) =>
                middle.conflict \/ CbProject \in middle.create \/ CbAsWritten(o, CbProject)
      <4>1. CASE CbProject \in CbIncluded(cbFile[o])
        <5>0. PICK e \in CbIncluded(cbFile[o]) : e = CbProject
          BY <4>1
        <5>1. PICK entry \in CbRuns :
                 entry = CbPlanEntry(run, e, cbFile[o]) /\ CbPlansEntry(o, e, run, entry)
          BY CbPlanEntrySound
        <5>2. middle = entry
          BY <3>1, <4>1, <5>0, <5>1
        <5>3. QED
          BY <5>0, <5>1, <5>2 DEF CbPlansEntry
      <4>2. CASE CbProject \notin CbIncluded(cbFile[o])
        BY <3>1, <4>2
      <4>3. QED
        BY <4>1, <4>2
    <3>4. CbListed \in BOOLEAN
      BY DEF CbListed
    <3>5. /\ planned \in CbRuns /\ planned.phase = middle.phase
          /\ planned.create = middle.create /\ planned.conflict = middle.conflict
      BY <3>2, <3>3, <3>4 DEF CbRuns
    <3>6. CbEntryAt(cbFile[o], n) = CbProject
      BY <2>1 DEF CbEntryAt
    <3>7. QED
      BY <3>3, <3>5, <3>6 DEF CbCompared
  <2>2. CASE n \in 1..Len(cbFile[o].entries)
    <3>1. n # 0 /\ planned = CbPlanEntry(run, cbFile[o].entries[n], cbFile[o])
      BY <2>2, <1>0, <1>4 DEF CbPlanned
    <3>2. cbFile[o].entries[n] \in CbIncluded(cbFile[o])
      BY <2>2, <1>0
    <3>3. CbEntryAt(cbFile[o], n) = cbFile[o].entries[n]
      BY <3>1 DEF CbEntryAt
    <3>4. PICK e \in CbIncluded(cbFile[o]) : e = cbFile[o].entries[n]
      BY <3>2
    <3>5. PICK entry \in CbRuns :
             entry = CbPlanEntry(run, e, cbFile[o]) /\ CbPlansEntry(o, e, run, entry)
      BY CbPlanEntrySound
    <3>6. QED
      BY <3>1, <3>3, <3>4, <3>5 DEF CbPlansEntry
  <2>3. CASE n \notin 0..Len(cbFile[o].entries)
    <3>1. n # 0 /\ n \notin 1..Len(cbFile[o].entries) /\ n \notin CbCompared(cbFile[o])
      BY <2>3, CbFileSound DEF CbIInv, CbCompared
    <3>2. CASE n = CbBindingRead(cbFile[o])
      <4>1. planned = CbPlanBinding(run, cbFile[o])
        BY <3>1, <3>2, <1>4 DEF CbPlanned
      <4>2. /\ (cbBinding # cbFile[o].binding) \in BOOLEAN /\ TRUE \in BOOLEAN
            /\ (run.conflict \/ CbProject \notin CbIncluded(cbFile[o])) \in BOOLEAN
        OBVIOUS
      <4>3. \/ planned = [run EXCEPT !.update = cbBinding # cbFile[o].binding]
            \/ planned = [run EXCEPT !.update = TRUE,
                             !.conflict = run.conflict \/ CbProject \notin CbIncluded(cbFile[o])]
        BY <4>1 DEF CbPlanBinding, CbRuns
      <4>4. /\ planned \in CbRuns /\ planned.phase = run.phase /\ planned.create = run.create
            /\ run.conflict => planned.conflict
        BY <4>2, <4>3 DEF CbRuns
      <4>5. QED
        BY <4>4, <3>1
    <3>3. CASE n # CbBindingRead(cbFile[o])
      <4>1. planned = [run EXCEPT !.conflict =
                          run.conflict \/ ~CbIsRegistered(n - Len(cbFile[o].entries))]
        <5>1. planned = CbPlanDependency(run, n - Len(cbFile[o].entries))
          BY <3>1, <3>3, <1>4 DEF CbPlanned
        <5>2. QED
          BY <5>1 DEF CbPlanDependency, CbRuns
      <4>2. (run.conflict \/ ~CbIsRegistered(n - Len(cbFile[o].entries))) \in BOOLEAN
        OBVIOUS
      <4>3. /\ planned \in CbRuns /\ planned.phase = run.phase /\ planned.create = run.create
            /\ run.conflict => planned.conflict
        BY <4>1, <4>2 DEF CbRuns
      <4>4. QED
        BY <4>3, <3>1
    <3>4. QED
      BY <3>2, <3>3
  <2>4. n = 0 \/ n \in 1..Len(cbFile[o].entries) \/ n \notin 0..Len(cbFile[o].entries)
    BY <1>3, CbFileSound DEF CbIInv
  <2>5. QED
    BY <2>1, <2>2, <2>3, <2>4
<1>6. PICK next \in CbRuns : next = [planned EXCEPT !.next = n + 1]
  <2>1. n + 1 \in Nat
    BY <1>3
  <2>2. QED
    BY <2>1, <1>5 DEF CbRuns
<1>7. /\ next.phase = "planning" /\ next.create = planned.create /\ next.conflict = planned.conflict
      /\ next.next = n + 1
  BY <1>3, <1>5, <1>6 DEF CbRuns
<1>8. cbRun' = [cbRun EXCEPT ![o] = next] /\ cbRun'[o] = next
  BY <1>1, <1>2, <1>4, <1>6 DEF CbIInv, CbTypeOK
<1>9. UNCHANGED <<cbCatalog, cbBinding, cbNewer, cbFile, cbApplied, cbWire, cbFaults>>
  BY DEF CbPlan
<1>10. CbPlanSound(o)'
  <2>1. SUFFICES ASSUME ~next.conflict, NEW m \in CbCompared(cbFile[o]), m < n + 1
                 PROVE  \/ CbEntryAt(cbFile[o], m) \in next.create
                        \/ CbAsWritten(o, CbEntryAt(cbFile[o], m))
    BY <1>7, <1>8, <1>9 DEF CbPlanSound, CbAsWritten
  <2>2. m < run.next \/ m = n
    BY <2>1, <1>3 DEF CbCompared
  <2>3. CASE m < run.next
    BY <2>1, <2>3, <1>2, <1>3, <1>5, <1>7 DEF CbIInv, CbPlanSound
  <2>4. CASE m = n
    BY <2>1, <2>4, <1>5, <1>7
  <2>5. QED
    BY <2>2, <2>3, <2>4
<1>11. CbApplySound(o)'
  BY <1>7, <1>8 DEF CbApplySound
<1>12. QED
  BY <1>8, <1>9, <1>10, <1>11, CbOneCommand DEF CbIInv, CbTypeOK

(* The end of the plan, a conflict or not, keeps the invariant. *)
LEMMA CbDecideSound ==
    ASSUME CbAssumption, CbIInv, NEW o \in CbOperators, CbDecide(o) PROVE CbIInv'
<1>1. PICK run \in CbRuns : run = cbRun[o]
  BY DEF CbIInv, CbTypeOK
<1>2. /\ run.phase = "planning" /\ CbNextOf(CbReads(cbFile[o]), run.next) = {}
      /\ UNCHANGED <<cbCatalog, cbBinding, cbNewer, cbFile, cbApplied, cbWire, cbFaults>>
  BY <1>1 DEF CbDecide
<1>3. PICK next \in CbRuns :
         next = [run EXCEPT !.phase = IF run.conflict THEN "conflict" ELSE "applying", !.next = 0]
  BY DEF CbRuns
<1>4. cbRun' = [cbRun EXCEPT ![o] = next] /\ cbRun'[o] = next
  <2>1. cbRun' = [cbRun EXCEPT ![o] = [run EXCEPT !.phase = IF run.conflict THEN "conflict"
                                                            ELSE "applying", !.next = 0]]
    BY <1>1 DEF CbDecide, CbIInv, CbTypeOK, CbRuns
  <2>2. QED
    BY <2>1, <1>3 DEF CbIInv, CbTypeOK
<1>5. /\ next.phase = IF run.conflict THEN "conflict" ELSE "applying"
      /\ next.next = 0 /\ next.create = run.create
  BY <1>3 DEF CbRuns
<1>6. CbPlanSound(o)'
  BY <1>4, <1>5 DEF CbPlanSound
<1>7. \* All reads were made: the plan covers the file.
      ASSUME ~run.conflict, NEW e \in CbIncluded(cbFile[o])
      PROVE  e \in run.create \/ CbAsWritten(o, e)
  <2>1. PICK i \in 1..Len(cbFile[o].entries) : cbFile[o].entries[i] = e
    BY CbFileSound, SMTT(30) DEF CbIInv
  <2>2. PICK n \in CbCompared(cbFile[o]) : CbEntryAt(cbFile[o], n) = e
    <3>1. CASE CbKind[e] = "project"
      <4>1. e = CbProject
        BY <3>1, CbFileSound DEF CbIInv
      <4>2. 0 \in CbReads(cbFile[o]) /\ 0 \in 0..Len(cbFile[o].entries)
        BY <4>1, <1>7, CbFileSound DEF CbReads, CbNamesProject, CbIInv
      <4>3. CbEntryAt(cbFile[o], 0) = e
        BY <4>1 DEF CbEntryAt
      <4>4. QED
        BY <4>2, <4>3 DEF CbCompared
    <3>2. CASE CbKind[e] # "project"
      <4>1. i \in CbReads(cbFile[o]) /\ i \in 0..Len(cbFile[o].entries) /\ i # 0
        BY <3>2, <2>1, CbFileSound DEF CbReads, CbIInv
      <4>2. CbEntryAt(cbFile[o], i) = e
        BY <4>1, <2>1 DEF CbEntryAt
      <4>3. QED
        BY <4>1, <4>2 DEF CbCompared
    <3>3. QED
      BY <3>1, <3>2
  <2>3. n \in CbReads(cbFile[o]) /\ CbReads(cbFile[o]) \subseteq Nat
    BY <2>2, CbFileSound DEF CbCompared, CbIInv
  <2>4. n < run.next
    BY <2>3, <1>2, CbNoPlaceLeft DEF CbRuns
  <2>5. QED
    BY <2>2, <2>4, <1>1, <1>2, <1>7 DEF CbIInv, CbPlanSound
<1>8. CbApplySound(o)'
  <2>1. SUFFICES ASSUME ~run.conflict
                 PROVE  /\ \A e \in CbIncluded(cbFile[o]) : e \in run.create \/ CbAsWritten(o, e)
                        /\ \A n \in 1..Len(cbFile[o].entries) : ~(n < 0)
    BY <1>2, <1>4, <1>5 DEF CbApplySound, CbAsWritten
  <2>2. QED
    BY <2>1, <1>7, CbFileSound DEF CbIInv
<1>9. QED
  BY <1>2, <1>4, <1>6, <1>8, CbOneCommand DEF CbIInv, CbTypeOK

(* Sending the next request keeps the invariant. *)
LEMMA CbSendSound ==
    ASSUME CbAssumption, CbIInv, NEW o \in CbOperators, CbSend(o) PROVE CbIInv'
<1>2. PICK run \in CbRuns : run = cbRun[o]
  BY DEF CbIInv, CbTypeOK
<1>1. PICK n \in CbNextWrite(o) :
         /\ cbWire' = cbWire \cup {CbRequest(o, n)}
         /\ cbRun' = [cbRun EXCEPT ![o].phase = "waiting", ![o].next = n]
  BY DEF CbSend
<1>3. /\ run.phase = "applying" /\ run.next \in Nat
      /\ n \in CbNextOf(CbWrites(cbFile[o], run), run.next)
      /\ UNCHANGED <<cbCatalog, cbBinding, cbNewer, cbFile, cbApplied, cbFaults>>
  BY <1>1, <1>2 DEF CbSend, CbNextWrite, CbRuns
<1>4. /\ n \in CbWrites(cbFile[o], run) /\ n \in Nat
      /\ \A m \in CbWrites(cbFile[o], run) : m < n => m < run.next
  <2>1. CbWrites(cbFile[o], run) \in SUBSET Nat
    BY CbFileSound DEF CbIInv, CbWrites
  <2>2. /\ n \in CbWrites(cbFile[o], run) /\ n \in Nat
        /\ \A m \in CbWrites(cbFile[o], run) : m < n + 1 => m < run.next \/ m = n
    BY <2>1, <1>3, CbNextPlace
  <2>3. QED
    BY <2>1, <2>2
<1>5. PICK next \in CbRuns : next = [run EXCEPT !.phase = "waiting", !.next = n]
  BY <1>4 DEF CbRuns
<1>6. next.phase = "waiting" /\ next.next = n /\ next.create = run.create
  BY <1>5 DEF CbRuns
<1>7. cbRun' = [cbRun EXCEPT ![o] = next] /\ cbRun'[o] = next
  <2>1. cbRun' = [cbRun EXCEPT ![o] = [run EXCEPT !.phase = "waiting", !.next = n]]
    BY <1>1, <1>2 DEF CbIInv, CbTypeOK, CbRuns
  <2>2. QED
    BY <2>1, <1>5 DEF CbIInv, CbTypeOK
<1>8. cbWire' \subseteq CbPosts \cup CbPuts
  <2>1. run.attempt \in 0..CbMaxFaults
    BY DEF CbRuns
  <2>2. CASE n \in 1..Len(cbFile[o].entries)
    <3>0. cbFile[o].entries[n] \in CbIncluded(cbFile[o])
      BY <2>2, CbFileSound, ZenonT(40) DEF CbIInv
    <3>1. /\ cbFile[o].entries[n] \in CbEntries
          /\ cbFile[o].content[cbFile[o].entries[n]] \in CbContents
      BY <3>0, CbFileSound DEF CbIInv
    <3>2. CbRequest(o, n) \in CbPosts
      BY <2>1, <2>2, <3>1, <1>2 DEF CbRequest, CbPosts
    <3>3. QED
      BY <3>2, <1>1 DEF CbIInv
  <2>3. CASE n \notin 1..Len(cbFile[o].entries)
    <3>1. cbFile[o].binding \in CbEntries \cup {0}
      BY CbFileSound DEF CbIInv
    <3>2. CbRequest(o, n) \in CbPuts
      BY <2>1, <2>3, <3>1, <1>2 DEF CbRequest, CbPuts
    <3>3. QED
      BY <3>2, <1>1 DEF CbIInv
  <2>4. QED
    BY <2>2, <2>3
<1>9. CbPlanSound(o)'
  BY <1>6, <1>7 DEF CbPlanSound
<1>10. CbApplySound(o)'
  <2>1. CbApplySound(o)
    BY DEF CbIInv
  <2>2. ASSUME NEW m \in 1..Len(cbFile[o].entries), cbFile[o].entries[m] \in run.create, m < n
        PROVE  m < run.next
    BY <2>2, <1>4 DEF CbWrites
  <2>3. QED
    BY <2>1, <2>2, <1>2, <1>3, <1>6, <1>7 DEF CbApplySound, CbAsWritten
<1>11. QED
  BY <1>3, <1>7, <1>8, <1>9, <1>10, CbOneCommand DEF CbIInv, CbTypeOK

(* Asking for the projects again keeps the invariant. *)
LEMMA CbRelistSound ==
    ASSUME CbAssumption, CbIInv, NEW o \in CbOperators, CbRelist(o) PROVE CbIInv'
<1>1. PICK run \in CbRuns : run = cbRun[o]
  BY DEF CbIInv, CbTypeOK
<1>2. /\ run.phase = "applying" /\ run.next = 0 /\ CbListed \in BOOLEAN
      /\ UNCHANGED <<cbCatalog, cbBinding, cbNewer, cbFile, cbApplied, cbWire, cbFaults>>
  BY <1>1 DEF CbRelist, CbRelists, CbListed
<1>3. PICK next \in CbRuns : next = [run EXCEPT !.found = CbListed, !.next = 1]
  BY <1>2 DEF CbRuns
<1>4. next.phase = "applying" /\ next.next = 1 /\ next.create = run.create
  BY <1>2, <1>3 DEF CbRuns
<1>5. cbRun' = [cbRun EXCEPT ![o] = next] /\ cbRun'[o] = next
  <2>1. cbRun' = [cbRun EXCEPT ![o] = [run EXCEPT !.found = CbListed, !.next = 1]]
    BY <1>1 DEF CbRelist, CbIInv, CbTypeOK, CbRuns
  <2>2. QED
    BY <2>1, <1>3 DEF CbIInv, CbTypeOK
<1>6. CbPlanSound(o)'
  BY <1>4, <1>5 DEF CbPlanSound
<1>7. CbApplySound(o)'
  <2>1. \A n \in 1..Len(cbFile[o].entries) : ~(n < 1)
    BY CbFileSound DEF CbIInv
  <2>2. \A e \in CbIncluded(cbFile[o]) : e \in run.create \/ CbAsWritten(o, e)
    BY <1>1, <1>2 DEF CbIInv, CbApplySound
  <2>3. QED
    BY <2>1, <2>2, <1>2, <1>4, <1>5 DEF CbApplySound, CbAsWritten
<1>8. QED
  BY <1>2, <1>5, <1>6, <1>7, CbOneCommand DEF CbIInv, CbTypeOK

(* A command that is through has applied every place of its file. *)
LEMMA CbFinishSound ==
    ASSUME CbAssumption, CbIInv, NEW o \in CbOperators, CbFinish(o) PROVE CbIInv'
<1>1. PICK run \in CbRuns : run = cbRun[o]
  BY DEF CbIInv, CbTypeOK
<1>2. /\ run.phase = "applying" /\ run.next \in Nat
      /\ CbNextOf(CbWrites(cbFile[o], run), run.next) = {}
      /\ cbApplied' = cbApplied \cup {o}
      /\ UNCHANGED <<cbCatalog, cbBinding, cbNewer, cbFile, cbWire, cbFaults>>
  BY <1>1 DEF CbFinish, CbNextWrite, CbRuns
<1>3. PICK next \in CbRuns : next = [CbIdle EXCEPT !.phase = "applied"]
  <2>1. 0 \in 0..CbMaxFaults
    BY DEF CbAssumption
  <2>2. QED
    BY <2>1 DEF CbIdle, CbRuns
<1>4. cbRun' = [cbRun EXCEPT ![o] = next] /\ cbRun'[o] = next /\ next.phase = "applied"
  BY <1>3 DEF CbFinish, CbIInv, CbTypeOK, CbIdle
<1>5. \A e \in CbIncluded(cbFile[o]) : CbAsWritten(o, e)
  <2>1. SUFFICES ASSUME NEW e \in CbIncluded(cbFile[o]), e \in run.create PROVE CbAsWritten(o, e)
    BY <1>1, <1>2 DEF CbIInv, CbApplySound
  <2>2. PICK n \in 1..Len(cbFile[o].entries) : cbFile[o].entries[n] = e
    BY CbFileSound, SMTT(30) DEF CbIInv
  <2>3. n \in CbWrites(cbFile[o], run)
    BY <2>1, <2>2 DEF CbWrites
  <2>4. n < run.next
    <3>1. CbWrites(cbFile[o], run) \in SUBSET Nat
      BY CbFileSound DEF CbIInv, CbWrites
    <3>2. QED
      BY <3>1, <2>3, <1>2, CbNoPlaceLeft
  <2>5. QED
    BY <2>1, <2>2, <2>4, <1>1, <1>2 DEF CbIInv, CbApplySound
<1>6. CbTypeOK'
  BY <1>2, <1>4 DEF CbIInv, CbTypeOK
<1>7. CbCatalogSound'
  BY <1>2 DEF CbIInv, CbCatalogSound, CbIsRegistered
<1>8. CbPlanSound(o)' /\ CbApplySound(o)'
  BY <1>4 DEF CbPlanSound, CbApplySound
<1>9. \A q \in CbOperators \ {o} : cbRun'[q] = cbRun[q]
  BY <1>4 DEF CbIInv, CbTypeOK
<1>10. \A q \in CbOperators \ {o} : CbPlanSound(q)' /\ CbApplySound(q)'
  BY <1>2, <1>9 DEF CbIInv, CbPlanSound, CbApplySound, CbAsWritten
<1>11. \A q \in cbApplied' : \A e \in CbIncluded(cbFile[q]) : CbAsWritten(q, e)'
  BY <1>2, <1>5 DEF CbIInv, CbAsWritten
<1>12. QED
  BY <1>2, <1>6, <1>7, <1>8, <1>10, <1>11 DEF CbIInv

-----------------------------------------------------------------------------
(* Catalog bundles: requests that are served, lost or given up.            *)

\* A command that ends without success leaves nothing to be kept.
LEMMA CbFailedRun ==
    ASSUME CbAssumption
    PROVE  \E run \in CbRuns : run = [CbIdle EXCEPT !.phase = "failed"] /\ run.phase = "failed"
<1>1. 0 \in 0..CbMaxFaults
  BY DEF CbAssumption
<1>2. CbIdle \in CbRuns
  BY <1>1 DEF CbIdle, CbRuns
<1>3. PICK run : run = [CbIdle EXCEPT !.phase = "failed"]
  OBVIOUS
<1>4. run \in CbRuns /\ run.phase = "failed"
  BY <1>2, <1>3 DEF CbRuns
<1>5. QED
  BY <1>3, <1>4

(* A command that gives up claims nothing. *)
LEMMA CbGiveUpSound ==
    ASSUME CbAssumption, CbIInv, NEW o \in CbOperators, CbGiveUp(o) PROVE CbIInv'
<1>1. PICK run \in CbRuns : run = [CbIdle EXCEPT !.phase = "failed"] /\ run.phase = "failed"
  BY CbFailedRun
<1>2. cbRun' = [cbRun EXCEPT ![o] = run] /\ cbRun'[o] = run
  BY <1>1 DEF CbGiveUp, CbFail, CbIInv, CbTypeOK
<1>3. CbPlanSound(o)' /\ CbApplySound(o)'
  BY <1>1, <1>2 DEF CbPlanSound, CbApplySound
<1>4. cbFaults' \in 0..CbMaxFaults /\ UNCHANGED <<cbCatalog, cbBinding, cbNewer, cbFile, cbApplied, cbWire>>
  BY DEF CbGiveUp, CbIInv, CbTypeOK, CbAssumption
<1>5. QED
  BY <1>2, <1>3, <1>4, CbOneCommand DEF CbIInv

(* So does a command whose project is not listed. *)
LEMMA CbAbandonSound ==
    ASSUME CbAssumption, CbIInv, NEW o \in CbOperators, CbAbandon(o) PROVE CbIInv'
<1>1. PICK run \in CbRuns : run = [CbIdle EXCEPT !.phase = "failed"] /\ run.phase = "failed"
  BY CbFailedRun
<1>2. cbRun' = [cbRun EXCEPT ![o] = run] /\ cbRun'[o] = run
  BY <1>1 DEF CbAbandon, CbFail, CbIInv, CbTypeOK
<1>3. CbPlanSound(o)' /\ CbApplySound(o)'
  BY <1>1, <1>2 DEF CbPlanSound, CbApplySound
<1>4. UNCHANGED <<cbCatalog, cbBinding, cbNewer, cbFile, cbApplied, cbWire, cbFaults>>
  BY DEF CbAbandon
<1>5. QED
  BY <1>2, <1>3, <1>4, CbOneCommand DEF CbIInv, CbTypeOK

(* Other projects do not change what is in the catalog. *)
LEMMA CbRegisterOtherSound == ASSUME CbAssumption, CbIInv, CbRegisterOther PROVE CbIInv'
<1>1. /\ UNCHANGED <<cbCatalog, cbBinding, cbFile, cbRun, cbApplied, cbWire>>
      /\ cbNewer' \in 0..CbListLimit /\ cbFaults' \in 0..CbMaxFaults
  BY DEF CbRegisterOther, CbIInv, CbTypeOK, CbAssumption
<1>2. QED
  BY <1>1 DEF CbIInv, CbTypeOK, CbCatalogSound, CbIsRegistered, CbPlanSound, CbApplySound,
              CbAsWritten

\* The answer to a request moves only a command that waits for it: an error
\* ends it, a success moves it past its place.
CbMovesOn(r, next) ==
    /\ CbAwaits(r) /\ next.phase = "applying" /\ next.next = cbRun[r.op].next + 1
    /\ next.create = cbRun[r.op].create

(* An answer is ignored, ends the command or moves it on by one place. *)
LEMMA CbAnswerMoves ==
    ASSUME CbAssumption, CbIInv, NEW r \in cbWire, NEW ok \in BOOLEAN, CbAnswer(r, ok)
    PROVE  /\ r.op \in CbOperators /\ cbRun' \in [CbOperators -> CbRuns]
           /\ \A q \in CbOperators \ {r.op} : cbRun'[q] = cbRun[q]
           /\ \/ cbRun'[r.op] = cbRun[r.op]
              \/ cbRun'[r.op].phase = "failed"
              \/ ok /\ CbMovesOn(r, cbRun'[r.op])
<1>1. r.op \in CbOperators /\ cbRun \in [CbOperators -> CbRuns]
  BY DEF CbIInv, CbTypeOK, CbPosts, CbPuts
<1>2. PICK run \in CbRuns : run = cbRun[r.op]
  BY <1>1
<1>3. CASE ~CbAwaits(r)
  BY <1>1, <1>3 DEF CbAnswer
<1>4. CASE CbAwaits(r) /\ ok
  <2>0. run.next + 1 \in Nat
    BY DEF CbRuns
  <2>1. PICK next \in CbRuns : next = [run EXCEPT !.phase = "applying", !.next = run.next + 1]
    BY <2>0 DEF CbRuns
  <2>2. next.phase = "applying" /\ next.next = run.next + 1 /\ next.create = run.create
    BY <2>1 DEF CbRuns
  <2>3. cbRun' = [cbRun EXCEPT ![r.op] = next]
    BY <1>1, <1>2, <1>4, <2>1 DEF CbAnswer, CbRuns
  <2>4. QED
    BY <1>1, <1>2, <1>4, <2>2, <2>3 DEF CbMovesOn
<1>5. CASE CbAwaits(r) /\ ~ok
  <2>1. PICK next \in CbRuns : next = [CbIdle EXCEPT !.phase = "failed"] /\ next.phase = "failed"
    BY CbFailedRun
  <2>2. cbRun' = [cbRun EXCEPT ![r.op] = next]
    BY <1>5, <2>1 DEF CbAnswer, CbFail
  <2>3. QED
    BY <1>1, <2>1, <2>2
<1>6. QED
  BY <1>3, <1>4, <1>5

(* A lost request ends the command that waits for it. *)
LEMMA CbLoseSound == ASSUME CbAssumption, CbIInv, NEW r \in cbWire, CbLose(r) PROVE CbIInv'
<1>1. /\ CbAnswer(r, FALSE) /\ cbWire' = cbWire \ {r} /\ cbFaults' \in 0..CbMaxFaults
      /\ UNCHANGED <<cbCatalog, cbBinding, cbNewer, cbFile, cbApplied>>
  <2>1. cbFaults' \in 0..CbMaxFaults
    BY DEF CbLose, CbIInv, CbTypeOK, CbAssumption
  <2>2. QED
    BY <2>1, Zenon DEF CbLose
<1>2. /\ r.op \in CbOperators /\ cbRun' \in [CbOperators -> CbRuns]
      /\ \A q \in CbOperators \ {r.op} : cbRun'[q] = cbRun[q]
      /\ cbRun'[r.op] = cbRun[r.op] \/ cbRun'[r.op].phase = "failed"
  BY <1>1, CbAnswerMoves
<1>3. PICK run \in CbRuns : run = cbRun'[r.op]
  BY <1>2
<1>4. cbRun' = [cbRun EXCEPT ![r.op] = run]
  BY <1>2, <1>3 DEF CbIInv, CbTypeOK
<1>5. CbPlanSound(r.op)' /\ CbApplySound(r.op)'
  <2>1. CASE cbRun'[r.op] = cbRun[r.op]
    BY <2>1, <1>1, <1>2 DEF CbIInv, CbPlanSound, CbApplySound, CbAsWritten
  <2>2. CASE cbRun'[r.op].phase = "failed"
    BY <2>2 DEF CbPlanSound, CbApplySound
  <2>3. QED
    BY <2>1, <2>2, <1>2
<1>6. cbWire' \subseteq CbPosts \cup CbPuts
  BY <1>1 DEF CbIInv
<1>7. QED
  BY <1>1, <1>2, <1>4, <1>5, <1>6, CbOneCommand

\* An entry whose post is accepted finds its references registered.
LEMMA CbAcceptedRefs ==
    ASSUME CbAssumption, NEW r \in CbPosts, CbAccepted(r)
    PROVE  ~CbIsRegistered(r.entry) /\ \A d \in CbRefs[r.entry] : CbIsRegistered(d)
<1>1. r.entry \in CbEntries
  BY DEF CbPosts
<1>2. CASE CbRegisterProject(r) \/ CbRegisterSkill(r) \/ CbRegisterModel(r)
  <2>1. ~CbIsRegistered(r.entry) /\ CbKind[r.entry] \notin {"phase_pack", "workflow"}
    BY <1>2 DEF CbRegisterProject, CbRegisterSkill, CbRegisterModel
  <2>2. QED
    BY <2>1, <1>1 DEF CbAssumption
<1>3. CASE CbRegisterPhasePack(r)
  BY <1>3 DEF CbRegisterPhasePack, CbRegistered
<1>4. CASE CbRegisterWorkflow(r)
  <2>1. SUFFICES ASSUME NEW d \in CbRefs[r.entry] PROVE CbIsRegistered(d)
    BY <1>4 DEF CbRegisterWorkflow
  <2>2. CbResolved(r.entry)
    BY <1>4 DEF CbRegisterWorkflow
  <2>3. CASE CbKind[d] = "phase_pack"
    BY <2>2, <2>3 DEF CbResolved, CbRegistered
  <2>4. CASE CbKind[d] # "phase_pack"
    BY <2>2, <2>4 DEF CbResolved, CbRegistered
  <2>5. QED
    BY <2>3, <2>4
<1>5. QED
  BY <1>2, <1>3, <1>4 DEF CbAccepted

\* A request that is served, accepted or not, keeps what is registered.
LEMMA CbServedSound ==
    ASSUME CbAssumption, CbIInv, NEW r \in cbWire, NEW ok \in BOOLEAN, CbAnswer(r, ok),
           cbWire' = cbWire \ {r}, UNCHANGED <<cbNewer, cbFile, cbApplied, cbFaults>>,
           cbCatalog' \in [CbEntries -> CbContents \cup {CbNothing}],
           cbBinding' \in CbEntries \cup {0}, CbCatalogSound',
           \A e \in CbEntries : CbIsRegistered(e) => cbCatalog'[e] = cbCatalog[e],
           (ok /\ CbAwaits(r) /\ r.method = "POST") =>
              cbCatalog'[r.entry] = CbStoredForm(r.entry, r.content)
    PROVE  CbIInv'
<1>1. /\ r.op \in CbOperators /\ cbRun' \in [CbOperators -> CbRuns]
      /\ \A q \in CbOperators \ {r.op} : cbRun'[q] = cbRun[q]
      /\ \/ cbRun'[r.op] = cbRun[r.op]
         \/ cbRun'[r.op].phase = "failed"
         \/ ok /\ CbMovesOn(r, cbRun'[r.op])
  BY CbAnswerMoves
<1>2. CbTypeOK' /\ cbWire' \subseteq CbPosts \cup CbPuts
  BY <1>1 DEF CbIInv, CbTypeOK
<1>3. \A o \in CbOperators : \A e \in CbIncluded(cbFile[o]) :
         CbAsWritten(o, e) => CbAsWritten(o, e)'
  BY CbWrittenKept
<1>4. \A o \in cbApplied : \A e \in CbIncluded(cbFile[o]) : CbAsWritten(o, e)'
  BY <1>3 DEF CbIInv, CbTypeOK
<1>5. ASSUME NEW q \in CbOperators, cbRun'[q] = cbRun[q] PROVE CbPlanSound(q)' /\ CbApplySound(q)'
  <2>1. CbPlanSound(q) /\ CbApplySound(q) /\ cbFile' = cbFile
    BY DEF CbIInv
  <2>2. \A n \in CbCompared(cbFile[q]) : CbEntryAt(cbFile[q], n) \in CbIncluded(cbFile[q])
    BY DEF CbCompared
  <2>3. \A n \in 1..Len(cbFile[q].entries) : cbFile[q].entries[n] \in CbIncluded(cbFile[q])
    <3>1. CbTypeOK
      BY DEF CbIInv
    <3>2. CbIncluded(cbFile[q]) = {cbFile[q].entries[n] : n \in 1..Len(cbFile[q].entries)}
      BY <3>1, CbFileSound
    <3>3. QED
      BY <3>2
  <2>4. CbPlanSound(q)'
    BY <1>3, <1>5, <2>1, <2>2 DEF CbPlanSound
  <2>5. CbApplySound(q)'
    BY <1>3, <1>5, <2>1, <2>3 DEF CbApplySound
  <2>6. QED
    BY <2>4, <2>5
<1>6. ASSUME ok, CbMovesOn(r, cbRun'[r.op]) PROVE CbPlanSound(r.op)' /\ CbApplySound(r.op)'
  <2>1. PICK o \in CbOperators : o = r.op
    BY <1>1
  <2>2. PICK run \in CbRuns : run = cbRun[o]
    BY DEF CbIInv, CbTypeOK
  <2>3. /\ run.phase = "waiting" /\ run.next \in Nat /\ CbRequest(o, run.next) = r
        /\ cbRun'[o].phase = "applying" /\ cbRun'[o].next = run.next + 1
        /\ cbRun'[o].create = run.create
    BY <1>6, <2>1, <2>2 DEF CbMovesOn, CbAwaits, CbRuns
  <2>4. /\ \A e \in CbIncluded(cbFile[o]) : e \in run.create \/ CbAsWritten(o, e)
        /\ \A n \in 1..Len(cbFile[o].entries) :
              (cbFile[o].entries[n] \in run.create /\ n < run.next) =>
                  CbAsWritten(o, cbFile[o].entries[n])
    BY <2>2, <2>3 DEF CbIInv, CbApplySound
  <2>5. ASSUME NEW n \in 1..Len(cbFile[o].entries), cbFile[o].entries[n] \in run.create,
               n < run.next + 1
        PROVE  CbAsWritten(o, cbFile[o].entries[n])'
    <3>1. cbFile[o].entries[n] \in CbIncluded(cbFile[o]) /\ Len(cbFile[o].entries) \in Nat
      BY CbFileSound, ZenonT(40) DEF CbIInv
    <3>2. CASE n < run.next
      <4>1. CbAsWritten(o, cbFile[o].entries[n])
        BY <3>2, <2>4, <2>5
      <4>2. QED
        BY <4>1, <3>1, <1>3
    <3>3. CASE n = run.next
      <4>1. r = [op |-> o, attempt |-> cbRun[o].attempt, method |-> "POST",
                 entry |-> cbFile[o].entries[n], content |-> cbFile[o].content[cbFile[o].entries[n]]]
        BY <3>3, <2>3 DEF CbRequest
      <4>2. /\ r.method = "POST" /\ r.entry = cbFile[o].entries[n]
            /\ r.content = cbFile[o].content[cbFile[o].entries[n]]
        BY <4>1
      <4>3. cbCatalog'[r.entry] = CbStoredForm(r.entry, r.content)
        BY <4>2, <1>6 DEF CbMovesOn
      <4>4. QED
        BY <4>2, <4>3 DEF CbAsWritten
    <3>4. n < run.next \/ n = run.next
      BY <2>3, <2>5, <3>1
    <3>5. QED
      BY <3>2, <3>3, <3>4
  <2>6. \A e \in CbIncluded(cbFile[o]) : e \in run.create \/ CbAsWritten(o, e)'
    BY <2>4, <1>3
  <2>7. CbPlanSound(o)'
    BY <2>3 DEF CbPlanSound
  <2>8. CbApplySound(o)'
    BY <2>3, <2>5, <2>6 DEF CbApplySound
  <2>9. QED
    BY <2>1, <2>7, <2>8
<1>7. CbPlanSound(r.op)' /\ CbApplySound(r.op)'
  <2>1. CASE cbRun'[r.op].phase = "failed"
    BY <2>1 DEF CbPlanSound, CbApplySound
  <2>2. QED
    BY <2>1, <1>1, <1>5, <1>6
<1>8. \A q \in CbOperators : CbPlanSound(q)' /\ CbApplySound(q)'
  BY <1>1, <1>5, <1>7
<1>9. QED
  BY <1>2, <1>4, <1>8 DEF CbIInv

(* The server applies a request, or refuses it. *)
LEMMA CbServeSound == ASSUME CbAssumption, CbIInv, NEW r \in cbWire, CbServe(r) PROVE CbIInv'
<1>1. /\ cbWire' = cbWire \ {r} /\ UNCHANGED <<cbNewer, cbFile, cbApplied, cbFaults>>
      /\ cbCatalog \in [CbEntries -> CbContents \cup {CbNothing}]
      /\ cbBinding \in CbEntries \cup {0} /\ CbCatalogSound /\ r \in CbPosts \cup CbPuts
      /\ TRUE \in BOOLEAN /\ FALSE \in BOOLEAN
  BY DEF CbServe, CbIInv, CbTypeOK
<1>2. CASE r.method = "POST" /\ CbAccepted(r) /\ CbInsert(r.entry, r.content)
           /\ CbAnswer(r, TRUE) /\ UNCHANGED cbBinding
  <2>1. r \in CbPosts /\ r.entry \in CbEntries /\ r.content \in CbContents
    BY <1>1, <1>2 DEF CbPosts, CbPuts
  <2>2. PICK v \in CbContents : v = CbStoredForm(r.entry, r.content)
    BY <2>1, CbStoredFormNormal
  <2>3. v # CbNothing /\ CbStoredForm(r.entry, v) = v
    BY <2>1, <2>2, CbStoredFormNormal
  <2>4. ~CbIsRegistered(r.entry) /\ \A d \in CbRefs[r.entry] : CbIsRegistered(d)
    BY <2>1, <1>2, CbAcceptedRefs
  <2>5. cbCatalog' = [cbCatalog EXCEPT ![r.entry] = v]
    BY <2>2, <1>2 DEF CbInsert
  <2>6. /\ cbCatalog' \in [CbEntries -> CbContents \cup {CbNothing}] /\ cbCatalog'[r.entry] = v
        /\ \A e \in CbEntries \ {r.entry} : cbCatalog'[e] = cbCatalog[e]
    BY <2>1, <2>5, <1>1
  <2>7. \A e \in CbEntries : CbIsRegistered(e) => cbCatalog'[e] = cbCatalog[e] /\ CbIsRegistered(e)'
    BY <2>4, <2>6 DEF CbIsRegistered
  <2>8. CbCatalogSound'
    <3>1. ASSUME NEW e \in CbEntries, CbIsRegistered(e)'
          PROVE  CbStoredForm(e, cbCatalog'[e]) = cbCatalog'[e] /\ \A d \in CbRefs[e] : CbIsRegistered(d)'
      <4>1. CbRefs[e] \subseteq CbEntries
        BY DEF CbAssumption
      <4>2. CASE e = r.entry
        BY <4>1, <4>2, <2>3, <2>4, <2>6, <2>7
      <4>3. CASE e # r.entry
        BY <4>1, <4>3, <3>1, <2>6, <2>7, <1>1 DEF CbCatalogSound, CbIsRegistered
      <4>4. QED
        BY <4>2, <4>3
    <3>2. cbBinding' # 0 => CbIsRegistered(cbBinding)' /\ CbIsRegistered(CbProject)'
      BY <1>1, <1>2, <2>7 DEF CbCatalogSound, CbAssumption
    <3>3. QED
      BY <3>1, <3>2 DEF CbCatalogSound
  <2>9. QED
    BY <1>1, <1>2, <2>2, <2>6, <2>7, <2>8, CbServedSound
<1>3. CASE r.method = "PUT" /\ CbBind(r) /\ cbBinding' = r.entry
           /\ CbAnswer(r, TRUE) /\ UNCHANGED cbCatalog
  <2>1. r.entry \in CbEntries /\ CbIsRegistered(r.entry) /\ CbIsRegistered(CbProject)
    BY <1>3 DEF CbBind, CbRegistered
  <2>2. CbCatalogSound'
    BY <1>1, <1>3, <2>1 DEF CbCatalogSound, CbIsRegistered
  <2>3. QED
    BY <1>1, <1>3, <2>1, <2>2, CbServedSound
<1>4. CASE CbAnswer(r, FALSE) /\ UNCHANGED <<cbCatalog, cbBinding>>
  <2>1. CbCatalogSound'
    BY <1>1, <1>4 DEF CbCatalogSound, CbIsRegistered
  <2>2. QED
    BY <1>1, <1>4, <2>1, CbServedSound
<1>5. QED
  BY <1>2, <1>3, <1>4 DEF CbServe

(* Every step keeps the invariant. *)
LEMMA CbNextSound == ASSUME CbAssumption, CbIInv, CbNext PROVE CbIInv'
<1>1. CASE \E o \in CbOperators : CbStart(o) \/ CbCommand(o) \/ CbGiveUp(o)
  BY <1>1, CbStartSound, CbPlanStepSound, CbDecideSound, CbRelistSound, CbSendSound,
     CbAbandonSound, CbFinishSound, CbGiveUpSound DEF CbCommand
<1>2. CASE \E r \in cbWire : CbServe(r) \/ CbLose(r)
  BY <1>2, CbServeSound, CbLoseSound
<1>3. CASE CbRegisterOther
  BY <1>3, CbRegisterOtherSound
<1>4. QED
  BY <1>1, <1>2, <1>3 DEF CbNext

(* So does a stuttering step. *)
LEMMA CbStutters == ASSUME CbIInv, UNCHANGED cbVars PROVE CbIInv'
BY DEF CbIInv, cbVars, CbTypeOK, CbCatalogSound, CbIsRegistered, CbPlanSound, CbApplySound,
       CbAsWritten

\* However many operators apply overlapping files, whatever is lost, late or
\* cut off: a bundle reported as applied is in the catalog as its file writes
\* it, and nothing registered refers to what is not.
THEOREM BundlesAppliedAsWritten == CbSpec => [](CbTypeOK /\ CbAppliedAsWritten)
<1>1. CbInit => CbIInv
  BY CbAssumption, CbInitSound
<1>2. CbIInv /\ [CbNext]_cbVars => CbIInv'
  BY CbAssumption, CbNextSound, CbStutters
<1>3. QED
  BY <1>1, <1>2, CbIInvSafe, PTL DEF CbSpec

\* The run of both clients: the theorems hold of the specification it checks.
THEOREM ClientsSound == MCSpec => [](ClientsTypeOK /\ EsReplayFaithful /\ CbAppliedAsWritten)
<1> DEFINE IInv == part \in parts /\ StreamIInv /\ CbIInv
<1>1. MCInit => IInv
  BY EsAssumption, CbAssumption, StreamInit, CbInitSound DEF MCInit
<1>2. IInv /\ [MCNext]_allVars => IInv'
  <2>1. SUFFICES ASSUME part \in parts, StreamIInv, CbIInv, [MCNext]_allVars PROVE IInv'
    OBVIOUS
  <2>2. CASE part = "events" /\ EsNext /\ UNCHANGED <<part, vars, cbVars>>
    BY <2>1, <2>2, EsAssumption, StreamNext, CbStutters
  <2>3. CASE part = "bundles" /\ CbNext /\ UNCHANGED <<part, vars, esVars>>
    BY <2>1, <2>3, CbAssumption, CbNextSound, StreamStutters
  <2>4. CASE part = "publications" /\ Next /\ UNCHANGED <<part, esVars, cbVars>>
    BY <2>1, <2>4, CbStutters, StreamStutters
  <2>5. CASE UNCHANGED allVars
    BY <2>1, <2>5, CbStutters, StreamStutters DEF allVars
  <2>6. QED
    BY <2>1, <2>2, <2>3, <2>4, <2>5 DEF MCNext
<1>3. IInv => ClientsTypeOK /\ EsReplayFaithful /\ CbAppliedAsWritten
  BY StreamIInvSafe, CbIInvSafe DEF ClientsTypeOK
<1>4. QED
  BY <1>1, <1>2, <1>3, PTL DEF MCSpec
=============================================================================
