------------------------- MODULE Extraction_proofs -------------------------
(***************************************************************************)
(* No event is analysed by two periodic scans, for any number of events,   *)
(* any limit and threshold, and however long the process lives.            *)
(***************************************************************************)
EXTENDS Extraction, FiniteSetTheorems, TLAPS

scanType == [stage : Stage, since : Nat, got : SUBSET events]
periodic == scans["periodic"]

Types ==
    /\ now \in Nat /\ lastScanAt \in Nat /\ savedScan \in Nat /\ unsaved \in BOOLEAN
    /\ scans \in [Scan -> scanType]
    /\ analysed \subseteq events

\* The clock is ahead of whatever it has been read for
Past ==
    /\ lastScanAt <= now /\ savedScan <= now
    /\ \A e \in events : e.at \in Nat /\ e.at <= now

\* As long as the file could be written, it says what is in memory; what has been
\* analysed is not after it, nor after the start of the scan under way
Behind ==
    ~unsaved =>
        /\ savedScan = lastScanAt
        /\ again = {}
        /\ \A e \in analysed : e.at <= lastScanAt
        /\ periodic.stage # "idle" => \A e \in analysed : e.at <= periodic.since
        /\ periodic.stage = "stamped" => \A e \in periodic.got : e.at <= lastScanAt

\* A scan has only events after its start
After ==
    periodic.stage \in {"queried", "stamped"} =>
        \A e \in periodic.got : e.at > periodic.since

IInv == Types /\ Past /\ Behind /\ After

LEMMA InitIInv == Init => IInv
<1> SUFFICES ASSUME Init PROVE IInv
  OBVIOUS
<1>1. Idle \in scanType /\ Idle.stage = "idle"
  BY DEF Idle, scanType, Stage
<1>2. scans = [s \in Scan |-> Idle] /\ events = {} /\ analysed = {} /\ again = {}
  BY DEF Init
<1>3. now = 1 /\ lastScanAt = 0 /\ savedScan = 0 /\ unsaved = FALSE
  BY DEF Init
<1>4. scans \in [Scan -> scanType] /\ periodic.stage = "idle"
  <2> HIDE DEF scanType, Idle
  <2> QED
    BY <1>1, <1>2 DEF Scan, periodic
<1>5. Types
  <2> HIDE DEF scanType
  <2> QED
    BY <1>2, <1>3, <1>4 DEF Types
<1> QED
  BY <1>2, <1>3, <1>4, <1>5 DEF IInv, Past, Behind, After

LEMMA StepIInv == IInv /\ [Next]_extractionVars => IInv'
<1> SUFFICES ASSUME IInv, [Next]_extractionVars PROVE IInv'
  OBVIOUS
<1> USE DEF IInv
<1>1. /\ "periodic" \in Scan /\ "forced" \in Scan /\ "periodic" # "forced"
      /\ Idle \in scanType /\ Idle.stage = "idle"
  BY DEF Scan, Idle, scanType, Stage
<1>2. CASE Tick
  BY <1>2 DEF Tick, Types, Past, Behind, After, periodic, scanType
<1>3. CASE Record
  <2>1. now % 2 \in 0 .. 1
    BY DEF Types
  <2>2. StoredTime \in Nat /\ StoredTime <= now
    BY <2>1 DEF Types, StoredTime
  <2> DEFINE e == [id |-> Cardinality(events) + 1, at |-> StoredTime]
  <2>3. events' = events \cup {e} /\ e.at = StoredTime
    BY <1>3 DEF Record
  <2> HIDE DEF e
  <2>4. Types'
    <3>1. \A r \in scanType : r \in scanType'
      BY <2>3 DEF scanType
    <3>2. scans' = scans /\ UNCHANGED <<now, lastScanAt, savedScan, unsaved, analysed>>
      BY <1>3 DEF Record
    <3>3. scans' \in [Scan -> scanType']
      BY <3>1, <3>2 DEF Types
    <3> QED
      BY <2>3, <3>2, <3>3 DEF Types
  <2>5. Past'
    BY <1>3, <2>2, <2>3 DEF Record, Past
  <2> QED
    <3>1. scans' = scans /\ UNCHANGED <<now, lastScanAt, savedScan, unsaved, analysed, again>>
      BY <1>3 DEF Record
    <3>2. periodic' = periodic
      BY <3>1 DEF periodic
    <3>3. Behind' /\ After'
      BY <3>1, <3>2 DEF Behind, After
    <3> QED
      BY <2>4, <2>5, <3>3
<1>4. CASE Count
  <2> DEFINE p == [stage |-> "counted", since |-> lastScanAt, got |-> {}]
  <2>1. p \in scanType
    BY DEF Types, scanType, Stage
  <2>2. scans' = [scans EXCEPT !["periodic"] = p]
    BY <1>4 DEF Count, Becomes
  <2>3. scans' \in [Scan -> scanType] /\ periodic' = p
    BY <1>1, <2>1, <2>2 DEF Types, periodic
  <2>4. UNCHANGED <<now, events, lastScanAt, savedScan, unsaved, analysed, again>>
    BY <1>4 DEF Count
  <2>5. periodic'.stage = "counted" /\ periodic'.since = lastScanAt
    BY <2>3
  <2>6. scanType' = scanType
    BY <2>4 DEF scanType
  <2> HIDE DEF p
  <2>7. Types' /\ Past' /\ After'
    BY <2>3, <2>4, <2>5, <2>6 DEF Types, Past, After
  <2>8. Behind'
    BY <2>4, <2>5 DEF Behind
  <2> QED
    BY <2>7, <2>8
\* What is forced reads and writes no more than the time of the last scan
<1>5. ASSUME NEW q \in scanType, scans' = [scans EXCEPT !["forced"] = q]
      PROVE  scans' \in [Scan -> scanType] /\ periodic' = periodic
  <2> HIDE DEF scanType
  <2> QED
    BY <1>1, <1>5 DEF Types, periodic
<1>keep. ASSUME scans' \in [Scan -> scanType], periodic' = periodic,
              UNCHANGED <<now, events, lastScanAt, savedScan, unsaved, analysed, again>>
       PROVE  IInv'
  <2>1. scanType' = scanType
    BY <1>keep DEF scanType
  <2> QED
    BY <1>keep, <2>1 DEF Types, Past, Behind, After
<1>6. CASE ForceScan
  <2> DEFINE q == [stage |-> "counted", since |-> 0, got |-> {}]
  <2>1. q \in scanType /\ scans' = [scans EXCEPT !["forced"] = q]
    BY <1>6 DEF ForceScan, Becomes, scanType, Stage
  <2>2. scans' \in [Scan -> scanType] /\ periodic' = periodic
    BY <1>5, <2>1
  <2>3. UNCHANGED <<now, events, lastScanAt, savedScan, unsaved, analysed, again>>
    BY <1>6 DEF ForceScan
  <2> HIDE DEF IInv
  <2> QED
    BY <1>keep, <2>2, <2>3
<1>7. ASSUME NEW s \in Scan, Query(s) PROVE IInv'
  <2>1. PICK got \in Oldest(Since(scans[s].since)) :
            scans' = [scans EXCEPT ![s] = [stage |-> "queried", since |-> scans[s].since, got |-> got]]
    BY <1>7 DEF Query, Becomes
  <2>2. got \subseteq events /\ \A e \in got : e.at > scans[s].since
    BY <2>1 DEF Oldest, Since
  <2>type. scans[s] \in scanType
    <3> HIDE DEF scanType
    <3> QED
      BY DEF Types
  <2> DEFINE q == [stage |-> "queried", since |-> scans[s].since, got |-> got]
  <2>4. q \in scanType /\ scans' = [scans EXCEPT ![s] = q]
    <3>1. q \in scanType
      BY <2>2, <2>type DEF scanType, Stage
    <3> QED
      BY <2>1, <3>1
  <2>5. UNCHANGED <<now, events, lastScanAt, savedScan, unsaved, analysed, again>>
    BY <1>7 DEF Query
  <2>6. CASE s = "forced"
    <3>1. scans' \in [Scan -> scanType] /\ periodic' = periodic
      BY <1>5, <2>4, <2>6
    <3> HIDE DEF IInv
    <3> QED
      BY <1>keep, <2>5, <3>1
  <2>7. CASE s = "periodic"
    <3>1. scans' \in [Scan -> scanType] /\ periodic' = q
      <4> HIDE DEF q, scanType
      <4> QED
        BY <1>1, <2>4, <2>7 DEF Types, periodic
    <3>2. /\ periodic'.stage = "queried" /\ periodic'.since = periodic.since
          /\ periodic'.got = got /\ periodic.stage = "counted"
          /\ \A e \in got : e.at > periodic.since
      BY <1>7, <2>2, <2>7, <3>1 DEF periodic, Query
    <3>3. scanType' = scanType
      BY <2>5 DEF scanType
    <3> HIDE DEF q
    <3>4. Types' /\ Past'
      BY <2>5, <3>1, <3>3 DEF Types, Past
    <3>5. Behind'
      BY <2>5, <3>2 DEF Behind
    <3>6. After'
      BY <3>2 DEF After
    <3> QED
      BY <3>4, <3>5, <3>6
  <2> QED
    BY <2>6, <2>7 DEF Scan
<1>8. ASSUME NEW s \in Scan, Stamp(s) PROVE IInv'
  <2> DEFINE q == IF scans[s].got = {} THEN Idle
                  ELSE [stage |-> "stamped", since |-> scans[s].since, got |-> scans[s].got]
  <2>type. scans[s] \in scanType
    <3> HIDE DEF scanType
    <3> QED
      BY DEF Types
  <2>1. [scans[s] EXCEPT !.stage = "stamped"]
            = [stage |-> "stamped", since |-> scans[s].since, got |-> scans[s].got]
    BY <2>type DEF scanType
  <2>2. q \in scanType
    BY <1>1, <2>type DEF scanType, Stage
  <2>3. scans' = [scans EXCEPT ![s] = q]
    BY <1>8, <2>1 DEF Stamp, Becomes
  <2>4. /\ UNCHANGED <<now, events, analysed, again>>
        /\ lastScanAt' = now
        /\ \/ savedScan' = now /\ unsaved' = unsaved
           \/ unsaved' = TRUE /\ savedScan' = savedScan
    BY <1>8 DEF Stamp
  <2>5. \A e \in events : e.at <= now
    BY DEF Past
  <2>mine. periodic \in scanType
    <3> HIDE DEF scanType
    <3> QED
      BY <1>1 DEF Types, periodic
  <2>6. Types' /\ Past'
    <3> HIDE DEF q, scanType
    <3>1. scans' \in [Scan -> scanType]
      BY <2>2, <2>3 DEF Types
    <3>2. scanType' = scanType
      BY <2>4 DEF scanType
    <3>3. Types'
      BY <2>4, <3>1, <3>2 DEF Types
    <3>4. Past'
      BY <2>4 DEF Past, Types
    <3> QED
      BY <3>3, <3>4
  <2>7. CASE s = "forced"
    <3>1. periodic' = periodic
      <4> HIDE DEF q, scanType
      <4> QED
        BY <1>5, <2>2, <2>3, <2>7
    <3>2. periodic.got \subseteq events
      BY <2>mine DEF scanType
    <3>3. After'
      BY <3>1 DEF After
    <3>4. Behind'
      BY <2>4, <2>5, <3>1, <3>2 DEF Behind, Types
    <3> QED
      BY <2>6, <3>3, <3>4
  <2>8. CASE s = "periodic"
    <3>0. periodic' = q
      <4> HIDE DEF q, scanType
      <4> QED
        BY <1>1, <2>3, <2>8 DEF Types, periodic
    <3>1. periodic = scans[s] /\ periodic.got \subseteq events /\ periodic.stage = "queried"
      BY <1>8, <2>mine, <2>8 DEF scanType, periodic, Stamp
    <3>2. \/ periodic'.stage = "idle"
          \/ /\ periodic'.stage = "stamped" /\ periodic'.since = periodic.since
             /\ periodic'.got = periodic.got
      BY <1>1, <3>0, <3>1
    <3> HIDE DEF q
    <3>3. After'
      BY <3>1, <3>2 DEF After
    <3>4. Behind'
      BY <2>4, <2>5, <3>1, <3>2 DEF Behind, Types
    <3> QED
      BY <2>6, <3>3, <3>4
  <2> QED
    BY <2>7, <2>8 DEF Scan
<1>9. ASSUME NEW s \in Scan, Analyse(s) PROVE IInv'
  <2>1. /\ scans' = [scans EXCEPT ![s] = Idle] /\ scans[s].stage = "stamped"
        /\ UNCHANGED <<now, events, lastScanAt, savedScan, unsaved>>
    BY <1>9 DEF Analyse, Becomes
  <2>2. CASE s = "forced"
    <3>1. scans' \in [Scan -> scanType] /\ periodic' = periodic
      BY <1>1, <1>5, <2>1, <2>2
    <3>2. UNCHANGED <<analysed, again>>
      BY <1>9, <2>2 DEF Analyse
    <3> HIDE DEF IInv
    <3> QED
      BY <1>keep, <2>1, <3>1, <3>2
  <2>3. CASE s = "periodic"
    <3>1. scans' \in [Scan -> scanType] /\ periodic' = Idle
      <4> HIDE DEF scanType, Idle
      <4> QED
        BY <1>1, <2>1, <2>3 DEF Types, periodic
    <3>2. PICK chosen \in SUBSET periodic.got :
              analysed' = analysed \cup chosen /\ again' = again \cup (chosen \cap analysed)
      BY <1>9, <2>3 DEF Analyse, Candidates, periodic
    <3>3. periodic.got \subseteq events /\ periodic.stage = "stamped" /\ periodic.since \in Nat
      <4>1. periodic \in scanType
        <5> HIDE DEF scanType
        <5> QED
          BY <1>1 DEF Types, periodic
      <4> QED
        BY <2>1, <2>3, <4>1 DEF scanType, periodic
    <3>4. Types' /\ Past'
      <4>1. scanType' = scanType
        BY <2>1 DEF scanType
      <4> HIDE DEF scanType
      <4> QED
        BY <2>1, <3>1, <3>2, <3>3, <4>1 DEF Types, Past
    \* What the scan has comes after its start, what has been analysed does not
    <3>5. ~unsaved => chosen \cap analysed = {}
      <4> SUFFICES ASSUME ~unsaved, NEW e \in chosen, e \in analysed PROVE FALSE
        OBVIOUS
      <4>1. e.at > periodic.since /\ e.at <= periodic.since /\ e.at \in Nat
        BY <3>2, <3>3 DEF After, Behind, Past
      <4> QED
        BY <3>3, <4>1
    <3>6. periodic'.stage = "idle"
      BY <1>1, <3>1
    <3>7. Behind'
      BY <2>1, <3>2, <3>3, <3>5, <3>6 DEF Behind
    <3> QED
      BY <3>4, <3>6, <3>7 DEF After
  <2> QED
    BY <2>2, <2>3 DEF Scan
<1>10. CASE Restart
  <2>1. scans' \in [Scan -> scanType] /\ periodic' = Idle
    <3> HIDE DEF scanType, Idle
    <3> QED
      BY <1>1, <1>10 DEF Restart, periodic
  <2>2. UNCHANGED <<now, events, savedScan, unsaved, analysed, again>> /\ lastScanAt' = savedScan
    BY <1>10 DEF Restart, LoadLastScan
  <2>3. periodic'.stage = "idle" /\ scanType' = scanType
    BY <1>1, <2>1, <2>2 DEF scanType
  <2> HIDE DEF scanType
  <2>4. savedScan <= now
    BY DEF Past
  <2>5. Types' /\ Past'
    BY <2>1, <2>2, <2>3, <2>4 DEF Types, Past
  <2>6. Behind' /\ After'
    BY <2>2, <2>3 DEF Behind, After
  <2> QED
    BY <2>5, <2>6
<1>11. CASE UNCHANGED extractionVars
  <2>1. scans' = scans /\ UNCHANGED <<now, events, lastScanAt, savedScan, unsaved, analysed, again>>
    BY <1>11 DEF extractionVars
  <2>2. scans' \in [Scan -> scanType] /\ periodic' = periodic
    <3> HIDE DEF scanType
    <3> QED
      BY <2>1 DEF Types, periodic
  <2> HIDE DEF IInv
  <2> QED
    BY <1>keep, <2>1, <2>2
<1> QED
  BY <1>2, <1>3, <1>4, <1>6, <1>7, <1>8, <1>9, <1>10, <1>11 DEF Next

\* The periodic scan analyses no event twice, through forced scans and restarts,
\* as long as the time of the last scan could be written.
THEOREM OnlyOnce == Spec => []AnalysedOnce
<1>1. IInv => AnalysedOnce
  BY DEF IInv, Types, Behind, AnalysedOnce
<1> QED
  BY InitIInv, StepIInv, <1>1, PTL DEF Spec
-----------------------------------------------------------------------------
(* Types: no time and no event beyond the bounds. *)

ScanRecord == [stage : Stage, since : 0 .. MaxTime, got : SUBSET Event]
TypesInv   == ExtractionTypeOK /\ IsFiniteSet(events)

LEMMA TypesInit ==
    ASSUME MaxTime \in Nat \ {0}, MaxEvents \in Nat
    PROVE  Init => TypesInv
<1> SUFFICES ASSUME Init PROVE TypesInv
  OBVIOUS
<1>1. 0 \in 0 .. MaxTime /\ 1 \in 0 .. MaxTime
  OBVIOUS
<1>2. Idle \in ScanRecord
  BY <1>1 DEF Idle, ScanRecord, Stage
<1>3. scans \in [Scan -> ScanRecord]
  <2> HIDE DEF Idle, ScanRecord
  <2> QED
    BY <1>2 DEF Init
<1> QED
  BY <1>1, <1>3, FS_EmptySet DEF Init, TypesInv, ExtractionTypeOK, ScanRecord

LEMMA TypesStep ==
    ASSUME MaxTime \in Nat \ {0}, MaxEvents \in Nat, TypesInv, [Next]_extractionVars
    PROVE  TypesInv'
<1>1. scans \in [Scan -> ScanRecord] /\ 0 \in 0 .. MaxTime
  BY DEF TypesInv, ExtractionTypeOK, ScanRecord
<1>2. Idle \in ScanRecord
  BY <1>1 DEF Idle, ScanRecord, Stage
<1>3. ASSUME NEW s \in Scan, NEW r \in ScanRecord, Becomes(s, r)
      PROVE  scans' \in [Scan -> ScanRecord]
  <2> HIDE DEF ScanRecord
  <2> QED
    BY <1>1, <1>3 DEF Becomes
<1>4. ASSUME scans' \in [Scan -> ScanRecord], UNCHANGED <<now, events, analysed, again>>,
             lastScanAt' \in 0 .. MaxTime, savedScan' \in 0 .. MaxTime, unsaved' \in BOOLEAN
      PROVE  TypesInv'
  BY <1>4 DEF TypesInv, ExtractionTypeOK, ScanRecord
<1>5. CASE Tick
  BY <1>5 DEF Tick, TypesInv, ExtractionTypeOK
<1>6. CASE Record
  <2> DEFINE e == [id |-> Cardinality(events) + 1, at |-> StoredTime]
  <2>1. Cardinality(events) \in Nat /\ Cardinality(events) < MaxEvents
    BY <1>6, FS_CardinalityType DEF Record, TypesInv
  <2>2. StoredTime \in 0 .. MaxTime
    <3>1. now \in 0 .. MaxTime
      BY DEF TypesInv, ExtractionTypeOK
    <3> QED
      BY <3>1 DEF StoredTime
  <2>3. e \in Event
    BY <2>1, <2>2 DEF Event
  <2>4. events' = events \cup {e}
    BY <1>6 DEF Record
  <2> HIDE DEF e
  <2>5. IsFiniteSet(events')
    BY <2>4, FS_AddElement DEF TypesInv
  <2> QED
    BY <1>6, <2>3, <2>4, <2>5 DEF Record, TypesInv, ExtractionTypeOK
<1>7. CASE Count
  <2>1. [stage |-> "counted", since |-> lastScanAt, got |-> {}] \in ScanRecord
    BY DEF TypesInv, ExtractionTypeOK, ScanRecord, Stage
  <2> QED
    BY <1>3, <1>4, <1>7, <2>1 DEF Count, Scan, TypesInv, ExtractionTypeOK
<1>8. CASE ForceScan
  <2>1. [stage |-> "counted", since |-> 0, got |-> {}] \in ScanRecord
    BY <1>1 DEF ScanRecord, Stage
  <2> QED
    BY <1>3, <1>4, <1>8, <2>1 DEF ForceScan, Scan, TypesInv, ExtractionTypeOK
<1>9. CASE Restart
  <2>1. scans' \in [Scan -> ScanRecord]
    <3> HIDE DEF ScanRecord, Idle
    <3> QED
      BY <1>2, <1>9 DEF Restart
  <2> QED
    BY <1>4, <1>9, <2>1 DEF Restart, LoadLastScan, TypesInv, ExtractionTypeOK
<1>10. ASSUME NEW s \in Scan, Query(s) PROVE TypesInv'
  <2>1. PICK got \in Oldest(Since(scans[s].since)) :
            Becomes(s, [stage |-> "queried", since |-> scans[s].since, got |-> got])
    BY <1>10 DEF Query
  <2>2. got \subseteq Event
    BY DEF Oldest, Since, TypesInv, ExtractionTypeOK
  <2>3. [stage |-> "queried", since |-> scans[s].since, got |-> got] \in ScanRecord
    BY <1>1, <2>2 DEF ScanRecord, Stage
  <2>4. scans' \in [Scan -> ScanRecord]
    BY <1>3, <2>1, <2>3
  <2> QED
    BY <1>4, <1>10, <2>4 DEF Query, TypesInv, ExtractionTypeOK
<1>11. ASSUME NEW s \in Scan, Stamp(s) PROVE TypesInv'
  <2>1. [scans[s] EXCEPT !.stage = "stamped"] \in ScanRecord
    BY <1>1 DEF ScanRecord, Stage
  <2>2. scans' \in [Scan -> ScanRecord]
    BY <1>2, <1>3, <1>11, <2>1 DEF Stamp
  <2> QED
    BY <1>4, <1>11, <2>2 DEF Stamp, TypesInv, ExtractionTypeOK
<1>12. ASSUME NEW s \in Scan, Analyse(s) PROVE TypesInv'
  <2>1. scans' \in [Scan -> ScanRecord]
    BY <1>2, <1>3, <1>12 DEF Analyse
  <2>2. PICK sent \in Candidates(scans[s].got) :
            IF s = "periodic"
            THEN analysed' = analysed \cup sent /\ again' = again \cup (sent \cap analysed)
            ELSE UNCHANGED <<analysed, again>>
    BY <1>12 DEF Analyse
  <2>3. sent \subseteq Event
    BY <1>1 DEF Candidates, ScanRecord
  <2>4. analysed' \subseteq Event /\ again' \subseteq analysed'
    BY <2>2, <2>3 DEF TypesInv, ExtractionTypeOK
  <2> QED
    BY <1>12, <2>1, <2>4 DEF Analyse, TypesInv, ExtractionTypeOK, ScanRecord
<1>13. CASE UNCHANGED extractionVars
  BY <1>13 DEF extractionVars, TypesInv, ExtractionTypeOK
<1> QED
  BY <1>5, <1>6, <1>7, <1>8, <1>9, <1>10, <1>11, <1>12, <1>13 DEF Next

\* Every variable keeps to its type: the clock and what is read of it to the time there
\* is, the events to their number, and nothing is analysed twice that was not analysed.
THEOREM KeepsTypes ==
    ASSUME MaxTime \in Nat \ {0}, MaxEvents \in Nat
    PROVE  Spec => []ExtractionTypeOK
<1>1. TypesInv => ExtractionTypeOK
  BY DEF TypesInv
<1> QED
  BY <1>1, TypesInit, TypesStep, PTL DEF Spec
=============================================================================
