----------------------------- MODULE Extraction -----------------------------
(***************************************************************************)
(* The scans that look for instincts in what agents have done              *)
(* (instinct_extractor.py): one every ten minutes, which goes on where the *)
(* last scan stopped, and those an administrator forces, which start from  *)
(* the first event.  A scan yields while it counts, queries and asks the   *)
(* LLM.                                                                    *)
(*                                                                         *)
(* Time goes in half seconds; an event is stored with its second.          *)
(***************************************************************************)
EXTENDS Naturals, FiniteSets

CONSTANTS
    MaxTime,     \* bound: half seconds that pass
    MaxEvents,   \* bound: events that are recorded
    Threshold,   \* events from which the periodic scan goes on: 5
    Limit        \* events a scan takes at most: 500

Scan  == {"periodic", "forced"}
Stage == {"idle", "counted", "queried", "stamped"}

VARIABLES
    now,        \* the clock
    events,     \* recorded events: number and stored time
    lastScanAt, \* _last_scan_at
    savedScan,  \* what .last_extraction_scan says; 0 if there is none
    unsaved,    \* a scan has failed to write the file
    scans,      \* the scans: stage, since when, and the events they have
    analysed,   \* events a periodic scan has given to the LLM
    again       \* events two periodic scans have given to it

extractionVars == <<now, events, lastScanAt, savedScan, unsaved, scans, analysed, again>>

Event == [id : 1 .. MaxEvents, at : 0 .. MaxTime]
Idle  == [stage |-> "idle", since |-> 0, got |-> {}]

ExtractionTypeOK ==
    /\ now \in 0 .. MaxTime
    /\ events \subseteq Event
    /\ lastScanAt \in 0 .. MaxTime /\ savedScan \in 0 .. MaxTime
    /\ unsaved \in BOOLEAN
    /\ scans \in [Scan -> [stage : Stage, since : 0 .. MaxTime, got : SUBSET Event]]
    /\ analysed \subseteq Event /\ again \subseteq analysed

Init ==
    /\ now = 1 /\ events = {}
    /\ lastScanAt = 0 /\ savedScan = 0 /\ unsaved = FALSE
    /\ scans = [s \in Scan |-> Idle]
    /\ analysed = {} /\ again = {}

Tick ==
    /\ now < MaxTime
    /\ now' = now + 1
    /\ UNCHANGED <<events, lastScanAt, savedScan, unsaved, scans, analysed, again>>

\* strftime('%s', 'now')
StoredTimeMutant == now + (now % 2)
StoredTime       == now - (now % 2)

\* ObservationStore.record
Record ==
    /\ Cardinality(events) < MaxEvents
    /\ events' = events \cup {[id |-> Cardinality(events) + 1, at |-> StoredTime]}
    /\ UNCHANGED <<now, lastScanAt, savedScan, unsaved, scans, analysed, again>>

Since(t) == {e \in events : e.at > t}

Becomes(s, scan) == scans' = [scans EXCEPT ![s] = scan]

\* The periodic scan reads _last_scan_at, and counts
Count ==
    /\ scans["periodic"].stage = "idle"
    /\ Cardinality(Since(lastScanAt)) >= Threshold
    /\ Becomes("periodic", [stage |-> "counted", since |-> lastScanAt, got |-> {}])
    /\ UNCHANGED <<now, events, lastScanAt, savedScan, unsaved, analysed, again>>

ForceScan ==
    /\ scans["forced"].stage = "idle"
    /\ Becomes("forced", [stage |-> "counted", since |-> 0, got |-> {}])
    /\ UNCHANGED <<now, events, lastScanAt, savedScan, unsaved, analysed, again>>

\* get_new_since: the oldest ones, up to the limit
Oldest(es) ==
    {got \in SUBSET es :
        /\ Cardinality(got) = IF Cardinality(es) < Limit THEN Cardinality(es) ELSE Limit
        /\ \A e \in got, f \in es \ got : e.at <= f.at}

Query(s) ==
    /\ scans[s].stage = "counted"
    /\ \E got \in Oldest(Since(scans[s].since)) :
           Becomes(s, [stage |-> "queried", since |-> scans[s].since, got |-> got])
    /\ UNCHANGED <<now, events, lastScanAt, savedScan, unsaved, analysed, again>>

Stamp(s) ==
    /\ scans[s].stage = "queried"
    /\ lastScanAt' = now
    /\ \/ savedScan' = now /\ UNCHANGED unsaved
       \/ unsaved' = TRUE /\ UNCHANGED savedScan
    /\ Becomes(s, IF scans[s].got = {} THEN Idle ELSE [scans[s] EXCEPT !.stage = "stamped"])
    /\ UNCHANGED <<now, events, analysed, again>>

\* _filter_significant_events and _find_repeated_sequences choose some of them
Candidates(got) == SUBSET got

\* The LLM is asked, whether it answers or not
Analyse(s) ==
    /\ scans[s].stage = "stamped"
    /\ \E sent \in Candidates(scans[s].got) :
           IF s = "periodic"
           THEN /\ analysed' = analysed \cup sent
                /\ again' = again \cup (sent \cap analysed)
           ELSE UNCHANGED <<analysed, again>>
    /\ Becomes(s, Idle)
    /\ UNCHANGED <<now, events, lastScanAt, savedScan, unsaved>>

LoadLastScanMutant == 0
LoadLastScan == savedScan

Restart ==
    /\ scans' = [s \in Scan |-> Idle]
    /\ lastScanAt' = LoadLastScan
    /\ UNCHANGED <<now, events, savedScan, unsaved, analysed, again>>

Next ==
    \/ Tick \/ Record \/ Count \/ ForceScan \/ Restart
    \/ \E s \in Scan : Query(s) \/ Stamp(s) \/ Analyse(s)

Spec == Init /\ [][Next]_extractionVars

-----------------------------------------------------------------------------
\* The periodic scan never gives an event to the LLM twice, whatever scans an
\* administrator forces meanwhile and however often the process restarts, as
\* long as the time of the last scan could be saved.
AnalysedOnce == again # {} => unsaved
=============================================================================
