------------------------------ MODULE MCServices ------------------------------
(***************************************************************************)
(* The services around a session and the page that shows it, for TLC.      *)
(* They share no state that is modelled, so a behaviour is one of one       *)
(* service, chosen at the start: the run explores each of them whole, and   *)
(* none of their products.  The page is there twice: on a session that is    *)
(* whole in memory, and on one of which most is evicted.                     *)
(*                                                                         *)
(* A service with theorems of its own is instantiated through the module    *)
(* that proves them, so that MCServices_proofs can cite them.                *)
(***************************************************************************)
EXTENDS Integers, TLC

CONSTANTS
    User, Shared, Call,                           \* SharedSkills, ContainerPool, SharedConnection
    MaxRuns, MaxCancels, MaxLines, MaxStarts,     \* AgentServer, ContainerSession
    Row, MaxFaults,                               \* Migration
    MaxTime, MaxEvents, Threshold, Limit,         \* Extraction
    Prompt, NoPrompt                              \* Delivery

VARIABLES
    part,                                                               \* the service that moves
    dir, row, fresh, call,                                              \* SharedSkills
    open, inbox, cancels, serve, thread, queue, pump, sent,             \* AgentServer
    box, task, reg, bridge, link, outcome,                              \* ContainerSession
    status, stamped, lately, missed,                                    \* ContainerPool
    calls, pending, durable, foreign,                                   \* SharedConnection
    at, live, disk, inTx, enforced, written, torn, faults,              \* Migration
    now, events, lastScanAt, savedScan, unsaved, scans, analysed, again,\* Extraction
    buf, state, running, prompts, loop, turn, lastSeen, asked, wire,    \* Delivery
    connection, lastSeq, ask, answer, view, started, threshold,
    highUser, spins, unconfirmed, waits, known, count

ASSUME ServicesAssumption ==
    /\ MaxRuns \in Nat /\ MaxCancels \in Nat /\ MaxLines \in Nat /\ MaxStarts \in Nat
    /\ MaxFaults \in Nat /\ MaxTime \in Nat \ {0} /\ MaxEvents \in Nat
    /\ Shared \notin User
    /\ NoPrompt \notin Prompt /\ Prompt \cap Int = {}

Skills  == INSTANCE SharedSkills
Agent   == INSTANCE AgentServer_proofs
Session == INSTANCE ContainerSession
Pool    == INSTANCE ContainerPool
Conn    == INSTANCE SharedConnection_proofs
Start   == INSTANCE Migration_proofs
Extract == INSTANCE Extraction_proofs

Whole == INSTANCE Delivery_proofs WITH
             MaxHistory <- 50, MaxTexts <- 1, MaxStreams <- 1, MaxDrops <- 1,
             MaxReloads <- 1, MaxRestarts <- 0, Others <- {}, OneBrowser <- FALSE,
             Hasty <- FALSE, LoseChats <- FALSE, live <- running, sent <- prompts,
             inbox <- asked, status <- connection, pending <- unconfirmed
Evicted == INSTANCE Delivery_proofs WITH
             MaxHistory <- 2, MaxTexts <- 2, MaxStreams <- 0, MaxDrops <- 1,
             MaxReloads <- 1, MaxRestarts <- 0, Others <- {}, OneBrowser <- FALSE,
             Hasty <- FALSE, LoseChats <- FALSE, live <- running, sent <- prompts,
             inbox <- asked, status <- connection, pending <- unconfirmed

skillsVars     == <<dir, row, fresh, call>>
agentVars      == <<open, inbox, cancels, serve, thread, queue, pump, sent>>
sessionVars    == <<box, task, reg, bridge, link, outcome>>
poolVars       == <<status, stamped, lately, missed>>
connVars       == <<calls, pending, durable, foreign>>
migrationVars  == <<at, live, disk, inTx, enforced, written, torn, faults>>
extractionVars == <<now, events, lastScanAt, savedScan, unsaved, scans, analysed, again>>
pageVars       == <<buf, state, running, prompts, loop, turn, lastSeen, asked, wire,
                    connection, lastSeq, ask, answer, view, started, threshold,
                    highUser, spins, unconfirmed, waits, known, count>>
allVars        == <<part, skillsVars, agentVars, sessionVars, poolVars, connVars,
                    migrationVars, extractionVars, pageVars>>

Pages == {"whole", "evicted"}
Part  == {"skills", "agent", "session", "pool", "connection", "start", "extraction"} \cup Pages

\* What stands in for the state of the services that do not move
Rest == 0

SkillsRest     == dir = Rest /\ row = Rest /\ fresh = Rest /\ call = Rest
AgentRests     == /\ open = Rest /\ inbox = Rest /\ cancels = Rest /\ serve = Rest
                  /\ thread = Rest /\ queue = Rest /\ pump = Rest /\ sent = Rest
SessionRests   == /\ box = Rest /\ task = Rest /\ reg = Rest /\ bridge = Rest
                  /\ link = Rest /\ outcome = Rest
PoolRests      == status = Rest /\ stamped = Rest /\ lately = Rest /\ missed = Rest
ConnectionRests == calls = Rest /\ pending = Rest /\ durable = Rest /\ foreign = Rest
StartRests     == /\ at = Rest /\ live = Rest /\ disk = Rest /\ inTx = Rest
                  /\ enforced = Rest /\ written = Rest /\ torn = Rest /\ faults = Rest
ScansRest      == /\ now = Rest /\ events = Rest /\ lastScanAt = Rest /\ savedScan = Rest
                  /\ unsaved = Rest /\ scans = Rest /\ analysed = Rest /\ again = Rest
PageRests      == /\ buf = Rest /\ state = Rest /\ running = Rest /\ prompts = Rest
                  /\ loop = Rest /\ turn = Rest /\ lastSeen = Rest /\ asked = Rest
                  /\ wire = Rest /\ connection = Rest /\ lastSeq = Rest /\ ask = Rest
                  /\ answer = Rest /\ view = Rest /\ started = Rest /\ threshold = Rest
                  /\ highUser = Rest /\ spins = Rest /\ unconfirmed = Rest
                  /\ waits = Rest /\ known = Rest /\ count = Rest

Init ==
    /\ part \in Part
    /\ IF part = "skills"     THEN Skills!Init  ELSE SkillsRest
    /\ IF part = "agent"      THEN Agent!Init   ELSE AgentRests
    /\ IF part = "session"    THEN Session!Init ELSE SessionRests
    /\ IF part = "pool"       THEN Pool!Init    ELSE PoolRests
    /\ IF part = "connection" THEN Conn!Init    ELSE ConnectionRests
    /\ IF part = "start"      THEN Start!Init   ELSE StartRests
    /\ IF part = "extraction" THEN Extract!Init ELSE ScansRest
    /\ IF part \in Pages      THEN Whole!Init   ELSE PageRests

\* The services other than p stand still
Others(p) ==
    /\ part = p /\ UNCHANGED part
    /\ p # "skills"     => UNCHANGED skillsVars
    /\ p # "agent"      => UNCHANGED agentVars
    /\ p # "session"    => UNCHANGED sessionVars
    /\ p # "pool"       => UNCHANGED poolVars
    /\ p # "connection" => UNCHANGED connVars
    /\ p # "start"      => UNCHANGED migrationVars
    /\ p # "extraction" => UNCHANGED extractionVars
    /\ p \notin Pages      => UNCHANGED pageVars

\* Bound: a broken connection or a reload, for a page
FewFaults == count'.drop + count'.reload <= 1

SkillsMove     == Others("skills") /\ Skills!Next
AgentMoves     == Others("agent") /\ Agent!Next
SessionMoves   == Others("session") /\ Session!Next
PoolMoves      == Others("pool") /\ Pool!Next
ConnectionUsed == Others("connection") /\ Conn!Next
StartGoesOn    == Others("start") /\ Start!Next
ScanGoesOn     == Others("extraction") /\ Extract!Next
PageMoves      == Others("whole") /\ Whole!Next /\ FewFaults
EvictedMoves   == Others("evicted") /\ Evicted!Next /\ FewFaults

Next ==
    \/ SkillsMove \/ AgentMoves \/ SessionMoves \/ PoolMoves
    \/ ConnectionUsed \/ StartGoesOn \/ ScanGoesOn \/ PageMoves \/ EvictedMoves

Spec == Init /\ [][Next]_allVars

Symmetry == Permutations(User) \cup Permutations(Call)

\* Every service keeps to its types.
TypesOK ==
    /\ part = "skills"     => Skills!TypeOK
    /\ part = "agent"      => Agent!TypeOK
    /\ part = "session"    => Session!TypeOK
    /\ part = "pool"       => Pool!TypeOK
    /\ part = "connection" => Conn!TypeOK
    /\ part = "start"      => Start!MigrationTypeOK
    /\ part = "extraction" => Extract!ExtractionTypeOK
    /\ part \in Pages      => Whole!TypeOK

\* The properties of the services, stated and explained in their modules; only
\* the service that moves has a state.
NoOrphan          == part = "skills"     => Skills!NoOrphan
PersonalKept      == [][part = "skills" => Skills!KeepsPersonal]_skillsVars
OwnEvents         == part = "agent"      => Agent!OwnEvents
PumpFed           == part = "agent"      => Agent!PumpFed
NoCliLeftBehind   == part = "agent"      => Agent!NoCliLeftBehind
EndedIsOver       == part = "session"    => Session!EndedIsOver
NeverReused       == part = "session"    => Session!NeverReused
ActiveIsStamped   == part = "pool"       => Pool!ActiveIsStamped
StopsIdleOnly     == [][part = "pool" => Pool!StopsIdle]_poolVars
AnsweredIsDurable == part = "connection" => Conn!AnsweredIsDurable
SplitOnlyByOthers == part = "connection" => Conn!SplitOnlyByOthers
RowsKept          == part = "start"      => Start!RowsKept
RowsServed        == part = "start"      => Start!RowsServed
ForeignKeysOff    == part = "start"      => Start!ForeignKeysOff
AnalysedOnce      == part = "extraction" => Extract!AnalysedOnce
NothingSkipped    == part \in Pages      => Whole!NothingSkipped
ShownOnce         == part \in Pages      => Whole!ShownOnce
LeavesNothing     == [][part \notin Pages \/ Whole!SendsAll]_pageVars
=============================================================================
