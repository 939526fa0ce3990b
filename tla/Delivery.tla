------------------------------ MODULE Delivery ------------------------------
(***************************************************************************)
(* How the messages of one session reach the browser tabs that show it:    *)
(* the loops of handle_ws in src/main_server.py that replay and follow the  *)
(* buffer (recover, resume, subscribe), the connections, and what a page    *)
(* does with the frames (src/frontend/src/App.tsx, hooks/useWebSocket.ts).  *)
(*                                                                         *)
(* The buffer counts in two ways.  A stored message has a seq, and stream   *)
(* events have none; but get_history(after) counts positions in the list    *)
(* in memory, where stream events have their place, and falls back to seqs  *)
(* for what is not in memory.  Every index of the loops and of the pages is  *)
(* one or the other, and nothing says which.                                *)
(*                                                                         *)
(* A message is appended and stored in one step here (MessageBuffer has     *)
(* what happens in between), the task of a chat message runs to its end,    *)
(* and the page sends no other before handle_ws has left the subscribe loop *)
(* (SessionTask has cancellation and timeouts).  The answers of GET         *)
(* /history and GET /status are one.                                        *)
(***************************************************************************)
EXTENDS Integers, Sequences, FiniteSets

CONSTANTS
    Prompt,      \* the chat messages, each sent once
    Others,      \* those that other pages on the session send
    OneBrowser,  \* these pages share one localStorage with the page
    NoPrompt,    \* no chat message
    Hasty,       \* the user sends a message while others are on their way
    LoseChats,   \* a connection may break with a chat message on its way
    MaxHistory,  \* MAX_HISTORY: messages kept in memory
    MaxTexts,    \* bound: stored messages of agents
    MaxStreams,  \* bound: stream events of agents
    MaxDrops,    \* bound: broken connections
    MaxReloads,  \* bound: page reloads
    MaxRestarts  \* bound: restarts of the server

ASSUME ConstantsAssumption ==
    /\ Others \subseteq Prompt
    /\ NoPrompt \notin Prompt
    /\ Prompt \cap Int = {}
    /\ OneBrowser \in BOOLEAN
    /\ {Hasty, LoseChats} \subseteq BOOLEAN
    /\ MaxHistory \in Nat \ {0}
    /\ {MaxTexts, MaxStreams, MaxDrops, MaxReloads, MaxRestarts} \subseteq Nat

VARIABLES
    buf,       \* buf["messages"] and buf["base_index"], and the messages
               \*   table in the order of seq: 0, 1, ...
    state,     \* buf["state"]; buf["done"] is that it is terminal
    live,      \* an agent task is under way
    sent,      \* chat messages sent so far
    loop,      \* where handle_ws is for the connection of each tab
    turn,      \* a loop is about to pull, or to look whether it is done
    lastSeen,  \* its last_seen
    inbox,     \* its pending_ws_msgs, and what is on its way there
    wire,      \* the frames on their way to the page
    status,    \* useWebSocket: the connection as the page sees it
    lastSeq,   \* lastSeqRef, 0 when there is none
    ask,       \* the auto-recover effect: no recover to send, or from where
    answer,    \* GET /history: not asked yet, its answer, or taken in
    view,      \* messages: what the page shows, each with its index
    started,   \* replayStartedRef
    threshold, \* clearThresholdRef
    highUser,  \* highestUserMsgIndexRef
    spins,     \* the page shows the session as running
    pending,   \* pendingUserMsgsRef: a chat message not confirmed
    waits,     \* recoverTimers: no message has come since a recover
    known,     \* localStorage: last_known_index
    count      \* how many texts, streams, drops, reloads, restarts so far

server == <<buf, state, live>>
loops  == <<loop, turn, lastSeen>>
page   == <<lastSeq, view, started, threshold, highUser, spins, pending, waits>>
vars   == <<buf, state, live, sent, loop, turn, lastSeen, inbox, wire, status,
            lastSeq, ask, answer, view, started, threshold, highUser, spins,
            pending, waits, known, count>>

NoSeq    == -1                      \* a stream event has no seq
Infinity == 1000                    \* Number.MAX_SAFE_INTEGER
Terminal == {"completed", "error"}
Visible  == {"user", "text", "result"}
Stored   == Visible \cup {"running", "completed"}
Kinds    == Stored \cup {"stream", "error", "heartbeat", "dead"}
Watching == {"recover", "resume", "subscribe"}
NotAsked == [rows |-> 0, state |-> "not asked"]
Taken    == [rows |-> 0, state |-> "taken"]

Index   == Nat \cup {NoSeq}
Message == [kind : Stored \cup {"stream"}, seq : Index, who : Prompt \cup {NoPrompt}]
Frame   == [kind : Kinds, index : Nat, who : Prompt \cup {NoPrompt}, replay : BOOLEAN]
Request == [type : {"chat", "recover", "resume"}, last : Nat, who : Prompt \cup {NoPrompt}]

TypeOK ==
    /\ buf \in [rows : Seq(Message), mem : Seq(Message), base : Nat]
    /\ state \in Terminal \cup {"idle", "running"}
    /\ live \in BOOLEAN
    /\ sent \subseteq Prompt
    /\ loop \in Watching \cup {"closed", "outer"}
    /\ turn \in {"pull", "check"}
    /\ lastSeen \in Nat
    /\ inbox \in Seq(Request)
    /\ wire \in Seq(Frame)
    /\ status \in {"closed", "connected", "recovered"}
    /\ lastSeq \in Nat
    /\ ask \in {"no", "zero", "known"}
    /\ answer \in {NotAsked, Taken}
                  \cup [rows : Nat, state : Terminal \cup {"idle", "running"}]
    /\ view \subseteq [id : Nat \cup Prompt, index : Nat]
    /\ started \in BOOLEAN
    /\ threshold \in Nat
    /\ highUser \in Index
    /\ spins \in BOOLEAN
    /\ pending \in Prompt \cup {NoPrompt}
    /\ waits \in BOOLEAN
    /\ known \in Nat
    /\ count \in [{"text", "stream", "drop", "reload", "restart"} -> Nat]

Init ==
    /\ buf = [rows |-> <<>>, mem |-> <<>>, base |-> 0]
    /\ state = "idle"
    /\ live = FALSE
    /\ sent = {}
    /\ loop = "closed"
    /\ turn = "pull"
    /\ lastSeen = 0
    /\ inbox = <<>>
    /\ wire = <<>>
    /\ status = "closed"
    /\ lastSeq = 0
    /\ ask = "no"
    /\ answer = NotAsked
    /\ view = {}
    /\ started = FALSE
    /\ threshold = Infinity
    /\ highUser = NoSeq
    /\ spins = FALSE
    /\ pending = NoPrompt
    /\ waits = FALSE
    /\ known = 0
    /\ count = [w \in {"text", "stream", "drop", "reload", "restart"} |-> 0]

Done == state \in Terminal
Largest(S) == CHOOSE n \in S : \A m \in S : m <= n

Spend(what, bound) ==
    /\ count[what] < bound
    /\ count' = [count EXCEPT ![what] = @ + 1]

-----------------------------------------------------------------------------
(* The buffer and the agent. *)

\* The message that add_message numbers next
Numbered(b, kind, who) == [kind |-> kind, seq |-> Len(b.rows), who |-> who]
StreamEvent == [kind |-> "stream", seq |-> NoSeq, who |-> NoPrompt]

\* add_message: append, evict, store, "align base_index"
Appended(b, m) ==
    LET all  == Append(b.mem, m)
        drop == IF Len(all) > MaxHistory THEN Len(all) - MaxHistory ELSE 0
    IN  [mem  |-> SubSeq(all, drop + 1, Len(all)),
         base |-> IF b.base = 0 /\ Len(all) = 1 /\ m.seq # NoSeq
                  THEN m.seq ELSE b.base + drop,
         rows |-> IF m.seq = NoSeq THEN b.rows ELSE Append(b.rows, m)]

\* What handle_ws adds for a chat message it makes a task for
Announced(b, who) ==
    LET said == Appended(b, Numbered(b, "user", who))
    IN  Appended(said, Numbered(said, "running", NoPrompt))

VisibleRows == {buf.rows[i] : i \in {j \in DOMAIN buf.rows : buf.rows[j].kind \in Visible}}

\* get_history: by position what is in memory, by seq what is not
GetHistory(after) ==
    LET local == after - buf.base
    IN  IF local \in 0..Len(buf.mem) - 1
        THEN SubSeq(buf.mem, local + 1, Len(buf.mem))
        ELSE SubSeq(buf.rows, after + 1, Len(buf.rows))

\* A message that the next turn of the loop will send
ToCome(m) == LET h == GetHistory(lastSeen) IN \E i \in DOMAIN h : h[i] = m

Works(m) == /\ buf' = Appended(buf, m)
            /\ UNCHANGED <<sent, loops, inbox, wire, status, ask, answer, page, known>>

Text ==
    /\ live /\ ~Done
    /\ Spend("text", MaxTexts)
    /\ Works(Numbered(buf, "text", NoPrompt))
    /\ UNCHANGED <<state, live>>

Stream ==
    /\ live /\ ~Done
    /\ Spend("stream", MaxStreams)
    /\ Works(StreamEvent)
    /\ UNCHANGED <<state, live>>

\* _finish_task: completed first, "so the spinner stops immediately"
Complete ==
    /\ live /\ ~Done
    /\ state' = "completed"
    /\ Works(Numbered(buf, "completed", NoPrompt))
    /\ UNCHANGED <<live, count>>

\* ... then the result, and the task is over
Finish ==
    /\ live /\ Done
    /\ live' = FALSE
    /\ Works(Numbered(buf, "result", NoPrompt))
    /\ UNCHANGED <<state, count>>

-----------------------------------------------------------------------------
(* The loops of handle_ws. *)

FramesMutant(h, from, again) ==
    [i \in DOMAIN h |-> [kind |-> h[i].kind, who |-> h[i].who, replay |-> again,
                         index |-> from + i - 1]]

\* {**h, "index": h.get("seq", from + i), "replay": again}
Frames(h, from, again) ==
    [i \in DOMAIN h |-> [kind |-> h[i].kind, who |-> h[i].who, replay |-> again,
                         index |-> IF h[i].seq = NoSeq THEN from + i - 1 ELSE h[i].seq]]

Signal(kind, index) ==
    <<[kind |-> kind, index |-> index, who |-> NoPrompt, replay |-> FALSE]>>

\* Resume loop: last_seen is the index of the last message, and a stream event
\* takes the index of the one before it
ResumeIndex(h, i, from) ==
    LET S == {j \in 1..i : h[j].seq # NoSeq}
    IN  IF S = {} THEN from ELSE h[Largest(S)].seq

ResumeFrames(h, from) ==
    [i \in DOMAIN h |-> [kind |-> h[i].kind, who |-> h[i].who, replay |-> FALSE,
                         index |-> ResumeIndex(h, i, from)]]

Sends(frames) == wire' = wire \o frames

\* A request reaches the outer loop: replay, then the loop of its type
Serve ==
    /\ loop = "outer"
    /\ inbox # <<>>
    /\ LET r == Head(inbox)
           h == GetHistory(r.last)
           new == r.type = "chat" /\ ~live
       IN  /\ Sends(Frames(h, r.last, TRUE))
           /\ lastSeen' = r.last + Len(h)
           /\ loop' = IF r.type = "chat" THEN "subscribe" ELSE r.type
           /\ buf' = IF new THEN Announced(buf, r.who) ELSE buf
           /\ state' = IF new THEN "running" ELSE state
           /\ live' = (live \/ new)
    /\ inbox' = Tail(inbox)
    /\ turn' = "pull"
    /\ UNCHANGED <<sent, status, ask, answer, page, known, count>>

\* A request that reaches a loop: a second recover or resume is ignored, but in
\* the resume loop, where a recover, or a chat message anywhere, is put back and
\* the loop is left.  A resume is the first request of its connection, so no
\* loop meets one there.
Item ==
    /\ loop \in Watching
    /\ turn = "pull"
    /\ inbox # <<>>
    /\ LET r == Head(inbox)
           ignored == r.type \in {"recover", "resume"} /\ loop # "resume"
       IN  /\ inbox' = IF ignored THEN Tail(inbox) ELSE Append(Tail(inbox), r)
           /\ loop' = IF ignored THEN loop ELSE "outer"
    /\ UNCHANGED <<server, sent, turn, lastSeen, wire, status, ask, answer, page, known, count>>

\* "Pull new messages".  Bound: once the page has read what was sent
Pull ==
    /\ loop \in Watching
    /\ turn = "pull"
    /\ inbox = <<>>
    /\ wire = <<>>
    /\ LET from == lastSeen
           h == GetHistory(from)
       IN  IF loop = "resume"
           THEN /\ Sends(ResumeFrames(h, from))
                /\ lastSeen' = ResumeIndex(h, Len(h), from)
           ELSE /\ Sends(Frames(h, from, FALSE))
                /\ lastSeen' = from + Len(h)
    /\ turn' = "check"
    /\ UNCHANGED <<server, sent, loop, inbox, status, ask, answer, page, known, count>>

\* The final pull of a session that is done
FinalPull ==
    LET h == GetHistory(lastSeen)
    IN  /\ Sends(Frames(h, lastSeen, FALSE))
        /\ lastSeen' = lastSeen + Len(h)

Check(l) ==
    /\ loop = l
    /\ turn = "check"
    /\ turn' = "pull"
    /\ UNCHANGED <<buf, live, sent, inbox, status, ask, answer, page, known, count>>

CheckRecoverMutant ==
    /\ Check("recover")
    /\ IF Done THEN FinalPull ELSE UNCHANGED <<wire, lastSeen>>
    /\ UNCHANGED <<loop, state>>

\* Recover loop: a final pull, and on; _handle_orphaned_running.  The state
\* change that _emit_synthetic_state_change_if_missing looks for is there
\* whenever a session has a terminal state.
CheckRecover ==
    /\ Check("recover")
    /\ IF Done
       THEN FinalPull /\ UNCHANGED state
       ELSE IF state = "running" /\ ~live
       THEN /\ Sends(Signal("error", lastSeen))
            /\ lastSeen' = lastSeen + 1
            /\ state' = "error"
       ELSE UNCHANGED <<wire, lastSeen, state>>
    /\ UNCHANGED loop

LeaveMutant ==
    /\ Done
    /\ Check("subscribe") \/ Check("resume")
    /\ UNCHANGED <<wire, lastSeen>>
    /\ loop' = "outer"
    /\ UNCHANGED state

\* Subscribe loop: a final pull and out.  Resume loop: out
Leave ==
    /\ Done
    /\ \/ Check("subscribe") /\ FinalPull
       \/ Check("resume") /\ UNCHANGED <<wire, lastSeen>>
    /\ loop' = "outer"
    /\ UNCHANGED state

\* Both go on while it is not done, with a heartbeat when it is time for one
Stay ==
    /\ ~Done
    /\ Check("subscribe") \/ Check("resume")
    /\ \/ UNCHANGED wire
       \/ Sends(Signal(IF live THEN "heartbeat" ELSE "dead", lastSeen))
    /\ UNCHANGED <<loop, lastSeen, state>>

-----------------------------------------------------------------------------
(* The page. *)

Indices == {v.index : v \in view}
Ids     == {v.id : v \in view}

\* computeMaxIndex, computeRecoverIndex
MaxIndex     == Largest(Indices \cup {0})
RecoverIndex == IF view = {} THEN 0 ELSE MaxIndex + 1

\* What a frame or a row is a copy of
FrameId(f) == IF f.kind = "user" THEN f.who ELSE f.index
RowId(m)   == IF m.kind = "user" THEN m.who ELSE m.seq

FirstTurn(f) == ~started /\ (f.replay \/ f.index >= threshold)

MergedMutant(f) ==
    IF f.index \in Indices /\ (f.replay \/ f.kind # "user" \/ FirstTurn(f))
    THEN view
    ELSE view \cup {[id |-> FrameId(f), index |-> f.index]}

\* The dedup of handleIncomingMessage; an echo does not lower an index
Merged(f) ==
    IF f.index \in Indices /\ (f.replay \/ f.kind # "user" \/ FirstTurn(f))
    THEN view
    ELSE IF FrameId(f) \in Ids
    THEN {IF v.id = FrameId(f) /\ (f.replay \/ f.index >= v.index)
          THEN [v EXCEPT !.index = f.index] ELSE v : v \in view}
    ELSE view \cup {[id |-> FrameId(f), index |-> f.index]}

\* What setSessionStateFor makes of a state change: one that is replayed, or
\* older than the last user message, is not news, and an error does not end
\* what REST said was running
ShowsRunning(f) ==
    IF f.replay \/ f.index < highUser THEN spins
    ELSE CASE f.kind = "running"   -> TRUE
           [] f.kind = "completed" -> FALSE
           [] OTHER                -> spins

\* ws.onmessage: the largest index of any message, for the next resume
SeqAfter(f) == Largest({lastSeq, f.index})

\* The echo of the message that is not confirmed, and any message of an agent
Confirms(f) ==
    IF f.kind = "user" THEN f.who = pending
                       ELSE f.kind \notin {"stream", "heartbeat", "dead"}

Ask(type, last, who) ==
    inbox' = Append(inbox, [type |-> type, last |-> last, who |-> who])

\* ws.onmessage and handleIncomingMessage
Receive ==
    /\ wire # <<>>
    /\ LET f == Head(wire)
           shown == f.kind \in Visible
       IN  /\ lastSeq' = SeqAfter(f)
           /\ view' = IF shown THEN Merged(f) ELSE view
           /\ started' = (started \/ (shown /\ FirstTurn(f)))
           /\ highUser' = IF f.kind = "user"
                          THEN Largest({highUser, f.index}) ELSE highUser
           /\ spins' = ShowsRunning(f)
           /\ pending' = IF Confirms(f) THEN NoPrompt ELSE pending
           /\ known' = IF shown THEN f.index ELSE known
           /\ IF f.kind = "dead" THEN Ask("recover", 0, NoPrompt) ELSE UNCHANGED inbox
           /\ waits' = (f.kind = "dead" \/ (waits /\ ~shown))
    /\ wire' = Tail(wire)
    /\ UNCHANGED <<server, sent, loops, status, ask, answer, threshold, count>>

\* Nothing is on its way to the page or from it
UpToDate ==
    /\ inbox = <<>> /\ wire = <<>>
    /\ loop \in Watching => \A m \in VisibleRows : ~ToCome(m)

\* handleSend: the message is shown under an index of the page's own
Send(p) ==
    /\ p \notin sent \cup Others
    /\ answer = Taken
    /\ status = "connected"
    /\ ask = "no"
    /\ ~spins
    /\ loop # "subscribe"
    /\ Hasty \/ (UpToDate /\ ~live)
    /\ LET max == MaxIndex
       IN  /\ view' = view \cup {[id |-> p, index |-> max + 1]}
           /\ threshold' = max
           /\ Ask("chat", max + 1, p)
    /\ started' = FALSE
    /\ spins' = TRUE
    /\ pending' = p
    /\ sent' = sent \cup {p}
    /\ UNCHANGED <<server, loops, wire, status, lastSeq, ask, answer, highUser, waits, known, count>>

OnItsWay == \E i \in DOMAIN inbox : inbox[i].type = "chat"

\* handleSendFailed, SEND_TIMEOUT_MS after a message that did not arrive, and
\* GET /status after it
SendFailed ==
    /\ pending # NoPrompt
    /\ pending \notin {buf.rows[i].who : i \in DOMAIN buf.rows}
    /\ ~OnItsWay
    /\ spins' \in {FALSE, state = "running"}
    /\ pending' = NoPrompt
    /\ UNCHANGED <<server, sent, loops, inbox, wire, status, lastSeq, ask, answer,
                   view, started, threshold, highUser, waits, known, count>>

OpenMutant ==
    /\ status = "closed"
    /\ loop' = "outer"
    /\ IF lastSeq > 0
       THEN /\ status' = "recovered"
            /\ Ask("resume", lastSeq + 1, NoPrompt)
            /\ UNCHANGED ask
       ELSE /\ status' = "connected"
            /\ ask' = IF view = {} THEN "zero" ELSE "known"
            /\ UNCHANGED inbox
    /\ UNCHANGED <<server, sent, turn, lastSeen, wire, answer, page, known, count>>

\* ws.onopen: resume when a message has come before, otherwise connected,
\* and the auto-recover effect starts
Open ==
    /\ status = "closed"
    /\ loop' = "outer"
    /\ IF lastSeq > 0
       THEN /\ status' = "recovered"
            /\ Ask("resume", lastSeq, NoPrompt)
            /\ UNCHANGED ask
       ELSE /\ status' = "connected"
            /\ ask' = IF view = {} THEN "zero" ELSE "known"
            /\ UNCHANGED inbox
    /\ UNCHANGED <<server, sent, turn, lastSeen, wire, answer, page, known, count>>

\* doRecover
Recover ==
    /\ ask # "no"
    /\ ask' = "no"
    /\ waits' = TRUE
    /\ Ask("recover", IF ask = "zero" THEN 0 ELSE known, NoPrompt)
    /\ UNCHANGED <<server, sent, loops, wire, status, lastSeq, answer, view, started,
                   threshold, highUser, spins, pending, known, count>>

\* "If WS is connected but no heartbeat for 60s while 'running'": only the
\* subscribe and the resume loop send heartbeats
Stale ==
    /\ spins
    /\ status = "connected"
    /\ loop \notin {"subscribe", "resume"}
    /\ ~waits /\ inbox = <<>>
    /\ waits' = TRUE
    /\ Ask("recover", RecoverIndex, NoPrompt)
    /\ UNCHANGED <<server, sent, loops, wire, status, lastSeq, ask, answer, view,
                   started, threshold, highUser, spins, pending, known, count>>

RecoverTimeoutMutant ==
    /\ waits
    /\ ~live
    /\ UpToDate
    /\ waits' = FALSE
    /\ UNCHANGED <<server, sent, loops, inbox, wire, status, lastSeq, ask, answer, view,
                   started, threshold, highUser, spins, pending, known, count>>

\* onRecoverTimeout: no message came after a recover.  Bound: an agent is not
\* silent, and a loop not late, for RECOVER_TIMEOUT_MS
RecoverTimeout ==
    /\ waits
    /\ ~live
    /\ UpToDate
    /\ waits' = FALSE
    /\ spins' = FALSE
    /\ UNCHANGED <<server, sent, loops, inbox, wire, status, lastSeq, ask, answer, view,
                   started, threshold, highUser, pending, known, count>>

\* GET /history: the rows, and the state of the buffer, at this time
Fetch ==
    /\ answer = NotAsked
    /\ answer' = [rows |-> Len(buf.rows), state |-> state]
    /\ UNCHANGED <<server, sent, loops, inbox, wire, status, ask, page, known, count>>

\* resolveSessionState, then resolveBufferState: "idle" does not end what is
\* shown as running
Resolved(s) == IF s = "idle" THEN spins ELSE s = "running"

\* Its answer: the rows that are not shown yet, and the state; a recover when
\* the buffer has been running without a message for STALE_BUFFER_THRESHOLD
Load ==
    /\ answer \notin {NotAsked, Taken}
    /\ answer' = Taken
    /\ LET rows == {buf.rows[n] : n \in 1..answer.rows}
           new  == {m \in rows : m.seq \notin Indices /\ RowId(m) \notin Ids}
       IN  view' = view \cup {[id |-> RowId(m), index |-> m.seq] : m \in new}
    /\ spins' = Resolved(answer.state)
    /\ \/ UNCHANGED <<inbox, ask, waits>>
       \/ /\ answer.state = "running"
          /\ status # "closed"
          /\ Ask("recover", answer.rows, NoPrompt)
          /\ ask' = "no"
          /\ waits' = TRUE
    /\ UNCHANGED <<server, sent, loops, wire, status, lastSeq, started, threshold,
                   highUser, pending, known, count>>

-----------------------------------------------------------------------------
(* The other pages, as this one's session and storage see them. *)

SendElsewhere(p) ==
    /\ p \in Others \ sent
    /\ ~live
    /\ sent' = sent \cup {p}
    /\ buf' = Announced(buf, p)
    /\ state' = "running"
    /\ live' = TRUE
    /\ UNCHANGED <<loops, inbox, wire, status, ask, answer, page, known, count>>

\* saveLastKnownIndex of a message that another page has received
StoreElsewhere ==
    /\ OneBrowser
    /\ \E m \in VisibleRows : known' = m.seq
    /\ UNCHANGED <<server, sent, loops, inbox, wire, status, ask, answer, page, count>>

-----------------------------------------------------------------------------
(* What goes wrong. *)

\* The connection is gone, with what was on its way
Cut ==
    /\ LoseChats \/ ~OnItsWay
    /\ loop' = "closed"
    /\ inbox' = <<>>
    /\ wire' = <<>>
    /\ status' = "closed"
    /\ ask' = "no"
    /\ UNCHANGED <<sent, turn, lastSeen, known>>

Drop ==
    /\ status # "closed"
    /\ Spend("drop", MaxDrops)
    /\ Cut
    /\ UNCHANGED <<server, answer, page>>

\* The page is loaded anew.  Bound: not with a message unconfirmed, which
\* the new page would show again from localStorage
Reload ==
    /\ pending = NoPrompt
    /\ Spend("reload", MaxReloads)
    /\ Cut
    /\ answer' = NotAsked
    /\ lastSeq' = 0
    /\ view' = {}
    /\ started' = FALSE
    /\ threshold' = Infinity
    /\ highUser' = NoSeq
    /\ spins' = FALSE
    /\ waits' = FALSE
    /\ UNCHANGED <<server, pending>>

\* Memory is gone and so is the agent; _read_db_state
Restart ==
    /\ Spend("restart", MaxRestarts)
    /\ Cut
    /\ buf' = [buf EXCEPT !.mem = <<>>, !.base = 0]
    /\ live' = FALSE
    /\ LET S == {i \in DOMAIN buf.rows : buf.rows[i].kind \in {"running", "completed", "result"}}
       IN  state' = IF S = {} THEN "idle"
                    ELSE IF buf.rows[Largest(S)].kind = "running" THEN "running"
                    ELSE "completed"
    /\ UNCHANGED <<answer, page>>

Agent   == Text \/ Stream \/ Complete \/ Finish
Handler == Serve \/ Item \/ Pull \/ CheckRecover \/ Leave \/ Stay
Browser == Receive \/ SendFailed \/ Open \/ Recover \/ Fetch \/ Load \/ Stale \/ RecoverTimeout

Next ==
    \/ Agent
    \/ Handler
    \/ Browser
    \/ \E p \in Prompt : Send(p) \/ SendElsewhere(p)
    \/ StoreElsewhere
    \/ Drop
    \/ Reload
    \/ Restart

Spec == Init /\ [][Next]_vars

\* The event loop serves every handler, a loop sends a heartbeat once in an
\* interval, an agent goes on to its end, and a page reads what arrives and
\* reconnects
Fairness ==
    /\ WF_vars(Text \/ Complete \/ Finish)
    /\ WF_vars(Handler)
    /\ SF_vars(Stay /\ wire' # wire)
    /\ WF_vars(Receive) /\ WF_vars(Open) /\ WF_vars(Recover) /\ WF_vars(Fetch \/ Load)
    /\ WF_vars(SendFailed) /\ WF_vars(Stale) /\ WF_vars(RecoverTimeout)

FairSpec == Spec /\ Fairness

-----------------------------------------------------------------------------
(* Properties. *)

Shown(m) == RowId(m) \in Ids
OnWire(m) == \E i \in DOMAIN wire : wire[i].kind \in Visible /\ FrameId(wire[i]) = RowId(m)

\* A page that is followed by a loop shows every message to be shown, or it is
\* on its way, or the loop will send it: wherever recover, resume and chat
\* start, and whatever the loop counts, they leave no gap
NothingSkipped ==
    loop \in Watching =>
        \A m \in VisibleRows : Shown(m) \/ OnWire(m) \/ ToCome(m)

\* No message is shown twice: what comes by the history, by a replay, live and
\* as the echo of what the page has shown before is one message
ShownOnce ==
    \A v, w \in view : v.id = w.id => v = w

\* The subscribe loop ends with nothing unsent that was there when it ended:
\* messages may come in between its last look and its look at done
SendsAll ==
    (loop = "subscribe" /\ loop' = "outer") =>
        \A m \in VisibleRows : Shown(m) \/ OnWire(m)'

\* Row n is to be shown and is not
Owed(n) == /\ n \in DOMAIN buf.rows
           /\ buf.rows[n].kind \in Visible
           /\ loop \in Watching
           /\ ~Shown(buf.rows[n])

\* While a loop follows the session for a page, row n comes to be shown, through
\* reloads and broken connections
Delivered(n) == []<>~Owed(n)

\* "On reconnect, the recovery mechanism will sync the real session states":
\* a page does not show a session as running for good that has ended
StateSynced == (Done /\ ~live) ~> (~spins \/ live)

\* A running session whose agent went down with the server does not stay so
\* for a page that is connected, "so the frontend doesn't spin forever": a
\* recover loop sees it, and the page leaves a resume loop for one when a
\* heartbeat says that there is no agent
OrphanSettled ==
    (loop \in Watching /\ state = "running" /\ ~live) ~>
        (state # "running" \/ live \/ loop = "closed")
=============================================================================
