------------------------- MODULE SessionTask_proofs -------------------------
(***************************************************************************)
(* A session has one agent task at most, and active_tasks names it: proved *)
(* for any number of connections, chat messages and cancel calls, and for  *)
(* clients that send, reconnect and disconnect whenever they like.         *)
(***************************************************************************)
EXTENDS SessionTask, FiniteSetTheorems, TLAPS

Claimed == {"lock", "typed", "interrupt"} \cup Serving

\* The inductive invariant.  Only the handler that holds the lock is between
\* the test of done() and create_task, and no task lives while it is there.
Exclusion ==
    /\ \A p \in Prompt : Live(p) => active = p /\ p \in recorded
    /\ \A c \in Conn : at[c] \in Serving => lock = c
    /\ \A c \in Conn : at[c] \in {"announce", "create"} => prompt[c] \in recorded
    /\ lock # Free => ~TaskLive

Claims == \A c \in Conn : at[c] \in Claimed => prompt[c] \in Prompt

IInv == TypeOK /\ Claims /\ Exclusion

-----------------------------------------------------------------------------
LEMMA InitIInv == Init => IInv
  <1>. SUFFICES ASSUME Init PROVE IInv
    OBVIOUS
  <1>1. TypeOK
    <2>1. inbox \in [Conn -> Seq(Prompt \cup Requests)]
      BY DEF Init
    <2>2. asked \in 0..MaxRequests
      BY ConstantsAssumption DEF Init
    <2>. QED
      BY <2>1, <2>2 DEF Init, TypeOK, States, Terminal
  <1>2. Claims
    BY DEF Init, Claims, Claimed, Serving
  <1>3. Exclusion
    BY ConstantsAssumption DEF Init, Exclusion, Live, TaskLive, Serving
  <1>. QED
    BY <1>1, <1>2, <1>3 DEF IInv

-----------------------------------------------------------------------------
(* The clients *)

LEMMA SendStep ==
  ASSUME IInv, NEW c \in Conn, NEW p \in Prompt, Send(c, p)
  PROVE  IInv'
  <1>1. TypeOK'
    <2>1. inbox' \in [Conn -> Seq(Prompt \cup Requests)]
      BY DEF IInv, TypeOK, Send
    <2>. QED
      BY <2>1 DEF IInv, TypeOK, Send, buffer, tasks
  <1>. QED
    BY <1>1 DEF IInv, Claims, Exclusion, Send, buffer, tasks, Live, TaskLive

LEMMA RequestStep ==
  ASSUME IInv, NEW c \in Conn, NEW m \in Requests, Request(c, m)
  PROVE  IInv'
  <1>1. TypeOK'
    <2>1. inbox' \in [Conn -> Seq(Prompt \cup Requests)]
      BY DEF IInv, TypeOK, Request
    <2>2. asked' \in 0..MaxRequests
      BY ConstantsAssumption DEF IInv, TypeOK, Request
    <2>. QED
      BY <2>1, <2>2 DEF IInv, TypeOK, Request, buffer, tasks
  <1>. QED
    BY <1>1 DEF IInv, Claims, Exclusion, Request, buffer, tasks, Live, TaskLive

-----------------------------------------------------------------------------
(* The handlers *)

\* Taking the first message of a queue, and putting one back, keeps its type.
LEMMA Queue ==
  ASSUME TypeOK, NEW c \in Conn, NEW m \in Prompt \cup Requests, Next1(c, m)
  PROVE  /\ [inbox EXCEPT ![c] = Tail(@)] \in [Conn -> Seq(Prompt \cup Requests)]
         /\ [inbox EXCEPT ![c] = Append(Tail(@), m)] \in [Conn -> Seq(Prompt \cup Requests)]
  <1>1. inbox[c] \in Seq(Prompt \cup Requests) /\ inbox[c] # <<>>
    BY DEF TypeOK, Next1
  <1>2. Tail(inbox[c]) \in Seq(Prompt \cup Requests)
    BY <1>1
  <1>3. Append(Tail(inbox[c]), m) \in Seq(Prompt \cup Requests)
    BY <1>2
  <1>. QED
    BY <1>2, <1>3 DEF TypeOK

LEMMA RotatedQueue ==
  ASSUME TypeOK, NEW c \in Conn
  PROVE  [inbox EXCEPT ![c] = Rotated(@)] \in [Conn -> Seq(Prompt \cup Requests)]
  <1>1. inbox[c] \in Seq(Prompt \cup Requests)
    BY DEF TypeOK
  <1>2. Rotated(inbox[c]) \in Seq(Prompt \cup Requests)
    BY <1>1 DEF Rotated
  <1>. QED
    BY <1>2 DEF TypeOK

\* A handler that moves to a place where it holds no claim, and touches no
\* task, the lock or the prompts, keeps the invariant.
LEMMA FreeMove ==
  ASSUME IInv, NEW c \in Conn,
         NEW place \in {"outer", "subscribed", "recover", "resume", "lost",
                        "parting", "leaving", "orphan", "closed"},
         Goes(c, place),
         UNCHANGED <<recorded, tasks, lock, prompt, call, env>>,
         state' \in States, done' \in BOOLEAN,
         inbox' \in [Conn -> Seq(Prompt \cup Requests)],
         turn' \in [Conn -> {"top", "pull", "wait"}]
  PROVE  IInv'
  <1>1. TypeOK'
    BY DEF IInv, TypeOK, Goes, tasks, env, Watching
  <1>2. Claims'
    BY DEF IInv, TypeOK, Claims, Claimed, Serving, Goes
  <1>3. Exclusion'
    BY DEF IInv, TypeOK, Exclusion, Live, TaskLive, Serving, Goes, tasks
  <1>. QED
    BY <1>1, <1>2, <1>3 DEF IInv

\* The steps that take a message and leave a claim on it to the handler.
LEMMA TakePromptStep ==
  ASSUME IInv, NEW c \in Conn, NEW p \in Prompt, TakePrompt(c, p) \/ Typed(c, p)
  PROVE  IInv'
  <1>1. inbox' \in [Conn -> Seq(Prompt \cup Requests)]
    BY Queue DEF IInv, TakePrompt, Typed, Hears
  <1>2. TypeOK'
    BY <1>1, ZenonT(30) DEF IInv, TypeOK, TakePrompt, Typed, Goes, buffer, tasks, env
  <1>3. Claims'
    BY DEF IInv, TypeOK, Claims, Claimed, Serving, TakePrompt, Typed, Goes
  <1>4. Exclusion'
    BY DEF IInv, TypeOK, Exclusion, Live, TaskLive, Serving, TakePrompt, Typed,
           Goes, buffer, tasks
  <1>. QED
    BY <1>2, <1>3, <1>4 DEF IInv

\* The steps that move a handler to where it claims nothing.
LEMMA FreeSteps ==
  ASSUME IInv, NEW c \in Conn,
         \/ \E p \in Prompt : PutBack(c, p)
         \/ \E m \in Requests : TakeRequest(c, m) \/ Ignore(c, m)
         \/ Part(c) \/ Closed(c) \/ Reuse(c) \/ Pull(c) \/ CheckDone(c) \/ Wake(c)
         \/ Left(c) \/ FindOrphan(c) \/ MarkOrphan(c)
  PROVE  IInv'
  <1>. USE DEF buffer, tasks, env
  <1>0. /\ state \in States /\ done \in BOOLEAN
        /\ inbox \in [Conn -> Seq(Prompt \cup Requests)]
        /\ at \in [Conn -> {"outer", "lock", "recover", "lost", "typed", "interrupt",
                            "parting", "leaving", "orphan", "closed"}
                             \cup Serving \cup Watching]
        /\ turn \in [Conn -> {"top", "pull", "wait"}]
    BY DEF IInv, TypeOK
  <1>1. ASSUME NEW p \in Prompt, PutBack(c, p) PROVE IInv'
    <2>1. inbox' \in [Conn -> Seq(Prompt \cup Requests)]
      BY <1>1, Queue DEF IInv, PutBack, Hears
    <2>2. (IF at[c] = "recover" THEN "parting" ELSE "outer") \in {"parting", "outer"}
      OBVIOUS
    <2>. QED
      BY <1>0, <1>1, <2>1, <2>2, FreeMove DEF PutBack
  <1>2. ASSUME NEW m \in Requests, TakeRequest(c, m) PROVE IInv'
    <2>1. inbox' \in [Conn -> Seq(Prompt \cup Requests)]
      BY <1>2, Queue DEF IInv, TakeRequest
    <2>2. (IF m = "close" THEN "closed" ELSE m) \in {"recover", "resume", "closed"}
      BY ConstantsAssumption
    <2>. QED
      BY <1>0, <1>2, <2>1, <2>2, FreeMove DEF TakeRequest
  <1>3. ASSUME NEW m \in Requests, Ignore(c, m) PROVE IInv'
    <2>1. inbox' \in [Conn -> Seq(Prompt \cup Requests)]
      <3>1. TypeOK /\ Next1(c, m) /\ m \in Prompt \cup Requests
        BY <1>3 DEF IInv, Ignore, Hears
      <3>2. /\ [inbox EXCEPT ![c] = Tail(@)] \in [Conn -> Seq(Prompt \cup Requests)]
            /\ [inbox EXCEPT ![c] = Append(Tail(@), m)] \in [Conn -> Seq(Prompt \cup Requests)]
        BY <3>1, Queue
      <3>3. \/ inbox' = [inbox EXCEPT ![c] = Append(Tail(@), m)]
            \/ inbox' = [inbox EXCEPT ![c] = Tail(@)]
        BY <1>3 DEF Ignore
      <3>. QED
        BY <3>2, <3>3
    <2>2. CASE at[c] = "resume" /\ m = "recover"
      BY <1>0, <1>3, <2>1, <2>2, FreeMove DEF Ignore
    <2>3. CASE ~(at[c] = "resume" /\ m = "recover")
      <3>1. Goes(c, at[c])
        BY <1>0, <1>3, <2>3 DEF Ignore, Goes
      <3>. QED
        BY <1>0, <1>3, <2>1, <2>3, <3>1, FreeMove DEF Ignore
    <2>. QED
      BY <2>2, <2>3
  <1>4. ASSUME Closed(c) PROVE IInv'
    <2>1. inbox' \in [Conn -> Seq(Prompt \cup Requests)]
      <3>1. "close" \in Prompt \cup Requests
        BY <1>0, <1>4 DEF Closed, Hears, Next1
      <3>. QED
        BY <1>4, <3>1, Queue DEF IInv, Closed, Hears
    <2>. QED
      BY <1>0, <1>4, <2>1, FreeMove DEF Closed
  <1>5. ASSUME Reuse(c) PROVE IInv'
    BY <1>0, <1>5, FreeMove DEF Reuse
  <1>6. ASSUME Pull(c) PROVE IInv'
    <2>1. Goes(c, at[c]) /\ at[c] \in {"subscribed", "resume"}
      BY <1>0, <1>6 DEF Pull, Goes, Watching
    <2>. QED
      BY <1>0, <1>6, <2>1, FreeMove DEF Pull
  <1>7. ASSUME CheckDone(c) PROVE IInv'
    <2>1. (IF done THEN "leaving" ELSE at[c]) \in {"leaving", "subscribed", "resume"}
      BY <1>7 DEF CheckDone, Watching
    <2>2. turn' \in [Conn -> {"top", "pull", "wait"}]
      BY <1>0, <1>7 DEF CheckDone
    <2>. QED
      BY <1>0, <1>7, <2>1, <2>2, FreeMove DEF CheckDone
  <1>8. ASSUME Wake(c) PROVE IInv'
    <2>1. Goes(c, at[c]) /\ at[c] \in {"subscribed", "resume"}
      BY <1>0, <1>8 DEF Wake, Goes, Watching
    <2>2. turn' \in [Conn -> {"top", "pull", "wait"}]
      BY <1>0, <1>8 DEF Wake
    <2>3. inbox' \in [Conn -> Seq(Prompt \cup Requests)]
      BY <1>8, RotatedQueue DEF IInv, Wake
    <2>. QED
      BY <1>0, <1>8, <2>1, <2>2, <2>3, FreeMove DEF Wake
  <1>9. ASSUME Part(c) PROVE IInv'
    <2>1. inbox' \in [Conn -> Seq(Prompt \cup Requests)]
      BY <1>9, RotatedQueue DEF IInv, Part
    <2>. QED
      BY <1>0, <1>9, <2>1, FreeMove DEF Part
  <1>10. ASSUME Left(c) PROVE IInv'
    BY <1>0, <1>10, FreeMove DEF Left
  <1>11. ASSUME FindOrphan(c) PROVE IInv'
    BY <1>0, <1>11, FreeMove DEF FindOrphan
  <1>12. ASSUME MarkOrphan(c) PROVE IInv'
    BY <1>0, <1>12, FreeMove DEF MarkOrphan, States, Terminal
  <1>. QED
    BY <1>1, <1>2, <1>3, <1>4, <1>5, <1>6, <1>7, <1>8, <1>9, <1>10, <1>11, <1>12

\* The lock is taken when no task lives: that is what its holder relies on.
LEMMA AcquireStep ==
  ASSUME IInv, NEW c \in Conn, Acquire(c)
  PROVE  IInv'
  <1>1. TypeOK'
    BY DEF IInv, TypeOK, Acquire, SetRunning, States, Goes, buffer, tasks, env, Serving
  <1>2. Claims'
    BY DEF IInv, TypeOK, Claims, Claimed, Serving, Acquire, SetRunning, Goes
  <1>3. Exclusion'
    <2>1. \A d \in Conn : at[d] \notin Serving
      BY ConstantsAssumption DEF IInv, Exclusion, Acquire
    <2>. QED
      BY <2>1 DEF IInv, TypeOK, Exclusion, Live, TaskLive, Serving, Acquire, SetRunning, Goes,
                  buffer, tasks
  <1>. QED
    BY <1>1, <1>2, <1>3 DEF IInv

\* From there to create_task the holder writes the buffer and nothing else.
LEMMA BeginSteps ==
  ASSUME IInv, NEW c \in Conn, Begin(c) \/ RecordUser(c) \/ Announce(c)
  PROVE  IInv'
  <1>1. prompt[c] \in Prompt
    BY DEF IInv, Claims, Claimed, Serving, Begin, RecordUser, Announce
  <1>2. TypeOK'
    BY <1>1 DEF IInv, TypeOK, Begin, SetRunning, RecordUser, Announce, Goes, tasks, env,
                Serving, States
  <1>3. Claims'
    BY DEF IInv, TypeOK, Claims, Claimed, Serving, Begin, SetRunning, RecordUser, Announce, Goes
  <1>4. Exclusion'
    BY DEF IInv, TypeOK, Exclusion, Live, TaskLive, Serving, Begin, SetRunning,
           RecordUser, Announce, Goes, tasks
  <1>. QED
    BY <1>2, <1>3, <1>4 DEF IInv

\* create_task: the holder starts the only task, on a message that is buffered.
LEMMA CreateStep ==
  ASSUME IInv, NEW c \in Conn, Create(c)
  PROVE  IInv'
  <1>1. /\ prompt[c] \in Prompt /\ prompt[c] \in recorded
        /\ lock = c /\ ~TaskLive
    BY ConstantsAssumption
    DEF IInv, Claims, Claimed, Exclusion, Serving, Create
  <1>2. \A p \in Prompt : ~Live(p)
    BY <1>1, ConstantsAssumption DEF IInv, Exclusion, TaskLive
  <1>3. TypeOK'
    BY <1>1 DEF IInv, TypeOK, Create, Goes, buffer, env, Watching
  <1>4. Claims'
    BY DEF IInv, TypeOK, Claims, Claimed, Serving, Create, Goes
  <1>5. Exclusion'
    <2>1. \A d \in Conn : at'[d] \notin Serving
      BY <1>1 DEF IInv, TypeOK, Exclusion, Serving, Create, Goes
    <2>2. \A p \in Prompt : Live(p)' => p = prompt[c]
      BY <1>2 DEF IInv, TypeOK, Live, Create
    <2>. QED
      BY <1>1, <2>1, <2>2 DEF Exclusion, Serving, Create, buffer
  <1>. QED
    BY <1>3, <1>4, <1>5 DEF IInv

\* A handler that breaks gives the lock up, and has started no task.
LEMMA BreakStep ==
  ASSUME IInv, NEW c \in Conn, Break(c)
  PROVE  IInv'
  <1>1. TypeOK'
    BY DEF IInv, TypeOK, Break, Goes, buffer, tasks, env
  <1>2. Claims'
    BY DEF IInv, TypeOK, Claims, Claimed, Serving, Break, Goes
  <1>3. Exclusion'
    BY DEF IInv, TypeOK, Exclusion, Live, TaskLive, Serving, Break, Goes, buffer, tasks
  <1>. QED
    BY <1>1, <1>2, <1>3 DEF IInv

LEMMA RecordTypedStep ==
  ASSUME IInv, NEW c \in Conn, RecordTyped(c)
  PROVE  IInv'
  <1>1. prompt[c] \in Prompt
    BY DEF IInv, Claims, Claimed, RecordTyped
  <1>2. TypeOK'
    BY <1>1 DEF IInv, TypeOK, RecordTyped, Goes, tasks, env
  <1>3. Claims'
    BY DEF IInv, TypeOK, Claims, Claimed, Serving, RecordTyped, Goes
  <1>4. Exclusion'
    BY DEF IInv, TypeOK, Exclusion, Live, TaskLive, Serving, RecordTyped, Goes, tasks
  <1>. QED
    BY <1>2, <1>3, <1>4 DEF IInv

LEMMA CancelOldStep ==
  ASSUME IInv, NEW c \in Conn, CancelOld(c)
  PROVE  IInv'
  <1>1. prompt[c] \in Prompt
    BY DEF IInv, Claims, Claimed, CancelOld
  <1>2. doomed' \subseteq Prompt
    BY DEF IInv, TypeOK, CancelOld, TaskLive
  <1>3. inbox' \in [Conn -> Seq(Prompt \cup Requests)]
    BY <1>1 DEF IInv, TypeOK, CancelOld
  <1>4. TypeOK'
    BY <1>2, <1>3 DEF IInv, TypeOK, CancelOld, Goes, buffer, env
  <1>5. Claims'
    BY DEF IInv, TypeOK, Claims, Claimed, Serving, CancelOld, Goes
  <1>6. Exclusion'
    BY DEF IInv, TypeOK, Exclusion, Live, TaskLive, Serving, CancelOld, Goes, buffer
  <1>. QED
    BY <1>4, <1>5, <1>6 DEF IInv

LEMMA HandleStep ==
  ASSUME IInv, NEW c \in Conn, Handle(c)
  PROVE  IInv'
  BY TakePromptStep, FreeSteps, AcquireStep, BeginSteps, CreateStep,
     RecordTypedStep, CancelOldStep DEF Handle

-----------------------------------------------------------------------------
(* The task *)

Places == {"none", "start", "work", "ask", "completed", "title", "failing",
           "reported", "failed", "closing", "done"}

\* A task that lives and goes on leaves every other task, the lock and the
\* handlers alone; so does one that ends.
LEMMA TaskMove ==
  ASSUME IInv, NEW p \in Prompt, Live(p), NEW to \in Places,
         run' = [run EXCEPT ![p] = to],
         doomed' \subseteq Prompt, expired' \subseteq Prompt,
         state' \in States, done' \in BOOLEAN,
         UNCHANGED <<recorded, active, lock, conns, call, env>>
  PROVE  IInv'
  <1>1. TypeOK'
    BY DEF IInv, TypeOK, Places, conns, env
  <1>2. Claims'
    BY DEF IInv, Claims, conns
  <1>3. Exclusion'
    <2>1. \A q \in Prompt : Live(q)' => Live(q)
      BY DEF IInv, TypeOK, Live
    <2>2. TaskLive' => TaskLive
      BY <2>1 DEF IInv, TypeOK, TaskLive
    <2>. QED
      BY <2>1, <2>2 DEF IInv, Exclusion, conns
  <1>. QED
    BY <1>1, <1>2, <1>3 DEF IInv

LEMMA RunsStep ==
  ASSUME IInv, NEW p \in Prompt, NEW from, NEW to \in Places,
         "none" \notin from, "done" \notin from,
         Runs(p, from, to), state' \in States, done' \in BOOLEAN
  PROVE  IInv'
  <1>1. Live(p)
    BY DEF Runs, Live
  <1>. QED
    BY <1>1, TaskMove DEF IInv, TypeOK, Runs

LEMMA EndsStep ==
  ASSUME IInv, NEW p \in Prompt, Die(p) \/ Expire(p)
  PROVE  IInv'
  <1>1. Live(p) /\ run' = [run EXCEPT ![p] = "done"]
    BY DEF Die, Expire, Ends
  <1>2. doomed' \subseteq Prompt /\ expired' \subseteq Prompt
    BY DEF IInv, TypeOK, Die, Expire, Ends
  <1>3. "done" \in Places
    BY DEF Places
  <1>. QED
    BY <1>1, <1>2, <1>3, TaskMove DEF IInv, TypeOK, Die, Expire, Ends, buffer

LEMMA TaskStep ==
  ASSUME IInv, NEW p \in Prompt,
         Advance(p) \/ Emit(p) \/ AskUser(p) \/ Fail(p) \/ Expire(p)
  PROVE  IInv'
  <1>. USE DEF Places, States, Terminal
  <1>0. state \in States /\ done \in BOOLEAN
    BY DEF IInv, TypeOK
  <1>1. CASE Connected(p)
    BY <1>0, <1>1, RunsStep DEF Connected
  <1>2. CASE Answered(p)
    BY <1>0, <1>2, RunsStep DEF Answered
  <1>3. CASE Finish(p)
    BY <1>3, RunsStep DEF Finish
  <1>4. CASE Result(p)
    BY <1>4, RunsStep DEF Result
  <1>5. CASE MarkDone(p)
    BY <1>5, RunsStep DEF MarkDone, MarkedState
  <1>6. CASE ShowError(p)
    BY <1>0, <1>6, RunsStep DEF ShowError
  <1>7. CASE ReportError(p)
    BY <1>7, RunsStep DEF ReportError
  <1>8. CASE End(p)
    BY <1>0, <1>8, RunsStep DEF End
  <1>9. CASE Emit(p)
    BY <1>0, <1>9, RunsStep DEF Emit
  <1>10. CASE AskUser(p)
    BY <1>10, RunsStep DEF AskUser
  <1>11. CASE Fail(p)
    BY <1>0, <1>11, RunsStep DEF Fail
  <1>12. CASE Die(p) \/ Expire(p)
    BY <1>12, EndsStep
  <1>. QED
    BY <1>1, <1>2, <1>3, <1>4, <1>5, <1>6, <1>7, <1>8, <1>9, <1>10, <1>11, <1>12
    DEF Advance

-----------------------------------------------------------------------------
(* cancel_session *)

LEMMA CancelStep ==
  ASSUME IInv, NEW k \in Canceller, CancelMark(k) \/ CancelTask(k)
  PROVE  IInv'
  <1>1. doomed' \subseteq Prompt
    BY DEF IInv, TypeOK, CancelMark, CancelTask, TaskLive, tasks
  <1>2. TypeOK'
    BY <1>1 DEF IInv, TypeOK, CancelMark, CancelTask, buffer, tasks, conns, env,
                States, Terminal
  <1>. QED
    BY <1>2 DEF IInv, Claims, Exclusion, Live, TaskLive, CancelMark, CancelTask,
                buffer, tasks, conns

-----------------------------------------------------------------------------
LEMMA NextIInv == IInv /\ [Next]_vars => IInv'
  <1>. SUFFICES ASSUME IInv, [Next]_vars PROVE IInv'
    OBVIOUS
  <1>1. CASE UNCHANGED vars
    BY <1>1 DEF IInv, TypeOK, Claims, Exclusion, Live, TaskLive, vars
  <1>2. ASSUME NEW c \in Conn,
               \/ \E p \in Prompt : Send(c, p)
               \/ \E m \in Requests : Request(c, m)
               \/ Handle(c) \/ Break(c)
        PROVE IInv'
    BY <1>2, SendStep, RequestStep, HandleStep, BreakStep
  <1>3. ASSUME NEW p \in Prompt,
               Advance(p) \/ Emit(p) \/ AskUser(p) \/ Fail(p) \/ Expire(p)
        PROVE IInv'
    BY <1>3, TaskStep
  <1>4. ASSUME NEW k \in Canceller, CancelMark(k) \/ CancelTask(k) PROVE IInv'
    BY <1>4, CancelStep
  <1>. QED
    BY <1>1, <1>2, <1>3, <1>4 DEF Next

\* The invariant holds of every behaviour of the session.
THEOREM Inductive == Spec => []IInv
  BY InitIInv, NextIInv, PTL DEF Spec

\* Every variable has its type, whatever the numbers of connections, prompts
\* and cancel calls: no handler serves a message it does not hold.
THEOREM TypeCorrect == Spec => []TypeOK
  <1>1. IInv => TypeOK
    BY DEF IInv
  <1>. QED
    BY <1>1, Inductive, PTL

\* A task that has not ended is the one active_tasks names: handle_ws never
\* starts a second one, through any interleaving of its awaits.
THEOREM OneTask == Spec => []ActiveIsLive
  <1>1. IInv => ActiveIsLive
    BY DEF IInv, Exclusion, ActiveIsLive
  <1>. QED
    BY <1>1, Inductive, PTL

\* The chat message of a task that has not ended is in the buffer: handle_ws
\* buffers it under the lock, before create_task.
THEOREM Recorded == Spec => []RecordedBeforeRun
  <1>1. IInv => RecordedBeforeRun
    BY DEF IInv, Exclusion, RecordedBeforeRun
  <1>. QED
    BY <1>1, Inductive, PTL
-----------------------------------------------------------------------------
(* Clients that wait for their answer.  No chat message then comes to a     *)
(* handler that is not in the outer loop, so none interrupts a task; and    *)
(* without cancels and timeouts a task goes through all of its steps.       *)

Patient ==
    /\ Impatient = FALSE /\ Faults = FALSE
    /\ Canceller = {} /\ MaxTimeouts = 0

Quiet(q) == \A i \in DOMAIN q : q[i] \notin Prompt

\* A chat message is the first in the queue of an outer loop, or not there
Waiting(c) ==
    \/ Quiet(inbox[c])
    \/ at[c] = "outer" /\ inbox[c] # <<>> /\ Quiet(Tail(inbox[c]))

Patience ==
    /\ expired = {} /\ doomed = {}
    /\ \A c \in Conn : at[c] \notin {"typed", "interrupt"} /\ Waiting(c)

\* The task that closes has marked the buffer, and nothing unmarks it before the
\* next one is about to begin
Settling ==
    /\ \A p \in Prompt : run[p] = "closing" => done
    /\ active # NoTask /\ ~TaskLive /\ (\A c \in Conn : at[c] \notin Serving) => done

\* What is done to a queue without chat messages leaves it without any
LEMMA QuietQueue ==
  ASSUME NEW q \in Seq(Prompt \cup Requests), Quiet(q)
  PROVE  /\ Quiet(Rotated(q))
         /\ q # <<>> => Quiet(Tail(q)) /\ q[1] \notin Prompt
         /\ \A m \in Requests : Quiet(Append(q, m)) /\ (q # <<>> => Quiet(Append(Tail(q), m)))
  <1>1. q # <<>> => /\ Tail(q) \in Seq(Prompt \cup Requests) /\ Len(Tail(q)) = Len(q) - 1
                    /\ Len(q) \in Nat \ {0} /\ q[1] = Head(q) /\ Head(q) \notin Prompt
                    /\ \A i \in 1 .. Len(q) - 1 : Tail(q)[i] = q[i + 1]
    BY DEF Quiet
  <1>2. q # <<>> => Quiet(Tail(q))
    BY <1>1 DEF Quiet
  <1>3. ASSUME NEW r \in Seq(Prompt \cup Requests), Quiet(r), NEW m, m \notin Prompt
        PROVE  Quiet(Append(r, m))
    BY <1>3 DEF Quiet
  <1>4. Quiet(Rotated(q))
    <2>1. CASE q = <<>>
      BY <2>1 DEF Rotated
    <2>2. CASE q # <<>>
      BY <1>1, <1>2, <1>3, <2>2 DEF Rotated
    <2>. QED
      BY <2>1, <2>2
  <1>5. \A m \in Requests : m \notin Prompt
    BY ConstantsAssumption
  <1>. QED
    BY <1>1, <1>2, <1>3, <1>4, <1>5

\* A handler that is not in the outer loop moves, and leaves its queue quiet
LEMMA QuietMove ==
  ASSUME IInv, Patience, NEW c \in Conn, Quiet(inbox'[c]),
         at'[c] \notin {"typed", "interrupt"},
         \A d \in Conn \ {c} : at'[d] = at[d] /\ inbox'[d] = inbox[d],
         UNCHANGED <<expired, doomed>>
  PROVE  Patience'
  BY DEF Patience, Waiting

LEMMA PatientHandle ==
  ASSUME IInv, Patience, Patient, NEW c \in Conn, Handle(c)
  PROVE  Patience'
  <1>1. /\ inbox \in [Conn -> Seq(Prompt \cup Requests)] /\ inbox[c] \in Seq(Prompt \cup Requests)
        /\ DOMAIN at = Conn
    BY DEF IInv, TypeOK
  <1>2. at[c] # "outer" => Quiet(inbox[c])
    BY DEF Patience, Waiting
  <1>3. ~\E p \in Prompt : Typed(c, p) \/ PutBack(c, p)
    BY <1>1, <1>2, QuietQueue DEF Typed, PutBack, Hears, Next1
  <1>4. ~RecordTyped(c) /\ ~CancelOld(c)
    BY DEF Patience, RecordTyped, CancelOld
  <1>5. ASSUME NEW p \in Prompt, TakePrompt(c, p) PROVE Patience'
    <2>1. inbox[c] # <<>> /\ Quiet(Tail(inbox[c]))
      BY <1>1, <1>5, QuietQueue DEF TakePrompt, Next1, Patience, Waiting
    <2>. QED
      BY <1>1, <1>5, <2>1, QuietMove DEF TakePrompt, Goes, tasks
  <1>6. ASSUME NEW m \in Requests, TakeRequest(c, m) PROVE Patience'
    <2>1. inbox[c] # <<>> /\ Quiet(Tail(inbox[c]))
      BY <1>1, <1>6, QuietQueue DEF TakeRequest, Next1, Patience, Waiting
    <2>2. m \notin {"typed", "interrupt"}
      BY ConstantsAssumption
    <2>. QED
      BY <1>1, <1>6, <2>1, <2>2, QuietMove DEF TakeRequest, Goes, tasks
  <1>7. ASSUME NEW m \in Requests, Ignore(c, m) PROVE Patience'
    <2>1. Quiet(inbox[c]) /\ inbox[c] # <<>>
      BY <1>2, <1>7 DEF Ignore, Hears, Next1
    <2>2. Quiet(Tail(inbox[c])) /\ Quiet(Append(Tail(inbox[c]), m))
      BY <1>1, <2>1, QuietQueue
    <2>3. at'[c] \in {"subscribed", "recover", "resume", "outer"}
      BY <1>1, <1>7 DEF Ignore, Goes
    <2>4. Quiet(inbox'[c]) /\ \A d \in Conn \ {c} : at'[d] = at[d] /\ inbox'[d] = inbox[d]
      BY <1>1, <1>7, <2>2 DEF Ignore, Goes
    <2>. QED
      BY <1>7, <2>3, <2>4, QuietMove DEF Ignore, tasks
  <1>8. CASE Closed(c)
    <2>1. Quiet(Tail(inbox[c]))
      BY <1>1, <1>2, <1>8, QuietQueue DEF Closed, Hears, Next1
    <2>. QED
      BY <1>1, <1>8, <2>1, QuietMove DEF Closed, Goes, tasks
  <1>9. CASE Part(c) \/ Wake(c)
    <2>1. Quiet(Rotated(inbox[c])) /\ at[c] \notin {"typed", "interrupt"}
      BY <1>1, <1>2, <1>9, QuietQueue DEF Part, Wake, Watching, Patience
    <2>. QED
      BY <1>1, <1>9, <2>1, QuietMove DEF Part, Wake, Goes, tasks
  <1>10. CASE \/ Reuse(c) \/ Acquire(c) \/ Begin(c) \/ RecordUser(c) \/ Announce(c) \/ Create(c)
              \/ Pull(c) \/ CheckDone(c) \/ Left(c) \/ FindOrphan(c) \/ MarkOrphan(c)
    <2>1. at[c] # "outer" /\ inbox' = inbox /\ UNCHANGED <<expired, doomed>>
      BY <1>10 DEF Reuse, Acquire, Begin, RecordUser, Announce, Create, Pull, CheckDone, Left,
                   FindOrphan, MarkOrphan, tasks, Watching
    <2>2. /\ at'[c] \notin {"typed", "interrupt"}
          /\ \A d \in Conn \ {c} : at'[d] = at[d]
      BY <1>1, <1>10 DEF Reuse, Acquire, Begin, RecordUser, Announce, Create, Pull, CheckDone,
                   Left, FindOrphan, MarkOrphan, SetRunning, Goes, Watching, Patience
    <2>. QED
      BY <1>2, <2>1, <2>2, QuietMove
  <1>. QED
    BY <1>3, <1>4, <1>5, <1>6, <1>7, <1>8, <1>9, <1>10 DEF Handle, Patience

LEMMA PatientStep == IInv /\ Patience /\ Patient /\ [Next]_vars => Patience'
  <1>. SUFFICES ASSUME IInv, Patience, Patient, [Next]_vars PROVE Patience'
    OBVIOUS
  <1>1. inbox \in [Conn -> Seq(Prompt \cup Requests)]
    BY DEF IInv, TypeOK
  <1>2. ASSUME NEW c \in Conn, NEW p \in Prompt, Send(c, p) PROVE Patience'
    <2>1. at' = at /\ at[c] = "outer" /\ inbox[c] = <<>> /\ UNCHANGED <<expired, doomed>>
      BY <1>2 DEF Send, Patient, conns, tasks
    <2>2. inbox' = [inbox EXCEPT ![c] = <<p>>]
      BY <1>2, <2>1 DEF Send
    <2>3. inbox'[c] # <<>> /\ Quiet(Tail(inbox'[c]))
      <3>1. Tail(<<p>>) = <<>> /\ inbox'[c] = <<p>>
        BY <1>1, <2>2
      <3>. QED
        BY <3>1 DEF Quiet
    <2>. QED
      BY <1>1, <2>1, <2>2, <2>3 DEF Patience, Waiting
  <1>3. ASSUME NEW c \in Conn, NEW m \in Requests, Request(c, m) PROVE Patience'
    <2>1. inbox' = [inbox EXCEPT ![c] = Append(@, m)] /\ UNCHANGED <<at, expired, doomed>>
      BY <1>3 DEF Request, tasks
    <2>2. inbox[c] \in Seq(Prompt \cup Requests) /\ inbox'[c] = Append(inbox[c], m)
      BY <1>1, <2>1
    <2>3. CASE Quiet(inbox[c])
      BY <2>1, <2>2, <2>3, <1>1, QuietQueue DEF Patience, Waiting
    <2>4. CASE at[c] = "outer" /\ inbox[c] # <<>> /\ Quiet(Tail(inbox[c]))
      <3>1. Tail(inbox'[c]) = Append(Tail(inbox[c]), m) /\ inbox'[c] # <<>>
        BY <2>2, <2>4
      <3>2. Quiet(Tail(inbox'[c]))
        <4>1. Tail(inbox[c]) \in Seq(Prompt \cup Requests)
          BY <2>2, <2>4
        <4>. QED
          BY <2>4, <3>1, <4>1, QuietQueue
      <3>. QED
        BY <1>1, <2>1, <2>4, <3>1, <3>2 DEF Patience, Waiting
    <2>. QED
      BY <2>3, <2>4 DEF Patience, Waiting
  <1>4. ASSUME NEW p \in Prompt, \/ Advance(p) \/ Emit(p) \/ AskUser(p) \/ Fail(p) \/ Expire(p)
        PROVE  Patience'
    <2>1. ~Expire(p) /\ ~Die(p)
      BY FS_EmptySet DEF Patience, Patient, Expire, Die
    <2>2. UNCHANGED <<at, inbox, expired, doomed>>
      BY <1>4, <2>1 DEF Advance, Emit, AskUser, Fail, Connected, Answered, Finish, Result,
                        MarkDone, ShowError, ReportError, End, Runs, conns
    <2>. QED
      BY <2>2 DEF Patience, Waiting
  <1>5. CASE UNCHANGED vars
    BY <1>5 DEF vars, Patience, Waiting
  <1>. QED
    BY <1>2, <1>3, <1>4, <1>5, PatientHandle DEF Next, Patient, Break

LEMMA SettlingStep ==
  IInv /\ Patience /\ Patient /\ Settling /\ [Next]_vars => Settling'
  <1>. SUFFICES ASSUME IInv, Patience, Patient, Settling, [Next]_vars PROVE Settling'
    OBVIOUS
  <1>1. \A p \in Prompt : Live(p) => active = p /\ TaskLive
    BY ConstantsAssumption DEF IInv, Exclusion, TaskLive
  <1>2. /\ at \in [Conn -> {"outer", "lock", "recover", "lost", "typed", "interrupt",
                            "parting", "leaving", "orphan", "closed"} \cup Serving \cup Watching]
        /\ active \in Prompt \cup {NoTask} /\ DOMAIN run = Prompt
    BY DEF IInv, TypeOK
  <1>3. ASSUME UNCHANGED <<run, active>>, done => done',
               \A c \in Conn : at[c] \in Serving => at'[c] \in Serving
        PROVE  Settling'
    BY <1>3 DEF Settling, TaskLive, Live
  <1>4. ASSUME NEW c \in Conn, at'[c] \in Serving, ~TaskLive, UNCHANGED <<run, active>>
        PROVE  Settling'
    BY <1>1, <1>4 DEF Settling, TaskLive, Live
  <1>5. ASSUME NEW c \in Conn, Handle(c) PROVE Settling'
    <2>1. CASE Acquire(c)
      BY <1>2, <1>4, <2>1 DEF Acquire, SetRunning, Goes, Serving, tasks
    <2>2. CASE Begin(c) \/ RecordUser(c) \/ Announce(c)
      <3>1. ~TaskLive
        BY ConstantsAssumption, <2>2 DEF IInv, Exclusion, Serving, Begin, RecordUser, Announce
      <3>. QED
        BY <1>2, <1>4, <2>2, <3>1 DEF Begin, RecordUser, Announce, SetRunning, Goes, Serving,
                                      tasks
    <2>3. CASE Create(c)
      <3>1. ~TaskLive /\ prompt[c] \in Prompt
        BY ConstantsAssumption, <2>3 DEF IInv, Exclusion, Claims, Claimed, Serving, Create
      <3>2. active' = prompt[c] /\ run' = [run EXCEPT ![prompt[c]] = "start"]
        BY <2>3 DEF Create
      <3>3. TaskLive' /\ \A p \in Prompt : run'[p] # "closing"
        <4>1. \A p \in Prompt : ~Live(p)
          BY <1>1, <3>1
        <4>. QED
          BY ConstantsAssumption, <1>2, <3>1, <3>2, <4>1 DEF TaskLive, Live
      <3>. QED
        BY <3>3 DEF Settling
    <2>4. CASE \/ \E p \in Prompt : TakePrompt(c, p)
               \/ \E m \in Requests : TakeRequest(c, m) \/ Ignore(c, m)
               \/ Closed(c) \/ Reuse(c) \/ Part(c) \/ Pull(c) \/ CheckDone(c) \/ Wake(c)
               \/ Left(c) \/ FindOrphan(c) \/ MarkOrphan(c)
      <3>1. at[c] \notin Serving /\ UNCHANGED <<run, active>> /\ (done => done')
        BY <2>4 DEF TakePrompt, TakeRequest, Ignore, Closed, Reuse, Part, Pull, CheckDone, Wake,
                    Left, FindOrphan, MarkOrphan, Serving, Watching, tasks, buffer
      <3>2. \A d \in Conn \ {c} : at'[d] = at[d]
        BY <1>2, <2>4 DEF TakePrompt, TakeRequest, Ignore, Closed, Reuse, Part, Pull, CheckDone,
                    Wake, Left, FindOrphan, MarkOrphan, Goes
      <3>. QED
        BY <1>3, <3>1, <3>2
    <2>5. ~RecordTyped(c) /\ ~CancelOld(c)
      BY DEF Patience, RecordTyped, CancelOld
    <2>6. ~\E p \in Prompt : Typed(c, p) \/ PutBack(c, p)
      <3>1. at[c] # "outer" => Quiet(inbox[c])
        BY DEF Patience, Waiting
      <3>2. inbox[c] \in Seq(Prompt \cup Requests)
        BY DEF IInv, TypeOK
      <3>. QED
        BY <3>1, <3>2, QuietQueue DEF Typed, PutBack, Hears, Next1
    <2>. QED
      BY <1>5, <2>1, <2>2, <2>3, <2>4, <2>5, <2>6 DEF Handle
  <1>6. ASSUME NEW p \in Prompt, \/ Advance(p) \/ Emit(p) \/ AskUser(p) \/ Fail(p) \/ Expire(p)
        PROVE  Settling'
    <2>1. ~Expire(p) /\ ~Die(p)
      BY FS_EmptySet DEF Patience, Patient, Expire, Die
    <2>2. ASSUME NEW from, NEW to, "none" \notin from, "done" \notin from, Runs(p, from, to),
                 to = "closing" => done' = TRUE, to \notin {"none", "done"}
          PROVE  Settling'
      <3>1. active' = active /\ at' = at /\ run' = [run EXCEPT ![p] = to]
        BY <2>2 DEF Runs, conns
      <3>2. Live(p) /\ active = p
        BY <1>1, <2>2 DEF Runs, Live
      <3>3. \A q \in Prompt \ {p} : ~Live(q) /\ run'[q] = run[q]
        BY <1>1, <3>1, <3>2
      <3>4. run'[p] = to
        BY <1>2, <3>1
      <3>5. TaskLive'
        BY ConstantsAssumption, <2>2, <3>1, <3>2, <3>4 DEF TaskLive, Live
      <3>6. ASSUME NEW q \in Prompt, run'[q] = "closing" PROVE done'
        <4>1. q = p
          BY <3>3, <3>6 DEF Live
        <4>. QED
          BY <2>2, <3>4, <3>6, <4>1
      <3>. QED
        BY <3>5, <3>6 DEF Settling
    <2>3. CASE \/ Connected(p) \/ Answered(p) \/ Finish(p) \/ Result(p) \/ ShowError(p)
               \/ ReportError(p) \/ Emit(p) \/ AskUser(p) \/ Fail(p)
      <3>1. PICK from \in {{"start"}, {"work"}, {"ask"}, {"completed"}, {"failing"}, {"reported"},
                           {"start", "work", "ask", "completed", "title"}},
                 to \in {"work", "completed", "title", "reported", "failed", "ask", "failing"} :
                     Runs(p, from, to)
        BY <2>3 DEF Connected, Answered, Finish, Result, ShowError, ReportError, Emit, AskUser,
                    Fail
      <3>. QED
        BY <2>2, <3>1
    <2>mark. CASE MarkDone(p)
      BY <2>2, <2>mark DEF MarkDone
    <2>4. CASE End(p)
      BY <1>2, <2>4 DEF End, Runs, Settling, conns
    <2>. QED
      BY <1>6, <2>1, <2>3, <2>mark, <2>4 DEF Advance
  <1>7. ASSUME NEW c \in Conn,
               (\E p \in Prompt : Send(c, p)) \/ (\E m \in Requests : Request(c, m))
        PROVE  Settling'
    BY <1>3, <1>7 DEF Send, Request, tasks, buffer
  <1>8. CASE UNCHANGED vars
    BY <1>8 DEF vars, Settling, TaskLive, Live
  <1>. QED
    BY <1>5, <1>6, <1>7, <1>8 DEF Next, Patient, Break

\* With clients that wait for their answer, and without cancels, timeouts and failing
\* writes: when no task is left and no handler is about to start one, the buffer says done,
\* for any number of connections, chat messages, reconnects and failures of agents.
THEOREM NobodyWaits ==
  ASSUME Patient
  PROVE  Spec => []SettledDone
  <1>1. Init => Patience /\ Settling
    BY DEF Init, Patience, Settling, Waiting, Quiet
  <1>2. ASSUME IInv, Settling PROVE SettledDone
    <2>1. active = NoTask \/ active \in Prompt
      BY <1>2 DEF IInv, TypeOK
    <2>. QED
      BY <1>2, <2>1 DEF Settling, SettledDone, TaskLive, Serving, Watching
  <1>. QED
    BY <1>1, <1>2, Inductive, PatientStep, SettlingStep, PTL DEF Spec
=============================================================================
