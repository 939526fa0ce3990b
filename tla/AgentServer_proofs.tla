------------------------- MODULE AgentServer_proofs -------------------------
(***************************************************************************)
(* A run gets its own events and an end of them, and no thread outlives    *)
(* its connection, for any number of runs, cancels and lines.              *)
(***************************************************************************)
EXTENDS AgentServer, TLAPS

Runner == [at : Threads, cancel : BOOLEAN, ready : BOOLEAN, prompt : Nat,
           shutdown : BOOLEAN, cli : BOOLEAN, lines : Nat]
Serve  == [at : {"outer", "inner", "ending", "closed"}, run : Nat, runner : Nat,
           late : BOOLEAN]

\* A connection has one runner alive at most, the one agent_ws holds: it makes
\* another only when the thread of the last has ended
OneAlive == \A r \in Run : thread[r].at \notin {"unborn", "dead"} => serve.runner = r

\* When agent_ws has left, it has told that one to end, and nobody takes it back
Told ==
    serve.at = "closed" =>
        \A r \in Run : thread[r].at \notin {"unborn", "dead"} =>
            thread[r].cancel /\ thread[r].shutdown

IInv ==
    /\ thread \in [Run -> Runner]
    /\ serve \in Serve
    /\ OneAlive
    /\ Told

LEMMA RunNat == \A r \in Run : r \in Nat /\ r # None
  BY DEF Run, None

LEMMA InitIInv == Init => IInv
<1> SUFFICES ASSUME Init PROVE IInv
  OBVIOUS
<1>1. Unborn \in Runner /\ Unborn.at = "unborn"
  BY DEF Unborn, Runner, Threads, None
<1>2. thread \in [Run -> Runner] /\ \A r \in Run : thread[r].at = "unborn"
  BY <1>1 DEF Init
<1>3. serve \in Serve /\ serve.at = "outer"
  BY DEF Init, Serve, None
<1> QED
  BY <1>2, <1>3 DEF IInv, OneAlive, Told

\* A step of one runner's thread, which changes neither flag
LEMMA ThreadStep ==
    ASSUME IInv, NEW r \in Run,
           thread[r].at \notin {"unborn", "dead"}, serve' = serve,
           thread' \in [Run -> Runner],
           \A q \in Run \ {r} : thread'[q] = thread[q],
           thread'[r].cancel = thread[r].cancel,
           thread'[r].shutdown = thread[r].shutdown
    PROVE  IInv'
<1>1. OneAlive'
  BY DEF IInv, OneAlive
<1>2. Told'
  BY DEF IInv, Told
<1> QED
  BY <1>1, <1>2 DEF IInv

LEMMA ThreadSteps ==
    ASSUME IInv, NEW r \in Run,
           \/ Initialized(r) \/ CancelledAtStart(r) \/ TakePrompt(r) \/ Check(r)
           \/ ReadLine(r) \/ AnswerHook(r) \/ ReadResult(r) \/ ReadEnd(r) \/ Finish(r)
           \/ Fail(r) \/ Die(r)
    PROVE  IInv'
<1> USE DEF Runner, Threads, Turn
<1>1. thread \in [Run -> Runner]
  BY DEF IInv
<1>2. CASE Initialized(r)
  <2>1. thread' \in [Run -> Runner]
    BY <1>1, <1>2, ZenonT(30) DEF Initialized
  <2>2. /\ \A q \in Run \ {r} : thread'[q] = thread[q]
        /\ thread'[r].cancel = thread[r].cancel
        /\ thread'[r].shutdown = thread[r].shutdown
    BY <1>1, <1>2 DEF Initialized
  <2>3. thread[r].at \notin {"unborn", "dead"} /\ serve' = serve
    BY <1>2 DEF Initialized
  <2> QED
    BY <2>1, <2>2, <2>3, ThreadStep
<1>3. CASE CancelledAtStart(r)
  <2>1. thread' \in [Run -> Runner]
    BY <1>1, <1>3, ZenonT(30) DEF CancelledAtStart
  <2>2. /\ \A q \in Run \ {r} : thread'[q] = thread[q]
        /\ thread'[r].cancel = thread[r].cancel
        /\ thread'[r].shutdown = thread[r].shutdown
    BY <1>1, <1>3 DEF CancelledAtStart
  <2>3. thread[r].at \notin {"unborn", "dead"} /\ serve' = serve
    BY <1>3 DEF CancelledAtStart
  <2> QED
    BY <2>1, <2>2, <2>3, ThreadStep
<1>4. CASE TakePrompt(r)
  <2>1. thread' \in [Run -> Runner]
    BY <1>1, <1>4 DEF TakePrompt
  <2>2. /\ \A q \in Run \ {r} : thread'[q] = thread[q]
        /\ thread'[r].cancel = thread[r].cancel
        /\ thread'[r].shutdown = thread[r].shutdown
    BY <1>1, <1>4 DEF TakePrompt
  <2>3. thread[r].at \notin {"unborn", "dead"} /\ serve' = serve
    BY <1>4 DEF TakePrompt
  <2> QED
    BY <2>1, <2>2, <2>3, ThreadStep
<1>5. CASE Check(r)
  <2>1. thread' \in [Run -> Runner]
    BY <1>1, <1>5, ZenonT(30) DEF Check
  <2>2. /\ \A q \in Run \ {r} : thread'[q] = thread[q]
        /\ thread'[r].cancel = thread[r].cancel
        /\ thread'[r].shutdown = thread[r].shutdown
    BY <1>1, <1>5 DEF Check
  <2>3. thread[r].at \notin {"unborn", "dead"} /\ serve' = serve
    BY <1>5 DEF Check
  <2> QED
    BY <2>1, <2>2, <2>3, ThreadStep
<1>6. CASE ReadLine(r)
  <2>1. thread' \in [Run -> Runner]
    BY <1>1, <1>6 DEF ReadLine
  <2>2. /\ \A q \in Run \ {r} : thread'[q] = thread[q]
        /\ thread'[r].cancel = thread[r].cancel
        /\ thread'[r].shutdown = thread[r].shutdown
    BY <1>1, <1>6 DEF ReadLine
  <2>3. thread[r].at \notin {"unborn", "dead"} /\ serve' = serve
    BY <1>6 DEF ReadLine
  <2> QED
    BY <2>1, <2>2, <2>3, ThreadStep
<1>7. CASE AnswerHook(r)
  <2>1. thread' \in [Run -> Runner]
    BY <1>1, <1>7 DEF AnswerHook
  <2>2. /\ \A q \in Run \ {r} : thread'[q] = thread[q]
        /\ thread'[r].cancel = thread[r].cancel
        /\ thread'[r].shutdown = thread[r].shutdown
    BY <1>1, <1>7 DEF AnswerHook
  <2>3. thread[r].at \notin {"unborn", "dead"} /\ serve' = serve
    BY <1>7 DEF AnswerHook
  <2> QED
    BY <2>1, <2>2, <2>3, ThreadStep
<1>8. CASE ReadResult(r)
  <2>1. thread' \in [Run -> Runner]
    BY <1>1, <1>8, ZenonT(30) DEF ReadResult
  <2>2. /\ \A q \in Run \ {r} : thread'[q] = thread[q]
        /\ thread'[r].cancel = thread[r].cancel
        /\ thread'[r].shutdown = thread[r].shutdown
    BY <1>1, <1>8 DEF ReadResult
  <2>3. thread[r].at \notin {"unborn", "dead"} /\ serve' = serve
    BY <1>8 DEF ReadResult
  <2> QED
    BY <2>1, <2>2, <2>3, ThreadStep
<1>9. CASE ReadEnd(r)
  <2>1. thread' \in [Run -> Runner]
    BY <1>1, <1>9, ZenonT(30) DEF ReadEnd
  <2>2. /\ \A q \in Run \ {r} : thread'[q] = thread[q]
        /\ thread'[r].cancel = thread[r].cancel
        /\ thread'[r].shutdown = thread[r].shutdown
    BY <1>1, <1>9 DEF ReadEnd
  <2>3. thread[r].at \notin {"unborn", "dead"} /\ serve' = serve
    BY <1>9 DEF ReadEnd
  <2> QED
    BY <2>1, <2>2, <2>3, ThreadStep
<1>10. CASE Finish(r)
  <2>1. thread' \in [Run -> Runner]
    BY <1>1, <1>10, ZenonT(30) DEF Finish
  <2>2. /\ \A q \in Run \ {r} : thread'[q] = thread[q]
        /\ thread'[r].cancel = thread[r].cancel
        /\ thread'[r].shutdown = thread[r].shutdown
    BY <1>1, <1>10 DEF Finish
  <2>3. thread[r].at \notin {"unborn", "dead"} /\ serve' = serve
    BY <1>10 DEF Finish
  <2> QED
    BY <2>1, <2>2, <2>3, ThreadStep
<1>11. CASE Fail(r)
  <2>1. thread' \in [Run -> Runner]
    BY <1>1, <1>11, ZenonT(30) DEF Fail
  <2>2. /\ \A q \in Run \ {r} : thread'[q] = thread[q]
        /\ thread'[r].cancel = thread[r].cancel
        /\ thread'[r].shutdown = thread[r].shutdown
    BY <1>1, <1>11 DEF Fail
  <2>3. thread[r].at \notin {"unborn", "dead"} /\ serve' = serve
    BY <1>11 DEF Fail
  <2> QED
    BY <2>1, <2>2, <2>3, ThreadStep
<1>12. CASE Die(r)
  <2>1. thread' \in [Run -> Runner]
    BY <1>1, <1>12, ZenonT(30) DEF Die
  <2>2. /\ \A q \in Run \ {r} : thread'[q] = thread[q]
        /\ thread'[r].cancel = thread[r].cancel
        /\ thread'[r].shutdown = thread[r].shutdown
    BY <1>1, <1>12 DEF Die
  <2>3. thread[r].at \notin {"unborn", "dead"} /\ serve' = serve
    BY <1>12 DEF Die
  <2> QED
    BY <2>1, <2>2, <2>3, ThreadStep
<1> QED
  BY <1>2, <1>3, <1>4, <1>5, <1>6, <1>7, <1>8, <1>9, <1>10, <1>11, <1>12

-----------------------------------------------------------------------------
(* The connection. *)

\* A run: with no runner alive there is nobody else to answer it
LEMMA AcceptStep == IInv /\ Accept => IInv'
<1> SUFFICES ASSUME IInv, Accept PROVE IInv'
  OBVIOUS
<1> DEFINE n == serve.run + 1
           r == IF CanReuse(serve.runner) THEN serve.runner ELSE n
<1>1. n \in Nat /\ r \in Nat /\ serve.runner \in Nat
  BY DEF IInv, Serve
<1>2. serve' = [at |-> "inner", run |-> n, runner |-> r,
                late |-> r # n /\ thread[r].at = "dying"]
  BY DEF Accept
<1>3. serve' \in Serve /\ serve'.at = "inner" /\ serve'.runner = r
  BY <1>1, <1>2 DEF Serve
<1>4. thread' = [thread EXCEPT ![r] =
                    Prompted(IF r = n THEN [Unborn EXCEPT !.at = "starting"] ELSE @, n)]
  BY DEF Accept
<1>5. thread' \in [Run -> Runner]
  <2>1. [Unborn EXCEPT !.at = "starting"] \in Runner
    BY DEF Unborn, Runner, Threads, None
  <2>2. \A t \in Runner : Prompted(t, n) \in Runner
    BY <1>1 DEF Prompted, Runner
  <2>3. thread \in [Run -> Runner]
    BY DEF IInv
  <2> QED
    BY <1>4, <2>1, <2>2, <2>3
<1>6. \A q \in Run : q # r => thread'[q].at = thread[q].at
  BY <1>4 DEF IInv
<1>7. \A q \in Run : thread[q].at \notin {"unborn", "dead"} => r = q
  <2> SUFFICES ASSUME NEW q \in Run, thread[q].at \notin {"unborn", "dead"} PROVE r = q
    OBVIOUS
  <2>1. serve.runner = q
    BY DEF IInv, OneAlive
  <2>2. CanReuse(serve.runner)
    BY <2>1, RunNat DEF CanReuse, Alive
  <2> QED
    BY <2>1, <2>2
<1>8. OneAlive'
  BY <1>3, <1>6, <1>7 DEF OneAlive
<1>9. Told'
  BY <1>3 DEF Told
<1> QED
  BY <1>3, <1>5, <1>8, <1>9 DEF IInv

\* A cancel only sets the flag
LEMMA CancelStep ==
    ASSUME IInv, NEW r,
           thread' = [thread EXCEPT ![r].cancel = TRUE],
           serve' \in Serve, serve'.runner = serve.runner,
           serve'.at = "closed" => serve.at = "closed"
    PROVE  IInv'
<1>1. thread \in [Run -> Runner]
  BY DEF IInv
<1>2. thread' \in [Run -> Runner]
  BY <1>1 DEF Runner
<1>3. \A q \in Run : /\ thread'[q].at = thread[q].at
                     /\ thread'[q].shutdown = thread[q].shutdown
                     /\ thread[q].cancel => thread'[q].cancel
  BY <1>1 DEF Runner
<1>4. OneAlive'
  BY <1>3 DEF IInv, OneAlive
<1>5. Told'
  BY <1>3 DEF IInv, Told
<1> QED
  BY <1>2, <1>4, <1>5 DEF IInv

\* Nothing happens to the threads, and agent_ws does not leave
LEMMA QuietStep ==
    ASSUME IInv, thread' = thread, serve' \in Serve,
           \A q \in Run : serve.runner = q /\ thread[q].at \notin {"unborn", "dead"}
               => serve'.runner = q,
           serve'.at = "closed" => serve.at = "closed"
    PROVE  IInv'
<1>1. OneAlive'
  BY DEF IInv, OneAlive
<1>2. Told'
  BY DEF IInv, Told
<1> QED
  BY <1>1, <1>2 DEF IInv

LEMMA RunOverStep == IInv /\ RunOver => IInv'
<1> SUFFICES ASSUME IInv, RunOver PROVE IInv'
  OBVIOUS
<1>1. serve' = [serve EXCEPT !.at = "outer",
                             !.runner = IF Alive(serve.runner) THEN serve.runner ELSE None]
  BY DEF RunOver, IInv, Serve
<1>2. serve'.at = "outer"
      /\ serve'.runner = (IF Alive(serve.runner) THEN serve.runner ELSE None)
  BY <1>1 DEF IInv, Serve
<1>3. serve' \in Serve
  <2>1. (IF Alive(serve.runner) THEN serve.runner ELSE None) \in Nat
    BY DEF IInv, Serve, None
  <2> HIDE DEF Alive, None
  <2> QED
    BY <1>1, <2>1 DEF IInv, Serve
<1>4. \A q \in Run : serve.runner = q /\ thread[q].at \notin {"unborn", "dead"}
          => serve'.runner = q
  BY <1>2, RunNat DEF Alive
<1> QED
  BY <1>2, <1>3, <1>4, QuietStep DEF RunOver

\* The end of the connection: the one thread that is alive is told
LEMMA CloseStep == IInv /\ Close => IInv'
<1> SUFFICES ASSUME IInv, Close PROVE IInv'
  OBVIOUS
<1> DEFINE r == serve.runner
<1>1. thread \in [Run -> Runner] /\ thread' = Closed(r)
  BY DEF IInv, Close
<1>2. serve' \in Serve /\ serve'.runner = r
  BY DEF IInv, Close, Serve
<1>3. CASE Alive(r)
  <2> DEFINE a == [thread EXCEPT ![r].shutdown = TRUE]
             b == [a EXCEPT ![r].cancel = TRUE]
             c == [b EXCEPT ![r].ready = TRUE]
             Same(f, g) == \A q \in Run : /\ g[q].at = f[q].at
                                          /\ f[q].cancel => g[q].cancel
                                          /\ f[q].shutdown => g[q].shutdown
  <2>1. thread' = c
    BY <1>1, <1>3 DEF Closed
  <2>2. a \in [Run -> Runner] /\ Same(thread, a) /\ (r \in Run => a[r].shutdown)
    BY <1>1 DEF Runner
  <2>3. ASSUME NEW f \in [Run -> Runner]
        PROVE  LET g == [f EXCEPT ![r].cancel = TRUE]
               IN  g \in [Run -> Runner] /\ Same(f, g) /\ (r \in Run => g[r].cancel)
    BY DEF Runner
  <2>4. ASSUME NEW f \in [Run -> Runner]
        PROVE  LET g == [f EXCEPT ![r].ready = TRUE]
               IN  g \in [Run -> Runner] /\ Same(f, g)
    BY DEF Runner
  <2>5. b \in [Run -> Runner] /\ Same(a, b) /\ (r \in Run => b[r].cancel)
    <3> HIDE DEF a
    <3> QED
      BY <2>2, <2>3
  <2>6. c \in [Run -> Runner] /\ Same(b, c)
    <3> HIDE DEF b
    <3> QED
      BY <2>4, <2>5
  <2>7. thread' \in [Run -> Runner]
    BY <2>1, <2>6
  <2>8. \A q \in Run : /\ thread'[q].at = thread[q].at
                       /\ q = r => thread'[q].cancel /\ thread'[q].shutdown
    <3> HIDE DEF a, b, c
    <3> QED
      BY <2>1, <2>2, <2>5, <2>6
  <2>9. ASSUME NEW q \in Run, thread'[q].at \notin {"unborn", "dead"}
        PROVE  serve'.runner = q /\ thread'[q].cancel /\ thread'[q].shutdown
    <3>1. thread[q].at \notin {"unborn", "dead"}
      BY <2>8, <2>9
    <3>2. serve.runner = q
      BY <3>1 DEF IInv, OneAlive
    <3> QED
      BY <1>2, <2>8, <3>2
  <2> QED
    BY <1>2, <2>7, <2>9 DEF IInv, OneAlive, Told
<1>4. CASE ~Alive(r)
  <2>1. thread' = thread
    BY <1>1, <1>4 DEF Closed
  <2>2. \A q \in Run : thread[q].at \in {"unborn", "dead"}
    BY <1>4, RunNat DEF IInv, OneAlive, Alive
  <2> QED
    BY <1>1, <1>2, <2>1, <2>2 DEF IInv, OneAlive, Told
<1> QED
  BY <1>3, <1>4

LEMMA StepIInv == IInv /\ [Next]_agentVars => IInv'
<1> SUFFICES ASSUME IInv, [Next]_agentVars PROVE IInv'
  OBVIOUS
<1>1. ASSUME UNCHANGED <<thread, serve>> PROVE IInv'
  BY <1>1, QuietStep DEF IInv
<1>2. ASSUME NEW m \in {"run", "cancel"}, HostSends(m) PROVE IInv'
  BY <1>1, <1>2 DEF HostSends
<1>3. CASE HostGoes \/ Pump
  BY <1>1, <1>3 DEF HostGoes, Pump
<1>4. CASE ReadCancel
  <2>1. serve' = serve /\ serve \in Serve
    BY <1>4 DEF ReadCancel, IInv
  <2>2. CASE serve.runner = None
    BY <1>1, <1>4, <2>2 DEF ReadCancel
  <2>3. CASE serve.runner # None
    BY <1>4, <2>1, <2>3, CancelStep DEF ReadCancel
  <2> QED
    BY <2>2, <2>3
<1>5. CASE ReadDuringRun
  <2>1. serve' = serve /\ serve \in Serve
    BY <1>5 DEF ReadDuringRun, IInv
  <2>2. CASE Head(inbox) # "cancel"
    BY <1>1, <1>5, <2>2 DEF ReadDuringRun
  <2>3. CASE Head(inbox) = "cancel"
    BY <1>5, <2>1, <2>3, CancelStep DEF ReadDuringRun
  <2> QED
    BY <2>2, <2>3
<1>6. CASE LostDuringRun
  <2>1. serve' \in Serve /\ serve'.runner = serve.runner /\ serve'.at = "ending"
    BY <1>6 DEF LostDuringRun, IInv, Serve
  <2> QED
    BY <1>6, <2>1, CancelStep DEF LostDuringRun
<1>7. CASE UNCHANGED agentVars
  BY <1>1, <1>7 DEF agentVars
<1> QED
  BY <1>2, <1>3, <1>4, <1>5, <1>6, <1>7,
     AcceptStep, RunOverStep, CloseStep, ThreadSteps DEF Next

-----------------------------------------------------------------------------
(* What the runner's queue holds, and what the pump may wait for. *)

Ev == [kind : Kind, prompt : Nat]

\* A thread with a prompt to take or to work on, and one that will say no more
Busy(t)    == \/ t.at \in {"starting", "waiting"} /\ t.ready
              \/ t.at \in {"checking", "reading", "finishing"}
Resting(t) == \/ t.at \in {"dying", "dead"}
              \/ t.at = "waiting" /\ ~t.ready

\* A queue of events of prompt n, and one that ends with a terminal event
Of(q, n)    == \A i \in 1 .. Len(q) : q[i].prompt = n
EndsLast(q) == \A i \in 1 .. Len(q) : q[i].kind \in Terminal => i = Len(q)
Ended(q)    == q # <<>> /\ q[Len(q)].kind \in Terminal

\* No prompt lies in the slot of a thread at work: only agent_ws puts one there
Slot(t) == t.at \in {"checking", "reading", "finishing"} => ~t.ready

\* The runner of a run whose pump waits, and of a run that is over
Running(t, q, n, late) ==
    /\ t.prompt = n
    /\ Of(q, n) /\ EndsLast(q)
    /\ Slot(t)
    /\ Ended(q) => Resting(t)
    /\ late \/ Ended(q) \/ Busy(t)
Done(t, q) == q = <<>> /\ Resting(t)

QInv ==
    /\ queue \in [Run -> Seq(Ev)]
    /\ OwnEvents
    /\ \A r \in Run : r > serve.run => thread[r].at = "unborn" /\ queue[r] = <<>>
    /\ serve.runner \in Run \cup {None}
    /\ serve.at \in {"inner", "ending"} => serve.runner # None
    /\ pump = "waiting" => serve.at \in {"inner", "ending"}
    /\ serve.at # "closed" /\ serve.runner \in Run =>
           LET r == serve.runner
           IN  IF pump = "waiting"
               THEN Running(thread[r], queue[r], serve.run, serve.late)
               ELSE Done(thread[r], queue[r])

LEMMA Appended ==
    ASSUME NEW q \in Seq(Ev), NEW e \in Ev, NEW n, Of(q, n), EndsLast(q), ~Ended(q),
           e.prompt = n
    PROVE  /\ Append(q, e) \in Seq(Ev)
           /\ Of(Append(q, e), n) /\ EndsLast(Append(q, e))
           /\ Ended(Append(q, e)) <=> e.kind \in Terminal
<1> DEFINE s == Append(q, e)
<1>1. s \in Seq(Ev) /\ Len(s) = Len(q) + 1 /\ Len(q) \in Nat /\ s[Len(s)] = e
  OBVIOUS
<1>2. \A i \in 1 .. Len(q) : s[i] = q[i]
  OBVIOUS
<1>3. \A i \in 1 .. Len(q) : q[i].kind \notin Terminal
  BY DEF EndsLast, Ended
<1>4. Of(s, n)
  BY <1>1, <1>2 DEF Of
<1>5. EndsLast(s)
  BY <1>1, <1>2, <1>3 DEF EndsLast
<1>6. Ended(s) <=> e.kind \in Terminal
  <2>1. s # <<>>
    BY <1>1
  <2> HIDE DEF s
  <2> QED
    BY <1>1, <2>1 DEF Ended
<1> QED
  BY <1>1, <1>4, <1>5, <1>6

LEMMA Taken ==
    ASSUME NEW q \in Seq(Ev), NEW n, q # <<>>, Of(q, n), EndsLast(q)
    PROVE  /\ Head(q) \in Ev /\ Head(q).prompt = n
           /\ Tail(q) \in Seq(Ev) /\ Of(Tail(q), n) /\ EndsLast(Tail(q))
           /\ Head(q).kind \in Terminal => Tail(q) = <<>> /\ Ended(q)
           /\ Head(q).kind \notin Terminal => (Ended(Tail(q)) <=> Ended(q))
<1> DEFINE s == Tail(q)
<1>1. Len(q) \in Nat \ {0} /\ Head(q) = q[1] /\ Head(q) \in Ev
  OBVIOUS
<1>2. s \in Seq(Ev) /\ Len(s) = Len(q) - 1 /\ \A i \in 1 .. Len(s) : s[i] = q[i + 1]
  BY <1>1
<1>3. Head(q).prompt = n
  BY <1>1 DEF Of
<1>9. s = <<>> <=> Len(s) = 0
  BY <1>2
<1>10. Len(s) \in Nat /\ \A i \in 1 .. Len(s) : i + 1 \in 1 .. Len(q)
  BY <1>1, <1>2
<1> HIDE DEF s
<1>4. Of(s, n)
  BY <1>2, <1>10 DEF Of
<1>5. EndsLast(s)
  <2> SUFFICES ASSUME NEW i \in 1 .. Len(s), s[i].kind \in Terminal PROVE i = Len(s)
    BY DEF EndsLast
  <2>1. i + 1 = Len(q)
    BY <1>2, <1>10 DEF EndsLast
  <2> QED
    BY <1>1, <1>2, <2>1
<1>6. ASSUME Head(q).kind \in Terminal PROVE s = <<>> /\ Ended(q)
  <2>1. Len(q) = 1
    <3>1. 1 \in 1 .. Len(q) /\ q[1].kind \in Terminal
      BY <1>1, <1>6
    <3> QED
      BY <3>1 DEF EndsLast
  <2>2. s = <<>>
    BY <1>2, <1>9, <2>1
  <2>3. Ended(q)
    BY <1>1, <1>6, <2>1 DEF Ended
  <2> QED
    BY <2>2, <2>3
<1>7. ASSUME Head(q).kind \notin Terminal PROVE Ended(s) <=> Ended(q)
  <2>1. CASE Len(q) = 1
    <3>1. s = <<>> /\ q[Len(q)].kind \notin Terminal
      BY <1>1, <1>2, <1>7, <1>9, <2>1
    <3> QED
      BY <3>1 DEF Ended
  <2>2. CASE Len(q) # 1
    <3>1. s # <<>> /\ Len(s) \in 1 .. Len(s) /\ Len(s) + 1 = Len(q)
      BY <1>1, <1>2, <1>9, <1>10, <2>2
    <3>2. s[Len(s)] = q[Len(q)]
      BY <1>2, <3>1
    <3> QED
      BY <3>1, <3>2 DEF Ended
  <2> QED
    BY <2>1, <2>2
<1> QED
  BY <1>1, <1>2, <1>3, <1>4, <1>5, <1>6, <1>7 DEF s

LEMMA InitQInv == Init => QInv
<1> SUFFICES ASSUME Init PROVE QInv
  OBVIOUS
<1>1. \A r \in Run : thread[r].at = "unborn" /\ queue[r] = <<>>
  BY DEF Init, Unborn
<1>2. queue \in [Run -> Seq(Ev)]
  BY DEF Init
<1>3. serve.at = "outer" /\ serve.runner = None /\ pump = "none" /\ sent = {}
  BY DEF Init
<1> QED
  BY <1>1, <1>2, <1>3, RunNat DEF QInv, OwnEvents, Done

\* A step of the runner's thread, with an event or without
LEMMA RunnerStep ==
    ASSUME IInv, QInv, NEW r \in Run,
           thread[r].at \notin {"unborn", "dead"}, UNCHANGED <<serve, pump, sent>>,
           queue' \in [Run -> Seq(Ev)],
           \A p \in Run \ {r} : thread'[p] = thread[p] /\ queue'[p] = queue[p],
           Running(thread[r], queue[r], serve.run, serve.late)
               => Running(thread'[r], queue'[r], serve.run, serve.late),
           Done(thread[r], queue[r]) => Done(thread'[r], queue'[r])
    PROVE  QInv'
<1>1. serve.runner = r
  BY DEF IInv, OneAlive
<1>2. \A p \in Run : p > serve.run => thread'[p].at = "unborn" /\ queue'[p] = <<>>
  BY DEF QInv
<1>3. serve.at # "closed" =>
          IF pump = "waiting"
          THEN Running(thread'[r], queue'[r], serve.run, serve.late)
          ELSE Done(thread'[r], queue'[r])
  BY <1>1 DEF QInv
<1> QED
  BY <1>1, <1>2, <1>3 DEF QInv, OwnEvents

\* A step without an event
LEMMA SilentStep ==
    ASSUME IInv, QInv, NEW r \in Run,
           thread[r].at \notin {"unborn", "dead"}, UNCHANGED <<serve, pump, sent, queue>>,
           \A p \in Run \ {r} : thread'[p] = thread[p],
           thread'[r].prompt = thread[r].prompt,
           Busy(thread[r]) => Busy(thread'[r]),
           Resting(thread[r]) => Resting(thread'[r]),
           Slot(thread[r]) => Slot(thread'[r])
    PROVE  QInv'
<1>1. queue' \in [Run -> Seq(Ev)]
  BY DEF QInv
<1>2. Running(thread[r], queue[r], serve.run, serve.late)
          => Running(thread'[r], queue'[r], serve.run, serve.late)
  BY DEF Running
<1>3. Done(thread[r], queue[r]) => Done(thread'[r], queue'[r])
  BY DEF Done
<1> QED
  BY <1>1, <1>2, <1>3, RunnerStep

\* An event: of a thread that is at work, and the last one if it is terminal
LEMMA PutStep ==
    ASSUME IInv, QInv, NEW r \in Run, NEW k \in Kind, Put(r, k),
           thread[r].at \notin {"unborn", "dead"}, ~Resting(thread[r]),
           UNCHANGED <<serve, pump, sent>>,
           \A p \in Run \ {r} : thread'[p] = thread[p],
           thread'[r].prompt = thread[r].prompt,
           Slot(thread[r]) =>
               /\ Slot(thread'[r])
               /\ IF k \in Terminal THEN Resting(thread'[r]) ELSE Busy(thread'[r])
    PROVE  QInv'
<1> DEFINE e == [kind |-> k, prompt |-> thread[r].prompt]
<1>1. e \in Ev /\ e.kind = k /\ e.prompt = thread[r].prompt
  BY DEF IInv, Runner, Ev
<1>2. queue[r] \in Seq(Ev)
  BY DEF QInv
<1>3. queue' = [queue EXCEPT ![r] = Append(queue[r], e)]
  BY DEF Put
<1> HIDE DEF e
<1>4. Append(queue[r], e) \in Seq(Ev)
  BY <1>1, <1>2
<1>5. queue' \in [Run -> Seq(Ev)] /\ queue'[r] = Append(queue[r], e)
      /\ \A p \in Run \ {r} : queue'[p] = queue[p]
  BY <1>3, <1>4 DEF QInv
<1>6. ASSUME Running(thread[r], queue[r], serve.run, serve.late)
      PROVE  Running(thread'[r], queue'[r], serve.run, serve.late)
  <2>1. /\ Of(queue'[r], serve.run) /\ EndsLast(queue'[r])
        /\ Ended(queue'[r]) <=> k \in Terminal
    BY <1>1, <1>2, <1>5, <1>6, Appended DEF Running
  <2> QED
    BY <1>6, <2>1 DEF Running
<1>7. Done(thread[r], queue[r]) => Done(thread'[r], queue'[r])
  BY DEF Done
<1> QED
  BY <1>5, <1>6, <1>7, RunnerStep

LEMMA RunnerSteps ==
    ASSUME IInv, QInv, NEW r \in Run,
           \/ Initialized(r) \/ CancelledAtStart(r) \/ TakePrompt(r) \/ Check(r)
           \/ ReadLine(r) \/ AnswerHook(r) \/ ReadResult(r) \/ ReadEnd(r) \/ Finish(r)
           \/ Fail(r) \/ Die(r)
    PROVE  QInv'
<1> USE DEF Runner, Turn
<1>1. thread \in [Run -> Runner]
  BY DEF IInv
<1>2. {"cancelled", "exception", "done"} \subseteq Terminal /\ Terminal \subseteq Kind
  BY DEF Terminal, Kind
<1>3. {"output", "result"} \subseteq Kind \ Terminal
  BY DEF Terminal, Kind
<1>4. CASE Initialized(r)
  <2>1. /\ thread[r].at \notin {"unborn", "dead"}
        /\ \A p \in Run \ {r} : thread'[p] = thread[p]
        /\ thread'[r].prompt = thread[r].prompt
    BY <1>1, <1>4 DEF Initialized
  <2>2. /\ Busy(thread[r]) => Busy(thread'[r])
        /\ Resting(thread[r]) => Resting(thread'[r])
    BY <1>1, <1>4 DEF Initialized, Busy, Resting
  <2>3. Slot(thread[r]) => Slot(thread'[r])
    BY <1>1, <1>4 DEF Initialized, Slot
  <2>4. UNCHANGED <<serve, pump, sent, queue>>
    BY <1>4 DEF Initialized
  <2> QED
    BY <2>1, <2>2, <2>3, <2>4, SilentStep
<1>5. CASE CancelledAtStart(r)
  <2>1. /\ thread[r].at \notin {"unborn", "dead"}
        /\ \A p \in Run \ {r} : thread'[p] = thread[p]
        /\ thread'[r].prompt = thread[r].prompt
    BY <1>1, <1>5 DEF CancelledAtStart
  <2>2. ~Resting(thread[r])
    BY <1>1, <1>5 DEF CancelledAtStart, Resting
  <2>3. Slot(thread[r]) => Slot(thread'[r]) /\ Resting(thread'[r])
    BY <1>1, <1>5 DEF CancelledAtStart, Slot, Busy, Resting
  <2>4. Put(r, "cancelled") /\ UNCHANGED <<serve, pump, sent>>
    BY <1>5 DEF CancelledAtStart
  <2> QED
    BY <1>2, <1>3, <2>1, <2>2, <2>3, <2>4, PutStep
<1>6. CASE Check(r)
  <2>1. /\ thread[r].at \notin {"unborn", "dead"}
        /\ \A p \in Run \ {r} : thread'[p] = thread[p]
        /\ thread'[r].prompt = thread[r].prompt
    BY <1>1, <1>6 DEF Check
  <2>2. /\ Busy(thread[r]) => Busy(thread'[r])
        /\ Resting(thread[r]) => Resting(thread'[r])
    BY <1>1, <1>6 DEF Check, Busy, Resting
  <2>3. Slot(thread[r]) => Slot(thread'[r])
    BY <1>1, <1>6 DEF Check, Slot
  <2>4. UNCHANGED <<serve, pump, sent, queue>>
    BY <1>6 DEF Check
  <2> QED
    BY <2>1, <2>2, <2>3, <2>4, SilentStep
<1>7. CASE ReadLine(r)
  <2>1. /\ thread[r].at \notin {"unborn", "dead"}
        /\ \A p \in Run \ {r} : thread'[p] = thread[p]
        /\ thread'[r].prompt = thread[r].prompt
    BY <1>1, <1>7 DEF ReadLine
  <2>2. ~Resting(thread[r])
    BY <1>1, <1>7 DEF ReadLine, Resting
  <2>3. Slot(thread[r]) => Slot(thread'[r]) /\ Busy(thread'[r])
    BY <1>1, <1>7 DEF ReadLine, Slot, Busy, Resting
  <2>4. Put(r, "output") /\ UNCHANGED <<serve, pump, sent>>
    BY <1>7 DEF ReadLine
  <2> QED
    BY <1>2, <1>3, <2>1, <2>2, <2>3, <2>4, PutStep
<1>8. CASE AnswerHook(r)
  <2>1. /\ thread[r].at \notin {"unborn", "dead"}
        /\ \A p \in Run \ {r} : thread'[p] = thread[p]
        /\ thread'[r].prompt = thread[r].prompt
    BY <1>1, <1>8 DEF AnswerHook
  <2>2. /\ Busy(thread[r]) => Busy(thread'[r])
        /\ Resting(thread[r]) => Resting(thread'[r])
    BY <1>1, <1>8 DEF AnswerHook, Busy, Resting
  <2>3. Slot(thread[r]) => Slot(thread'[r])
    BY <1>1, <1>8 DEF AnswerHook, Slot
  <2>4. UNCHANGED <<serve, pump, sent, queue>>
    BY <1>8 DEF AnswerHook
  <2> QED
    BY <2>1, <2>2, <2>3, <2>4, SilentStep
<1>9. CASE ReadResult(r)
  <2>1. /\ thread[r].at \notin {"unborn", "dead"}
        /\ \A p \in Run \ {r} : thread'[p] = thread[p]
        /\ thread'[r].prompt = thread[r].prompt
    BY <1>1, <1>9 DEF ReadResult
  <2>2. ~Resting(thread[r])
    BY <1>1, <1>9 DEF ReadResult, Resting
  <2>3. Slot(thread[r]) => Slot(thread'[r]) /\ Busy(thread'[r])
    BY <1>1, <1>9 DEF ReadResult, Slot, Busy, Resting
  <2>4. Put(r, "result") /\ UNCHANGED <<serve, pump, sent>>
    BY <1>9 DEF ReadResult
  <2> QED
    BY <1>2, <1>3, <2>1, <2>2, <2>3, <2>4, PutStep
<1>10. CASE ReadEnd(r)
  <2>1. /\ thread[r].at \notin {"unborn", "dead"}
        /\ \A p \in Run \ {r} : thread'[p] = thread[p]
        /\ thread'[r].prompt = thread[r].prompt
    BY <1>1, <1>10 DEF ReadEnd
  <2>2. /\ Busy(thread[r]) => Busy(thread'[r])
        /\ Resting(thread[r]) => Resting(thread'[r])
    BY <1>1, <1>10 DEF ReadEnd, Busy, Resting
  <2>3. Slot(thread[r]) => Slot(thread'[r])
    BY <1>1, <1>10 DEF ReadEnd, Slot
  <2>4. UNCHANGED <<serve, pump, sent, queue>>
    BY <1>10 DEF ReadEnd
  <2> QED
    BY <2>1, <2>2, <2>3, <2>4, SilentStep
<1>11. CASE Fail(r)
  <2>1. /\ thread[r].at \notin {"unborn", "dead"}
        /\ \A p \in Run \ {r} : thread'[p] = thread[p]
        /\ thread'[r].prompt = thread[r].prompt
    BY <1>1, <1>11 DEF Fail
  <2>2. ~Resting(thread[r])
    BY <1>1, <1>11 DEF Fail, Resting
  <2>3. Slot(thread[r]) => Slot(thread'[r]) /\ Resting(thread'[r])
    BY <1>1, <1>11 DEF Fail, Slot, Busy, Resting
  <2>4. Put(r, "exception") /\ UNCHANGED <<serve, pump, sent>>
    BY <1>11 DEF Fail
  <2> QED
    BY <1>2, <1>3, <2>1, <2>2, <2>3, <2>4, PutStep
<1>12. CASE Die(r)
  <2>1. /\ thread[r].at \notin {"unborn", "dead"}
        /\ \A p \in Run \ {r} : thread'[p] = thread[p]
        /\ thread'[r].prompt = thread[r].prompt
    BY <1>1, <1>12 DEF Die
  <2>2. /\ Busy(thread[r]) => Busy(thread'[r])
        /\ Resting(thread[r]) => Resting(thread'[r])
    BY <1>1, <1>12 DEF Die, Busy, Resting
  <2>3. Slot(thread[r]) => Slot(thread'[r])
    BY <1>1, <1>12 DEF Die, Slot
  <2>4. UNCHANGED <<serve, pump, sent, queue>>
    BY <1>12 DEF Die
  <2> QED
    BY <2>1, <2>2, <2>3, <2>4, SilentStep
<1>13. CASE Finish(r)
  <2>1. CASE thread[r].cancel
    <3>1. /\ thread[r].at \notin {"unborn", "dead"}
          /\ \A p \in Run \ {r} : thread'[p] = thread[p]
          /\ thread'[r].prompt = thread[r].prompt
      BY <1>1, <1>13, <2>1 DEF Finish
    <3>2. ~Resting(thread[r])
      BY <1>1, <1>13, <2>1 DEF Finish, Resting
    <3>3. Slot(thread[r]) => Slot(thread'[r]) /\ Resting(thread'[r])
      BY <1>1, <1>13, <2>1 DEF Finish, Slot, Busy, Resting
    <3>4. Put(r, "cancelled") /\ UNCHANGED <<serve, pump, sent>>
      BY <1>13, <2>1 DEF Finish
    <3> QED
      BY <1>2, <1>3, <3>1, <3>2, <3>3, <3>4, PutStep
  <2>2. CASE ~thread[r].cancel
    <3>1. /\ thread[r].at \notin {"unborn", "dead"}
          /\ \A p \in Run \ {r} : thread'[p] = thread[p]
          /\ thread'[r].prompt = thread[r].prompt
      BY <1>1, <1>13, <2>2 DEF Finish
    <3>2. ~Resting(thread[r])
      BY <1>1, <1>13, <2>2 DEF Finish, Resting
    <3>3. Slot(thread[r]) => Slot(thread'[r]) /\ Resting(thread'[r])
      BY <1>1, <1>13, <2>2 DEF Finish, Slot, Busy, Resting
    <3>4. Put(r, "done") /\ UNCHANGED <<serve, pump, sent>>
      BY <1>13, <2>2 DEF Finish
    <3> QED
      BY <1>2, <1>3, <3>1, <3>2, <3>3, <3>4, PutStep
  <2> QED
    BY <2>1, <2>2
<1>14. CASE TakePrompt(r)
  <2>1. CASE ~thread[r].shutdown
    <3>1. /\ thread[r].at \notin {"unborn", "dead"}
          /\ \A p \in Run \ {r} : thread'[p] = thread[p]
          /\ thread'[r].prompt = thread[r].prompt
      BY <1>1, <1>14, <2>1 DEF TakePrompt
    <3>2. /\ Busy(thread[r]) => Busy(thread'[r])
          /\ Resting(thread[r]) => Resting(thread'[r])
      BY <1>1, <1>14, <2>1 DEF TakePrompt, Busy, Resting
    <3>3. Slot(thread[r]) => Slot(thread'[r])
      BY <1>1, <1>14, <2>1 DEF TakePrompt, Slot
    <3>4. UNCHANGED <<serve, pump, sent, queue>>
      BY <1>14, <2>1 DEF TakePrompt
    <3> QED
      BY <3>1, <3>2, <3>3, <3>4, SilentStep
  <2>2. CASE thread[r].shutdown
    <3>1. /\ thread[r].at \notin {"unborn", "dead"}
          /\ \A p \in Run \ {r} : thread'[p] = thread[p]
          /\ thread'[r].prompt = thread[r].prompt
      BY <1>1, <1>14, <2>2 DEF TakePrompt
    <3>2. ~Resting(thread[r])
      BY <1>1, <1>14, <2>2 DEF TakePrompt, Resting
    <3>3. Slot(thread[r]) => Slot(thread'[r]) /\ Resting(thread'[r])
      BY <1>1, <1>14, <2>2 DEF TakePrompt, Slot, Resting
    <3>4. Put(r, "done") /\ UNCHANGED <<serve, pump, sent>>
      BY <1>14, <2>2 DEF TakePrompt
    <3> QED
      BY <1>2, <1>3, <3>1, <3>2, <3>3, <3>4, PutStep
  <2> QED
    BY <2>1, <2>2
<1> QED
  BY <1>4, <1>5, <1>6, <1>7, <1>8, <1>9, <1>10, <1>11, <1>12, <1>13, <1>14

\* The run of a new runner, or of one that is at rest with an empty queue
LEMMA AcceptFeeds == IInv /\ QInv /\ Accept => QInv'
<1> SUFFICES ASSUME IInv, QInv, Accept PROVE QInv'
  OBVIOUS
<1> DEFINE n == serve.run + 1
           r == IF CanReuse(serve.runner) THEN serve.runner ELSE n
           t == IF r = n THEN [Unborn EXCEPT !.at = "starting"] ELSE thread[r]
<1>1. n \in Run /\ n \in Nat /\ serve.run \in Nat /\ n > serve.run
  BY DEF Accept, IInv, Serve
<1>2. r \in Run
  BY <1>1 DEF QInv, CanReuse, Alive
<1>3. serve' = [at |-> "inner", run |-> n, runner |-> r,
                late |-> r # n /\ thread[r].at = "dying"]
  BY DEF Accept
<1>4. thread' = [thread EXCEPT ![r] = Prompted(t, n)]
  BY DEF Accept
<1>5. queue' = queue /\ sent' = sent /\ pump' = "waiting" /\ pump # "waiting"
      /\ serve.at = "outer"
  BY DEF Accept, QInv
<1>6. t \in Runner
  BY <1>2 DEF IInv, Unborn, Runner, Threads, None
<1>7. Prompted(t, n).at = t.at /\ Prompted(t, n).prompt = n /\ Prompted(t, n).ready = TRUE
  BY <1>6 DEF Prompted, Runner
<1>8. thread'[r] = Prompted(t, n) /\ \A p \in Run \ {r} : thread'[p] = thread[p]
  BY <1>2, <1>4 DEF IInv
<1>9. queue[r] = <<>> /\ ~Ended(<<>>) /\ Of(<<>>, n) /\ EndsLast(<<>>)
      /\ (t.at \in {"starting", "waiting"} \/ (r # n /\ t.at = "dying" /\ t = thread[r]))
  <2>1. ~Ended(<<>>) /\ Of(<<>>, n) /\ EndsLast(<<>>)
    BY DEF Ended, Of, EndsLast
  <2>2. CASE r = n
    <3>1. t.at = "starting"
      BY <2>2 DEF Unborn
    <3>2. queue[r] = <<>>
      BY <1>1, <2>2 DEF QInv
    <3> HIDE DEF n, r, t
    <3> QED
      BY <2>1, <3>1, <3>2
  <2>3. CASE r # n
    <3>1. r = serve.runner /\ Alive(r) /\ t = thread[r]
      BY <2>3 DEF CanReuse
    <3>2. Done(thread[r], queue[r])
      BY <1>2, <1>5, <3>1 DEF QInv
    <3>3. queue[r] = <<>> /\ thread[r].at \in {"dying", "waiting"}
      BY <3>1, <3>2 DEF Done, Resting, Alive
    <3> HIDE DEF n, r, t
    <3> QED
      BY <2>1, <2>3, <3>1, <3>3
  <2> QED
    BY <2>2, <2>3
<1>10. Running(thread'[r], queue'[r], n, serve'.late)
  <2>1. Prompted(t, n).at \in {"starting", "waiting"} \/ serve'.late
    BY <1>3, <1>7, <1>9
  <2>2. Slot(Prompted(t, n)) /\ (Busy(Prompted(t, n)) \/ serve'.late)
    BY <1>7, <1>9, <2>1 DEF Slot, Busy
  <2> QED
    BY <1>5, <1>7, <1>8, <1>9, <2>2 DEF Running
<1>11. \A p \in Run : p > n => p > serve.run /\ p # r
  <2> SUFFICES ASSUME NEW p \in Run, p > n PROVE p > serve.run /\ p # r
    OBVIOUS
  <2>1. p \in Nat /\ p > serve.run /\ p # n
    BY <1>1, RunNat
  <2>2. ASSUME p = r PROVE FALSE
    <3>1. p = serve.runner /\ Alive(p)
      BY <2>1, <2>2 DEF CanReuse
    <3> QED
      BY <2>1, <3>1 DEF Alive, QInv
  <2> QED
    BY <2>1, <2>2
<1>12. serve'.at = "inner" /\ serve'.run = n /\ serve'.runner = r
  BY <1>3
<1>13. OwnEvents'
  BY <1>5 DEF QInv, OwnEvents
<1>14. \A p \in Run : p > serve'.run => thread'[p].at = "unborn" /\ queue'[p] = <<>>
  BY <1>5, <1>8, <1>11, <1>12 DEF QInv
<1>15. queue' \in [Run -> Seq(Ev)] /\ r # None
  BY <1>2, <1>5, RunNat DEF QInv
<1> HIDE DEF n, r, t
<1> QED
  BY <1>2, <1>5, <1>10, <1>12, <1>13, <1>14, <1>15 DEF QInv

\* What the pump takes is the run's, and its end is the last of it
LEMMA PumpOwns == IInv /\ QInv /\ Pump => QInv'
<1> SUFFICES ASSUME IInv, QInv, Pump PROVE QInv'
  OBVIOUS
<1> DEFINE r == serve.runner
           q == queue[r]
<1>1. r \in Run /\ serve.at \in {"inner", "ending"} /\ pump = "waiting" /\ q # <<>>
  BY DEF Pump, QInv
<1>2. q \in Seq(Ev) /\ Running(thread[r], q, serve.run, serve.late)
  BY <1>1 DEF QInv
<1>3. /\ Head(q) \in Ev /\ Head(q).prompt = serve.run
      /\ Tail(q) \in Seq(Ev) /\ Of(Tail(q), serve.run) /\ EndsLast(Tail(q))
      /\ Head(q).kind \in Terminal => Tail(q) = <<>> /\ Ended(q)
      /\ Head(q).kind \notin Terminal => (Ended(Tail(q)) <=> Ended(q))
  BY <1>1, <1>2, Taken DEF Running
<1>4. UNCHANGED <<serve, thread>> /\ queue' = [queue EXCEPT ![r] = Tail(q)]
      /\ pump' = IF Head(q).kind \in Terminal THEN "ended" ELSE "waiting"
  BY DEF Pump, Ends
<1>5. queue' \in [Run -> Seq(Ev)] /\ queue'[r] = Tail(q)
      /\ \A p \in Run \ {r} : queue'[p] = queue[p]
  BY <1>1, <1>3, <1>4 DEF QInv
<1>6. OwnEvents'
  <2>1. sent' \subseteq sent \cup {[run |-> serve.run, event |-> Head(q)]}
    BY DEF Pump
  <2> QED
    BY <1>3, <2>1 DEF QInv, OwnEvents
<1>7. CASE Head(q).kind \in Terminal
  <2>1. Done(thread[r], Tail(q))
    BY <1>2, <1>3, <1>7 DEF Done, Running
  <2>2. pump' = "ended"
    BY <1>4, <1>7
  <2>3. \A p \in Run : p > serve.run => queue'[p] = <<>>
    BY <1>3, <1>5, <1>7 DEF QInv
  <2> QED
    BY <1>1, <1>4, <1>5, <1>6, <2>1, <2>2, <2>3 DEF QInv
<1>8. CASE Head(q).kind \notin Terminal
  <2>1. Running(thread[r], Tail(q), serve.run, serve.late)
    BY <1>2, <1>3, <1>8 DEF Running
  <2>2. pump' = "waiting"
    BY <1>4, <1>8
  <2>3. \A p \in Run : p > serve.run => p # r /\ queue'[p] = <<>>
    BY <1>1, <1>5 DEF QInv
  <2> QED
    BY <1>1, <1>4, <1>5, <1>6, <2>1, <2>2, <2>3 DEF QInv
<1> QED
  BY <1>7, <1>8

\* Flags apart from the slot are set, or the connection is lost during a run
LEMMA StandStep ==
    ASSUME IInv, QInv, UNCHANGED <<queue, pump>>, OwnEvents',
           \A p \in Run : /\ thread'[p].at = thread[p].at
                          /\ thread'[p].ready = thread[p].ready
                          /\ thread'[p].prompt = thread[p].prompt,
           serve'.run = serve.run, serve'.runner = serve.runner, serve'.late = serve.late,
           serve'.at = serve.at \/ (serve.at = "inner" /\ serve'.at = "ending")
    PROVE  QInv'
<1>1. \A p \in Run : /\ Running(thread[p], queue[p], serve.run, serve.late)
                            => Running(thread'[p], queue'[p], serve'.run, serve'.late)
                     /\ Done(thread[p], queue[p]) => Done(thread'[p], queue'[p])
  BY DEF Running, Done, Slot, Busy, Resting
<1>2. \A p \in Run : p > serve'.run => thread'[p].at = "unborn" /\ queue'[p] = <<>>
  BY DEF QInv
<1> QED
  BY <1>1, <1>2 DEF QInv

LEMMA CancelStands ==
    ASSUME IInv, NEW r, thread' = [thread EXCEPT ![r].cancel = TRUE]
    PROVE  \A p \in Run : /\ thread'[p].at = thread[p].at
                          /\ thread'[p].ready = thread[p].ready
                          /\ thread'[p].prompt = thread[p].prompt
<1>1. thread \in [Run -> Runner]
  BY DEF IInv
<1> QED
  BY <1>1 DEF Runner

LEMMA StepQInv == IInv /\ IInv' /\ QInv /\ [Next]_agentVars => QInv'
<1> SUFFICES ASSUME IInv, IInv', QInv, [Next]_agentVars PROVE QInv'
  OBVIOUS
<1>1. ASSUME UNCHANGED <<thread, serve, queue, pump, sent>> PROVE QInv'
  BY <1>1, StandStep DEF QInv, OwnEvents
<1>2. ASSUME NEW m \in {"run", "cancel"}, HostSends(m) PROVE QInv'
  BY <1>1, <1>2 DEF HostSends
<1>3. CASE HostGoes
  BY <1>1, <1>3 DEF HostGoes
<1>4. CASE ReadCancel
  <2>1. UNCHANGED <<serve, queue, pump>>
    BY <1>4 DEF ReadCancel
  <2>2. OwnEvents'
    <3>1. sent' = sent \cup {[run |-> serve.run,
                              event |-> [kind |-> "cancelled", prompt |-> serve.run]]}
      BY <1>4 DEF ReadCancel
    <3> QED
      BY <3>1 DEF QInv, OwnEvents
  <2>3. thread' = thread \/ thread' = [thread EXCEPT ![serve.runner].cancel = TRUE]
    BY <1>4 DEF ReadCancel
  <2>4. \A p \in Run : /\ thread'[p].at = thread[p].at
                       /\ thread'[p].ready = thread[p].ready
                       /\ thread'[p].prompt = thread[p].prompt
    BY <2>3, CancelStands
  <2> QED
    BY <2>1, <2>2, <2>4, StandStep
<1>5. CASE ReadDuringRun \/ LostDuringRun
  <2>1. UNCHANGED <<queue, pump, sent>>
    BY <1>5 DEF ReadDuringRun, LostDuringRun
  <2>2. OwnEvents'
    BY <2>1 DEF QInv, OwnEvents
  <2>3. thread' = thread \/ thread' = [thread EXCEPT ![serve.runner].cancel = TRUE]
    <3>1. CASE ReadDuringRun
      BY <3>1 DEF ReadDuringRun
    <3>2. CASE LostDuringRun
      BY <3>2 DEF LostDuringRun
    <3> QED
      BY <1>5, <3>1, <3>2
  <2>5. \A p \in Run : /\ thread'[p].at = thread[p].at
                       /\ thread'[p].ready = thread[p].ready
                       /\ thread'[p].prompt = thread[p].prompt
    BY <2>3, CancelStands
  <2>4. /\ serve'.run = serve.run /\ serve'.runner = serve.runner /\ serve'.late = serve.late
        /\ serve'.at = serve.at \/ (serve.at = "inner" /\ serve'.at = "ending")
    <3>1. CASE ReadDuringRun
      BY <3>1 DEF ReadDuringRun
    <3>2. CASE LostDuringRun
      BY <3>2 DEF LostDuringRun, IInv, Serve
    <3> QED
      BY <1>5, <3>1, <3>2
  <2> QED
    BY <2>1, <2>2, <2>5, <2>4, StandStep
<1>6. CASE RunOver
  <2>1. UNCHANGED <<thread, queue, pump, sent>> /\ pump = "ended" /\ serve.at = "inner"
    BY <1>6 DEF RunOver
  <2>2. /\ serve'.at = "outer" /\ serve'.run = serve.run
        /\ serve'.runner \in {serve.runner, None}
    BY <1>6 DEF RunOver, IInv, Serve
  <2>3. OwnEvents'
    BY <2>1 DEF QInv, OwnEvents
  <2>4. serve'.runner \in Run => Done(thread'[serve'.runner], queue'[serve'.runner])
    BY <2>1, <2>2, RunNat DEF QInv
  <2> QED
    BY <2>1, <2>2, <2>3, <2>4 DEF QInv
<1>7. CASE Close
  <2>1. UNCHANGED <<queue, sent>> /\ pump' # "waiting"
    BY <1>7 DEF Close
  <2>2. serve'.at = "closed" /\ serve'.run = serve.run /\ serve'.runner = serve.runner
    BY <1>7 DEF Close, IInv, Serve
  <2>3. OwnEvents'
    BY <2>1 DEF QInv, OwnEvents
  <2>4. \A p \in Run : p > serve.run => thread'[p].at = "unborn"
    <3> SUFFICES ASSUME NEW p \in Run, p > serve.run PROVE thread'[p].at = "unborn"
      OBVIOUS
    <3>1. thread[p].at = "unborn"
      BY DEF QInv
    <3>2. CASE Alive(serve.runner)
      <4>1. p # serve.runner
        BY <3>1, <3>2 DEF Alive
      <4>2. thread'[p] = thread[p]
        BY <1>7, <3>2, <4>1 DEF Close, Closed, IInv
      <4> QED
        BY <3>1, <4>2
    <3>3. CASE ~Alive(serve.runner)
      BY <1>7, <3>1, <3>3 DEF Close, Closed
    <3> QED
      BY <3>2, <3>3
  <2> QED
    BY <2>1, <2>2, <2>3, <2>4 DEF QInv
<1>8. CASE UNCHANGED agentVars
  BY <1>1, <1>8 DEF agentVars
<1> QED
  BY <1>2, <1>3, <1>4, <1>5, <1>6, <1>7, <1>8,
     AcceptFeeds, PumpOwns, RunnerSteps DEF Next

LEMMA QInvAlways == Spec => []QInv
<1>1. Init => IInv /\ QInv
  BY InitIInv, InitQInv
<1>2. IInv /\ QInv /\ [Next]_agentVars => IInv' /\ QInv'
  BY StepIInv, StepQInv
<1> QED
  BY <1>1, <1>2, PTL DEF Spec

-----------------------------------------------------------------------------
(* The theorems. *)

\* A connection never has two threads alive, however its runs follow each other.
THEOREM OneThread == Spec => []OneAlive
<1>1. IInv => OneAlive
  BY DEF IInv
<1> QED
  BY InitIInv, StepIInv, <1>1, PTL DEF Spec

\* When the connection is over, each thread that is alive is in its end already
\* or has been told to end: no CLI stays behind in the container.
THEOREM NoneLeftBehind == Spec => []NoCliLeftBehind
<1>1. IInv => NoCliLeftBehind
  BY RunNat DEF IInv, Told, NoCliLeftBehind, Alive
<1> QED
  BY InitIInv, StepIInv, <1>1, PTL DEF Spec

\* What goes out under a run is what the CLI said to that run's prompt, however
\* many runs share the runner and its queue.
THEOREM RunsGetTheirOwn == Spec => []OwnEvents
<1>1. QInv => OwnEvents
  BY DEF QInv
<1> QED
  BY QInvAlways, <1>1, PTL

\* A pump that waits has an event to take, or a thread that will put one, unless
\* the run went to a thread that was about to end.
THEOREM PumpIsFed == Spec => []PumpFed
<1>1. QInv => PumpFed
  <2> SUFFICES ASSUME QInv, serve.at = "inner", pump = "waiting", ~serve.late
               PROVE  LET r == serve.runner
                      IN  \/ queue[r] # <<>>
                          \/ thread[r].prompt = serve.run
                             /\ \/ thread[r].at \in {"starting", "waiting"} /\ thread[r].ready
                                \/ thread[r].at \in {"checking", "reading", "finishing"}
    BY DEF PumpFed
  <2>1. Running(thread[serve.runner], queue[serve.runner], serve.run, serve.late)
    BY DEF QInv
  <2> QED
    BY <2>1 DEF Running, Ended, Busy
<1> QED
  BY QInvAlways, <1>1, PTL
-----------------------------------------------------------------------------
(* Types. *)

Runners == [at : Threads, cancel : BOOLEAN, ready : BOOLEAN, prompt : Run \cup {None},
            shutdown : BOOLEAN, cli : BOOLEAN, lines : 0 .. MaxLines]
Serving == [at : {"outer", "inner", "ending", "closed"}, run : Run \cup {None},
            runner : Run \cup {None}, late : BOOLEAN]

\* The thread of r takes a step, with an event of its prompt or without
LEMMA ThreadTypes ==
    ASSUME TypeOK, NEW r \in Run, NEW t \in Runners, thread' = [thread EXCEPT ![r] = t],
           UNCHANGED <<open, inbox, cancels, serve, pump, sent>>,
           \/ UNCHANGED queue
           \/ \E k \in Kind : Put(r, k)
    PROVE  TypeOK'
<1> USE DEF TypeOK
<1>1. thread' \in [Run -> Runners]
  BY DEF Runners
<1>2. queue' \in [Run -> Seq(Event)]
  <2>1. ASSUME NEW k \in Kind, Put(r, k) PROVE queue' \in [Run -> Seq(Event)]
    <3> DEFINE e == [kind |-> k, prompt |-> thread[r].prompt]
    <3>1. e \in Event
      BY DEF Event, None
    <3>2. Append(queue[r], e) \in Seq(Event)
      BY <3>1
    <3> QED
      BY <2>1, <3>2 DEF Put
  <2> QED
    BY <2>1
<1> QED
  BY <1>1, <1>2 DEF Runners

\* Every step of a thread is one of those
LEMMA ThreadMoves ==
    ASSUME TypeOK, MaxLines \in Nat, NEW r \in Run,
           \/ Initialized(r) \/ CancelledAtStart(r) \/ TakePrompt(r) \/ Check(r)
           \/ ReadLine(r) \/ AnswerHook(r) \/ ReadResult(r) \/ ReadEnd(r) \/ Finish(r)
           \/ Fail(r) \/ Die(r)
    PROVE  TypeOK'
<1> DEFINE old == thread[r]
<1>1. old \in Runners /\ thread \in [Run -> Runners]
  BY DEF TypeOK, Runners
<1> USE DEF Threads, Kind, Terminal, Turn
<1>2. ASSUME NEW s \in Threads, thread' = [thread EXCEPT ![r].at = s]
      PROVE  \E t \in Runners : thread' = [thread EXCEPT ![r] = t]
  <2>1. [old EXCEPT !.at = s] \in Runners
    BY <1>1 DEF Runners
  <2> QED
    BY <1>2, <2>1
<1>3. ASSUME NEW s \in Threads, NEW c \in BOOLEAN,
             thread' = [thread EXCEPT ![r].at = s, ![r].cli = c]
      PROVE  \E t \in Runners : thread' = [thread EXCEPT ![r] = t]
  <2>1. [old EXCEPT !.at = s, !.cli = c] \in Runners
    BY <1>1 DEF Runners
  <2>2. thread' = [thread EXCEPT ![r] = [@ EXCEPT !.at = s, !.cli = c]]
    BY <1>3
  <2> QED
    BY <2>1, <2>2
<1>4. CASE Initialized(r) \/ ReadEnd(r) \/ Die(r)
  BY <1>3, <1>4, ThreadTypes DEF Initialized, ReadEnd, Die
<1>5. CASE CancelledAtStart(r) \/ Check(r) \/ ReadResult(r) \/ Finish(r) \/ Fail(r)
  BY <1>2, <1>5, ThreadTypes DEF CancelledAtStart, Check, ReadResult, Finish, Fail
<1>6. CASE TakePrompt(r)
  <2>1. CASE thread[r].shutdown
    <3> DEFINE t == [old EXCEPT !.at = "dying", !.ready = FALSE]
    <3>1. t \in Runners
      BY <1>1 DEF Runners
    <3>2. thread' = [thread EXCEPT ![r] = t]
      BY <1>6, <2>1 DEF TakePrompt
    <3> HIDE DEF t
    <3> QED
      BY <1>6, <2>1, <3>1, <3>2, ThreadTypes DEF TakePrompt
  <2>2. CASE ~thread[r].shutdown
    <3> DEFINE t == [old EXCEPT !.at = "checking", !.ready = FALSE, !.lines = 0]
    <3>0. 0 \in 0 .. MaxLines
      OBVIOUS
    <3>1. t \in Runners
      BY <1>1, <3>0 DEF Runners
    <3>2. thread' = [thread EXCEPT ![r] = t]
      BY <1>6, <2>2 DEF TakePrompt
    <3> HIDE DEF t
    <3> QED
      BY <1>6, <2>2, <3>1, <3>2, ThreadTypes DEF TakePrompt
  <2> QED
    BY <2>1, <2>2
<1>7. CASE ReadLine(r) \/ AnswerHook(r)
  <2> DEFINE t == [old EXCEPT !.at = "checking", !.lines = thread[r].lines + 1]
  <2>1. t \in Runners
    <3>1. thread[r].lines + 1 \in 0 .. MaxLines
      BY <1>1, <1>7 DEF Runners, ReadLine, AnswerHook
    <3> QED
      BY <1>1, <3>1 DEF Runners
  <2>2. thread' = [thread EXCEPT ![r] = t]
    BY <1>7 DEF ReadLine, AnswerHook
  <2> HIDE DEF t
  <2> QED
    BY <1>7, <2>1, <2>2, ThreadTypes DEF ReadLine, AnswerHook
<1> QED
  BY <1>4, <1>5, <1>6, <1>7

LEMMA AgentStep ==
    ASSUME TypeOK, QInv, MaxCancels \in Nat, MaxLines \in Nat, [Next]_agentVars
    PROVE  TypeOK'
<1>1. thread \in [Run -> Runners] /\ serve \in Serving
  BY DEF TypeOK, Runners, Serving
<1>2. ASSUME thread' \in [Run -> Runners], serve' \in Serving,
             UNCHANGED <<open, cancels, queue>>, inbox' \in Seq({"run", "cancel"}),
             pump' \in {"none", "waiting", "ended"},
             sent' \subseteq [run : Run \cup {None}, event : Event]
      PROVE  TypeOK'
  BY <1>2 DEF TypeOK, Runners, Serving
<1>3. inbox # <<>> => Tail(inbox) \in Seq({"run", "cancel"})
  BY DEF TypeOK
<1>4. \A r : [thread EXCEPT ![r].cancel = TRUE] \in [Run -> Runners]
  BY <1>1 DEF Runners
<1>5. ASSUME NEW m \in {"run", "cancel"}, HostSends(m) PROVE TypeOK'
  BY <1>5 DEF HostSends, TypeOK
<1>6. CASE HostGoes
  BY <1>6 DEF HostGoes, TypeOK
<1>7. CASE Accept
  <2> DEFINE n == serve.run + 1
             r == IF CanReuse(serve.runner) THEN serve.runner ELSE n
             old == IF r = n THEN [Unborn EXCEPT !.at = "starting"] ELSE thread[r]
             t == Prompted(old, n)
  <2>1. n \in Run /\ r \in Run
    BY <1>1, <1>7 DEF Accept, CanReuse, Alive, Serving
  <2>2. [Unborn EXCEPT !.at = "starting"] \in Runners
    <3>1. 0 \in 0 .. MaxLines
      OBVIOUS
    <3>2. Unborn \in Runners
      BY <3>1 DEF Unborn, Runners, Threads
    <3> QED
      BY <3>2 DEF Runners, Threads
  <2>3. old \in Runners
    BY <1>1, <2>1, <2>2
  <2> HIDE DEF old
  <2>4. t \in Runners
    BY <2>1, <2>3 DEF Prompted, Runners
  <2>5. thread' = [thread EXCEPT ![r] = t]
    BY <1>7 DEF Accept, old
  <2>6. serve' \in Serving
    BY <1>7, <2>1 DEF Accept, Serving
  <2> HIDE DEF t
  <2>7. thread' \in [Run -> Runners]
    BY <1>1, <2>4, <2>5
  <2> QED
    BY <1>2, <1>3, <1>7, <2>6, <2>7 DEF Accept, TypeOK
<1>8. CASE ReadCancel
  <2>1. [run |-> serve.run, event |-> [kind |-> "cancelled", prompt |-> serve.run]]
            \in [run : Run \cup {None}, event : Event]
    BY <1>1 DEF Serving, Event, Kind, Terminal, None
  <2> QED
    BY <1>1, <1>2, <1>3, <1>4, <1>8, <2>1 DEF ReadCancel, TypeOK
<1>9. CASE ReadDuringRun
  <2>1. thread' \in [Run -> Runners]
    BY <1>1, <1>4, <1>9 DEF ReadDuringRun
  <2>2. serve' \in Serving /\ inbox' \in Seq({"run", "cancel"})
    BY <1>1, <1>3, <1>9 DEF ReadDuringRun
  <2> QED
    BY <1>2, <1>9, <2>1, <2>2 DEF ReadDuringRun, TypeOK
<1>10. CASE RunOver
  <2>1. serve' \in Serving
    BY <1>1, <1>10 DEF RunOver, Serving
  <2> QED
    BY <1>1, <1>2, <1>10, <2>1 DEF RunOver, TypeOK
<1>11. CASE LostDuringRun
  <2>1. serve' \in Serving
    BY <1>1, <1>11 DEF LostDuringRun, Serving
  <2> QED
    BY <1>1, <1>2, <1>4, <1>11, <2>1 DEF LostDuringRun, TypeOK
<1>12. CASE Close
  <2>1. serve' \in Serving
    BY <1>1, <1>12 DEF Close, Serving
  <2>2. \A r \in Run : Closed(r) \in [Run -> Runners]
    BY <1>1, ZenonT(30) DEF Closed, Runners
  <2>3. Closed(None) = thread
    BY DEF Closed, Alive
  <2>4. thread' \in [Run -> Runners]
    BY <1>1, <1>12, <2>2, <2>3 DEF Close, Serving
  <2> QED
    BY <1>2, <1>12, <2>1, <2>4 DEF Close, TypeOK
<1>13. CASE Pump
  <2> DEFINE r == serve.runner
             q == queue[r]
  <2>1. r \in Run /\ q # <<>> /\ q \in Seq(Event)
    BY <1>13 DEF Pump, QInv, TypeOK
  <2>2. Head(q) \in Event /\ Tail(q) \in Seq(Event)
    BY <2>1
  <2>3. queue' \in [Run -> Seq(Event)]
    BY <1>13, <2>1, <2>2 DEF Pump, TypeOK
  <2>4. sent' \subseteq [run : Run \cup {None}, event : Event]
    <3>1. [run |-> serve.run, event |-> Head(q)] \in [run : Run \cup {None}, event : Event]
      BY <1>1, <2>2 DEF Serving
    <3> QED
      BY <1>13, <3>1 DEF Pump, TypeOK
  <2> QED
    BY <1>13, <2>3, <2>4 DEF Pump, TypeOK
<1>14. CASE UNCHANGED agentVars
  BY <1>14 DEF agentVars, TypeOK
<1> QED
  BY <1>5, <1>6, <1>7, <1>8, <1>9, <1>10, <1>11, <1>12, <1>13, <1>14, ThreadMoves DEF Next

\* Every variable keeps to its type: no line, cancel or run beyond the bounds, and
\* every event is of a prompt that was sent.
THEOREM KeepsTypes ==
    ASSUME MaxCancels \in Nat, MaxLines \in Nat
    PROVE  Spec => []TypeOK
<1>1. Init => TypeOK
  <2>1. Unborn \in Runners
    BY DEF Unborn, Runners, Threads, None
  <2> QED
    BY <2>1 DEF Init, TypeOK, Runners, None
<1> QED
  BY <1>1, AgentStep, QInvAlways, PTL DEF Spec
=============================================================================
