----------------------- MODULE SharedConnection_proofs -----------------------
(***************************************************************************)
(* What a committed operation may rely on, for any number of calls that    *)
(* share the connection.                                                   *)
(*                                                                         *)
(* The programs are first reduced to the few sequences of steps they are;  *)
(* of each the proofs need only where it may end and where it commits.     *)
(***************************************************************************)
EXTENDS SharedConnection, TLAPS

Prog(c) == Program[calls[c].op]

Typed == {q \in Seq(Step) : Len(q) \in 1 .. 7}

\* Every write up to step n is followed by a commit up to step n
Flushed(q, n) ==
    \A i \in 1 .. n : q[i] = "put" => \E j \in 1 .. n : i < j /\ q[j] = "commit"

\* Wherever a call may be answered, it has committed what it wrote
Committing(q) ==
    /\ Flushed(q, Len(q))
    /\ \A n \in 1 .. Len(q) : q[n] = "see" => Flushed(q, n)

\* No write follows a commit
Whole(q) ==
    \A i, j \in 1 .. Len(q) : q[i] = "commit" /\ q[j] = "put" => j < i

StepSequences == {
    <<"put", "put", "commit">>, <<"see", "put", "commit">>, <<"put", "commit">>,
    <<"see", "look", "put", "commit">>, <<"see", "put", "look">>,
    <<"see", "put", "commit", "look">>,
    <<"see", "look", "put", "commit", "put", "commit", "look">>,
    <<"put", "commit", "file">>, <<"see", "put", "commit", "put", "commit">>,
    <<"see", "file", "put", "put", "put", "commit">>,
    <<"see", "file", "put", "commit">>,
    <<"see", "look", "file", "put", "put", "commit">>, <<"put">>,
    <<"see", "file", "put", "put", "commit">>, <<"look", "put">>,
    <<"look", "look", "put">>, <<"file", "put", "put", "put">>,
    <<"put", "put", "put">>, <<"see", "file", "put">>, <<"see", "put">>,
    <<"see", "see", "file", "put", "commit", "put">>}
CommittingSequences == {
    <<"put", "put", "commit">>, <<"see", "put", "commit">>, <<"put", "commit">>,
    <<"see", "look", "put", "commit">>, <<"see", "put", "commit", "look">>,
    <<"see", "look", "put", "commit", "put", "commit", "look">>,
    <<"put", "commit", "file">>, <<"see", "put", "commit", "put", "commit">>,
    <<"see", "file", "put", "put", "put", "commit">>,
    <<"see", "file", "put", "commit">>,
    <<"see", "look", "file", "put", "put", "commit">>,
    <<"see", "file", "put", "put", "commit">>}
WholeSequences == {
    <<"put", "put", "commit">>, <<"see", "put", "commit">>, <<"put", "commit">>,
    <<"see", "look", "put", "commit">>, <<"see", "put", "look">>,
    <<"see", "put", "commit", "look">>, <<"put", "commit", "file">>,
    <<"see", "file", "put", "put", "put", "commit">>,
    <<"see", "file", "put", "commit">>,
    <<"see", "look", "file", "put", "put", "commit">>, <<"put">>,
    <<"see", "file", "put", "put", "commit">>, <<"look", "put">>,
    <<"look", "look", "put">>, <<"file", "put", "put", "put">>,
    <<"put", "put", "put">>, <<"see", "file", "put">>, <<"see", "put">>}

LEMMA ProgramSequences == \A o \in Op : Program[o] \in StepSequences
  BY SMTT(60) DEF Op, Program, StepSequences,
     create_session, delete_session, update_session_title, update_session_status,
     update_session_stats, add_message, backfill_session_stats, register_user,
     admin_disable_user, admin_enable_user, admin_promote_user, admin_demote_user,
     update_user_language, resolve_user_language, summarize_and_store_session,
     insert_generated_file, insert_upload_file, audit_log, mcp_create, mcp_update,
     mcp_rename, mcp_delete, mcp_toggle, register_skill, update_skill_meta,
     delete_skill, record_usage, check_auto_promotion, record_version, activate_version,
     rollback_version, execute_promotion, refuse_promotion, reject_promotion,
     cleanup_expired_promotions, submit_feedback, create_version, record, upsert,
     adjust_confidence, apply_skill_change, propose_skill_change, review_keep_proposed,
     review_discard, review_keep, review_rollback, generate_warning_page,
     generate_antipattern_page, generate_page, update_validation, db_save, db_delete

LEMMA CommittingPrograms == \A o \in Op \ Uncommitted : Program[o] \in CommittingSequences
  BY SMTT(60) DEF Op, Program, Uncommitted, CommittingSequences,
     create_session, delete_session, update_session_title, update_session_status,
     update_session_stats, add_message, backfill_session_stats, register_user,
     admin_disable_user, admin_enable_user, admin_promote_user, admin_demote_user,
     update_user_language, resolve_user_language, summarize_and_store_session,
     insert_generated_file, insert_upload_file, audit_log, mcp_create, mcp_update,
     mcp_rename, mcp_delete, mcp_toggle, register_skill, update_skill_meta,
     delete_skill, record_usage, check_auto_promotion, record_version, activate_version,
     rollback_version, execute_promotion, refuse_promotion, reject_promotion,
     cleanup_expired_promotions, submit_feedback, create_version, record, upsert,
     adjust_confidence, apply_skill_change, propose_skill_change, review_keep_proposed,
     review_discard, review_keep, review_rollback, generate_warning_page,
     generate_antipattern_page, generate_page, update_validation, db_save, db_delete

LEMMA WholePrograms == \A o \in Op \ Piecemeal : Program[o] \in WholeSequences
  BY SMTT(60) DEF Op, Program, Piecemeal, WholeSequences,
     create_session, delete_session, update_session_title, update_session_status,
     update_session_stats, add_message, backfill_session_stats, register_user,
     admin_disable_user, admin_enable_user, admin_promote_user, admin_demote_user,
     update_user_language, resolve_user_language, summarize_and_store_session,
     insert_generated_file, insert_upload_file, audit_log, mcp_create, mcp_update,
     mcp_rename, mcp_delete, mcp_toggle, register_skill, update_skill_meta,
     delete_skill, record_usage, check_auto_promotion, record_version, activate_version,
     rollback_version, execute_promotion, refuse_promotion, reject_promotion,
     cleanup_expired_promotions, submit_feedback, create_version, record, upsert,
     adjust_confidence, apply_skill_change, propose_skill_change, review_keep_proposed,
     review_discard, review_keep, review_rollback, generate_warning_page,
     generate_antipattern_page, generate_page, update_validation, db_save, db_delete

LEMMA SequenceTypes == \A q \in StepSequences : q \in Typed
<1>1. <<"put", "put", "commit">> \in Typed
  BY DEF Typed, Step
<1>2. <<"see", "put", "commit">> \in Typed
  BY DEF Typed, Step
<1>3. <<"put", "commit">> \in Typed
  BY DEF Typed, Step
<1>4. <<"see", "look", "put", "commit">> \in Typed
  BY DEF Typed, Step
<1>5. <<"see", "put", "look">> \in Typed
  BY DEF Typed, Step
<1>6. <<"see", "put", "commit", "look">> \in Typed
  BY DEF Typed, Step
<1>7. <<"see", "look", "put", "commit", "put", "commit", "look">> \in Typed
  BY DEF Typed, Step
<1>8. <<"put", "commit", "file">> \in Typed
  BY DEF Typed, Step
<1>9. <<"see", "put", "commit", "put", "commit">> \in Typed
  BY DEF Typed, Step
<1>10. <<"see", "file", "put", "put", "put", "commit">> \in Typed
  BY DEF Typed, Step
<1>11. <<"see", "file", "put", "commit">> \in Typed
  BY DEF Typed, Step
<1>12. <<"see", "look", "file", "put", "put", "commit">> \in Typed
  BY DEF Typed, Step
<1>13. <<"put">> \in Typed
  BY DEF Typed, Step
<1>14. <<"see", "file", "put", "put", "commit">> \in Typed
  BY DEF Typed, Step
<1>15. <<"look", "put">> \in Typed
  BY DEF Typed, Step
<1>16. <<"look", "look", "put">> \in Typed
  BY DEF Typed, Step
<1>17. <<"file", "put", "put", "put">> \in Typed
  BY DEF Typed, Step
<1>18. <<"put", "put", "put">> \in Typed
  BY DEF Typed, Step
<1>19. <<"see", "file", "put">> \in Typed
  BY DEF Typed, Step
<1>20. <<"see", "put">> \in Typed
  BY DEF Typed, Step
<1>21. <<"see", "see", "file", "put", "commit", "put">> \in Typed
  BY DEF Typed, Step
<1> QED
  BY <1>1, <1>2, <1>3, <1>4, <1>5, <1>6, <1>7, <1>8, <1>9, <1>10, <1>11, <1>12, <1>13,
     <1>14, <1>15, <1>16, <1>17, <1>18, <1>19, <1>20, <1>21
  DEF StepSequences

LEMMA SequencesCommit == \A q \in CommittingSequences : Committing(q)
<1>1. Committing(<<"put", "put", "commit">>)
  BY DEF Committing, Flushed
<1>2. Committing(<<"see", "put", "commit">>)
  BY DEF Committing, Flushed
<1>3. Committing(<<"put", "commit">>)
  BY DEF Committing, Flushed
<1>4. Committing(<<"see", "look", "put", "commit">>)
  BY DEF Committing, Flushed
<1>5. Committing(<<"see", "put", "commit", "look">>)
  BY DEF Committing, Flushed
<1>6. Committing(<<"see", "look", "put", "commit", "put", "commit", "look">>)
  BY DEF Committing, Flushed
<1>7. Committing(<<"put", "commit", "file">>)
  BY DEF Committing, Flushed
<1>8. Committing(<<"see", "put", "commit", "put", "commit">>)
  BY DEF Committing, Flushed
<1>9. Committing(<<"see", "file", "put", "put", "put", "commit">>)
  BY DEF Committing, Flushed
<1>10. Committing(<<"see", "file", "put", "commit">>)
  BY DEF Committing, Flushed
<1>11. Committing(<<"see", "look", "file", "put", "put", "commit">>)
  BY DEF Committing, Flushed
<1>12. Committing(<<"see", "file", "put", "put", "commit">>)
  BY DEF Committing, Flushed
<1> QED
  BY <1>1, <1>2, <1>3, <1>4, <1>5, <1>6, <1>7, <1>8, <1>9, <1>10, <1>11, <1>12
  DEF CommittingSequences

LEMMA SequencesAreWhole == \A q \in WholeSequences : Whole(q)
  BY DEF WholeSequences, Whole

LEMMA Programs ==
    /\ \A o \in Op : Program[o] \in Typed
    /\ \A o \in Op \ Uncommitted : Committing(Program[o])
    /\ \A o \in Op \ Piecemeal : Whole(Program[o])
  BY ProgramSequences, CommittingPrograms, WholePrograms,
     SequenceTypes, SequencesCommit, SequencesAreWhole

-----------------------------------------------------------------------------
(* Types, and where the calls stand. *)

\* A call that is under way, or over, is at a step of its program
Placed ==
    \A c \in Call :
        IF calls[c].state = "new"
        THEN calls[c].pc = 1
        ELSE calls[c].op \in Op /\ calls[c].pc \in 1 .. Len(Prog(c))

\* A call that has not begun has written nothing, and what is pending are writes
Untouched ==
    \A c \in Call, i \in 1 .. 7 :
        /\ calls[c].state = "new" => <<c, i>> \notin pending \cup durable
        /\ <<c, i>> \in pending => i \in 1 .. Len(Prog(c)) /\ Prog(c)[i] = "put"

Inv == TypeOK /\ Placed /\ Untouched

LEMMA InitInv == Init => Inv
  BY DEF Init, Inv, TypeOK, Placed, Untouched

\* How the call that makes a step stands after it
Answered(c) ==
    /\ calls'[c].pc = calls[c].pc
    /\ calls'[c].state = "answered"
    /\ calls[c].op \in Quiet \/ calls[c].pc = Len(Prog(c)) \/ Prog(c)[calls[c].pc] = "see"
Failed(c) ==
    /\ calls'[c].pc = calls[c].pc
    /\ calls'[c].state = "failed"
Further(c) ==
    /\ calls[c].pc < Len(Prog(c))
    /\ calls'[c].pc = calls[c].pc + 1
    /\ calls'[c].state = "busy"
Again(c) ==
    /\ calls'[c].pc = 1
    /\ calls'[c].state = "busy"

\* No other call is touched
Only(c) ==
    /\ calls' \in [Call -> [op : Op \cup {None}, pc : 1 .. 8,
                            state : {"new", "busy", "answered", "failed", "cut"}]]
    /\ \A d \in Call \ {c} : calls'[d] = calls[d]
    /\ calls'[c].op = calls[c].op

\* What a step leaves: nothing, a write, files, or all that was pending
Leaves(c, s) == Prog(c)[calls[c].pc] = s /\ (Further(c) \/ Answered(c))
Nothing(c) ==
    /\ UNCHANGED <<pending, durable, foreign>>
    /\ \/ Prog(c)[calls[c].pc] \in {"see", "look"} /\ (Further(c) \/ Answered(c))
       \/ Answered(c) /\ calls[c].op \in Quiet
       \/ Failed(c) \/ Again(c)
Written(c) ==
    /\ Leaves(c, "put")
    /\ pending' = (pending \cup {<<c, calls[c].pc>>}) \ durable
    /\ UNCHANGED <<durable, foreign>>
Filed(c) ==
    /\ Leaves(c, "file")
    /\ durable' = durable \cup {<<c, calls[c].pc>>}
    /\ UNCHANGED <<pending, foreign>>
Committed(c) ==
    /\ Leaves(c, "commit")
    /\ durable' = durable \cup pending
    /\ pending' = {}
    /\ foreign' = foreign \cup {d \in Call \ {c} : \E w \in pending : w[1] = d}

Goes(c)  == Busy(c) /\ Only(c) /\ (Nothing(c) \/ Written(c) \/ Filed(c) \/ Committed(c))
Begun(c) ==
    /\ calls[c].state = "new"
    /\ calls' \in [Call -> [op : Op \cup {None}, pc : 1 .. 8,
                            state : {"new", "busy", "answered", "failed", "cut"}]]
    /\ \A d \in Call \ {c} : calls'[d] = calls[d]
    /\ calls'[c].op \in Op /\ calls'[c].pc = calls[c].pc /\ calls'[c].state = "busy"
    /\ UNCHANGED <<pending, durable, foreign>>

LEMMA BusyPlaced ==
    ASSUME Inv, NEW c \in Call, calls[c].state # "new"
    PROVE  /\ calls[c] \in [op : Op \cup {None}, pc : 1 .. 8,
                            state : {"new", "busy", "answered", "failed", "cut"}]
           /\ calls[c].op \in Op
           /\ calls[c].pc \in 1 .. 7 /\ calls[c].pc \in 1 .. Len(Prog(c))
           /\ calls[c].pc <= Len(Prog(c))
           /\ Len(Prog(c)) \in 1 .. 7
           /\ Prog(c) \in Seq(Step)
<1>1. calls[c] \in [op : Op \cup {None}, pc : 1 .. 8,
                    state : {"new", "busy", "answered", "failed", "cut"}]
  BY DEF Inv, TypeOK
<1>2. calls[c].op \in Op /\ calls[c].pc \in 1 .. Len(Prog(c))
  BY DEF Inv, Placed
<1>3. Len(Prog(c)) \in 1 .. 7 /\ Prog(c) \in Seq(Step)
  BY <1>2, Programs DEF Typed, Prog
<1>4. ASSUME NEW m \in 1 .. 7, NEW n \in 1 .. m PROVE n \in 1 .. 7 /\ n <= m
  OBVIOUS
<1> QED
  BY <1>1, <1>2, <1>3, <1>4

LEMMA AdvanceGoes ==
    ASSUME Inv, NEW c \in Call, Busy(c), Advance(c)
    PROVE  Only(c) /\ (Further(c) \/ Answered(c))
<1>1. calls[c].state # "new"
  BY DEF Busy
<1>2. CASE calls[c].pc = Len(Prog(c))
  <2>1. calls' = [calls EXCEPT ![c].state = "answered"]
    BY <1>2 DEF Advance, Ends, Prog
  <2> QED
    BY <1>1, <1>2, <2>1, BusyPlaced DEF Only, Answered, Inv, TypeOK
<1>3. CASE calls[c].pc # Len(Prog(c))
  <2>1. calls' = [calls EXCEPT ![c].pc = @ + 1]
    BY <1>3 DEF Advance, Prog
  <2>2. calls[c].pc + 1 \in 1 .. 8 /\ calls[c].pc < Len(Prog(c))
    <3>1. calls[c].pc \in 1 .. 7 /\ calls[c].pc <= Len(Prog(c)) /\ Len(Prog(c)) \in 1 .. 7
      BY <1>1, BusyPlaced
    <3> QED
      BY <1>3, <3>1
  <2> QED
    BY <1>1, <2>1, <2>2, BusyPlaced DEF Only, Further, Busy, Inv, TypeOK
<1> QED
  BY <1>2, <1>3

LEMMA EndGoes ==
    ASSUME Inv, NEW c \in Call, NEW how \in {"answered", "failed"}, Ends(c, how)
    PROVE  Only(c) /\ calls'[c].pc = calls[c].pc /\ calls'[c].state = how
  BY DEF Ends, Only, Inv, TypeOK

LEMMA CallSteps ==
    ASSUME Inv, [Next]_connVars
    PROVE  \/ \E c \in Call : Begun(c) \/ Goes(c)
           \/ ProcessEnds
           \/ UNCHANGED connVars
<1>1. ASSUME NEW c \in Call, Begin(c) PROVE Begun(c)
  BY <1>1 DEF Begin, Begun, Inv, TypeOK
<1>2. ASSUME NEW c \in Call, Read(c) PROVE Goes(c)
  BY <1>2, AdvanceGoes DEF Read, At, Goes, Nothing, Prog
<1>3. ASSUME NEW c \in Call, EndEarly(c) PROVE Goes(c)
  BY <1>3, EndGoes DEF EndEarly, At, Goes, Nothing, Answered, Prog
<1>4. ASSUME NEW c \in Call, Put(c) PROVE Goes(c)
  BY <1>4, AdvanceGoes DEF Put, At, Goes, Written, Leaves, Prog
<1>5. ASSUME NEW c \in Call, File(c) PROVE Goes(c)
  BY <1>5, AdvanceGoes DEF File, At, Goes, Filed, Leaves, Prog
<1>6. ASSUME NEW c \in Call, Commit(c) PROVE Goes(c)
  BY <1>6, AdvanceGoes DEF Commit, At, Goes, Committed, Leaves, Prog
<1>7. ASSUME NEW c \in Call, Fail(c) PROVE Goes(c)
  <2>1. CASE calls[c].op \in Quiet
    BY <1>7, <2>1, EndGoes DEF Fail, At, Goes, Nothing, Answered
  <2>2. CASE calls[c].op \notin Quiet
    BY <1>7, <2>2, EndGoes DEF Fail, At, Goes, Nothing, Failed
  <2> QED
    BY <2>1, <2>2
<1>8. ASSUME NEW c \in Call, Retry(c) PROVE Goes(c)
  <2>1. Busy(c) /\ calls' = [calls EXCEPT ![c].pc = 1]
    BY <1>8 DEF Retry, At
  <2>2. Only(c) /\ Again(c)
    BY <2>1 DEF Only, Again, Busy, Inv, TypeOK
  <2> QED
    BY <1>8, <2>1, <2>2 DEF Retry, Goes, Nothing
<1> QED
  BY <1>1, <1>2, <1>3, <1>4, <1>5, <1>6, <1>7, <1>8 DEF Next

LEMMA NextInv ==
    ASSUME Inv, [Next]_connVars
    PROVE  Inv'
<1>1. ASSUME NEW c \in Call, Begun(c) PROVE Inv'
  <2>1. TypeOK'
    BY <1>1 DEF Begun, Inv, TypeOK
  <2>2. Placed'
    <3>1. \A o \in Op : 1 \in 1 .. Len(Program[o])
      BY Programs DEF Typed
    <3> QED
      BY <1>1, <3>1 DEF Begun, Inv, Placed, Prog
  <2>3. Untouched'
    BY <1>1 DEF Begun, Inv, Untouched, Prog
  <2> QED
    BY <2>1, <2>2, <2>3 DEF Inv
<1>2. ASSUME NEW c \in Call, Goes(c) PROVE Inv'
  <2>1. calls[c].state = "busy" /\ calls[c].pc \in 1 .. 7
    BY <1>2, BusyPlaced DEF Goes, Busy
  <2>2. pending' \subseteq Write /\ durable' \subseteq Write /\ foreign' \subseteq Call
    BY <1>2, <2>1 DEF Goes, Nothing, Written, Filed, Committed, Inv, TypeOK, Write
  <2>3. pending' \cap durable' = {}
    <3>1. Prog(c)[calls[c].pc] = "file" => <<c, calls[c].pc>> \notin pending
      BY <2>1 DEF Inv, Untouched
    <3> QED
      BY <1>2, <3>1 DEF Goes, Nothing, Written, Filed, Leaves, Committed, Inv, TypeOK
  <2>4. TypeOK'
    BY <1>2, <2>2, <2>3 DEF Goes, Only, TypeOK
  <2>5. calls'[c].state # "new" /\ calls'[c].op \in Op /\ calls'[c].pc \in 1 .. Len(Prog(c))
    <3>1. Further(c) \/ Again(c) \/ Answered(c) \/ Failed(c)
      BY <1>2 DEF Goes, Nothing, Written, Filed, Committed, Leaves
    <3> QED
      BY <1>2, <2>1, <3>1, BusyPlaced DEF Goes, Only, Further, Again, Answered, Failed
  <2>6. Placed'
    BY <1>2, <2>5 DEF Goes, Only, Inv, Placed, Prog
  <2>7. Untouched'
    <3>1. \A d \in Call : Prog(d)' = Prog(d) /\ (calls'[d].state = "new" => calls[d].state = "new" /\ d # c)
      BY <1>2, <2>5 DEF Goes, Only, Prog
    <3> SUFFICES ASSUME NEW d \in Call, NEW i \in 1 .. 7
                 PROVE  /\ calls'[d].state = "new" => <<d, i>> \notin pending' \cup durable'
                        /\ <<d, i>> \in pending' => i \in 1 .. Len(Prog(d)) /\ Prog(d)[i] = "put"
      BY <3>1 DEF Untouched
    <3>2. <<d, i>> \in pending' \cup durable' => <<d, i>> \in pending \cup durable \/ d = c
      BY <1>2 DEF Goes, Nothing, Written, Filed, Committed
    <3>3. <<d, i>> \in pending' =>
             <<d, i>> \in pending \/ (d = c /\ i = calls[c].pc /\ Prog(c)[i] = "put")
      BY <1>2 DEF Goes, Nothing, Written, Filed, Committed, Leaves
    <3> QED
      BY <2>1, <3>1, <3>2, <3>3, BusyPlaced DEF Inv, Untouched
  <2> QED
    BY <2>4, <2>6, <2>7 DEF Inv
<1>3. CASE ProcessEnds
  <2>1. \A d \in Call : /\ calls'[d].op = calls[d].op /\ calls'[d].pc = calls[d].pc
                        /\ calls'[d].state = "new" <=> calls[d].state = "new"
    BY <1>3 DEF ProcessEnds, Busy, Inv, TypeOK
  <2>2. TypeOK'
    BY <1>3 DEF ProcessEnds, Inv, TypeOK
  <2>3. Placed' /\ Untouched'
    BY <1>3, <2>1 DEF ProcessEnds, Inv, Placed, Untouched, Prog
  <2> QED
    BY <2>2, <2>3 DEF Inv
<1>4. CASE UNCHANGED connVars
  BY <1>4 DEF connVars, Inv, TypeOK, Placed, Untouched, Prog
<1> QED
  BY <1>1, <1>2, <1>3, <1>4, CallSteps

-----------------------------------------------------------------------------
(* What is answered is durable. *)

\* What a call under way has written is there, pending or for good, and for good
\* once it has committed: no other call takes it back.
Progress ==
    \A c \in Call, i \in 1 .. 7 :
        calls[c].state = "busy" /\ i < calls[c].pc /\ Prog(c)[i] = "put" =>
            /\ <<c, i>> \in pending \cup durable
            /\ \A j \in 1 .. 7 :
                  i < j /\ j < calls[c].pc /\ Prog(c)[j] = "commit" => <<c, i>> \in durable

LEMMA NextProgress ==
    ASSUME Inv, Progress, [Next]_connVars
    PROVE  Progress'
<1>1. ASSUME NEW c \in Call, Begun(c) PROVE Progress'
  <2>1. calls'[c].pc = 1
    BY <1>1 DEF Begun, Inv, Placed
  <2> QED
    <3> SUFFICES ASSUME NEW d \in Call, NEW i \in 1 .. 7,
                        calls'[d].state = "busy", i < calls'[d].pc, Prog(d)'[i] = "put"
                 PROVE  /\ <<d, i>> \in pending' \cup durable'
                        /\ \A j \in 1 .. 7 : i < j /\ j < calls'[d].pc /\ Prog(d)'[j] = "commit"
                                                  => <<d, i>> \in durable'
      BY DEF Progress
    <3>1. d # c
      BY <2>1
    <3>2. calls'[d] = calls[d] /\ Prog(d)' = Prog(d)
      BY <1>1, <3>1 DEF Begun, Prog
    <3> QED
      BY <1>1, <3>2 DEF Begun, Progress
<1>2. ASSUME NEW c \in Call, Goes(c) PROVE Progress'
  <2>1. calls[c].state = "busy" /\ calls[c].pc \in 1 .. 7
    BY <1>2, BusyPlaced DEF Goes, Busy
  <2>2. \A d \in Call : Prog(d)' = Prog(d)
    BY <1>2 DEF Goes, Only, Prog
  <2>3. durable \subseteq durable' /\ pending \cup durable \subseteq pending' \cup durable'
    BY <1>2 DEF Goes, Nothing, Written, Filed, Committed
  <2> SUFFICES ASSUME NEW d \in Call, NEW i \in 1 .. 7,
                      calls'[d].state = "busy", i < calls'[d].pc, Prog(d)[i] = "put"
               PROVE  /\ <<d, i>> \in pending' \cup durable'
                      /\ \A j \in 1 .. 7 :
                            i < j /\ j < calls'[d].pc /\ Prog(d)[j] = "commit" => <<d, i>> \in durable'
    BY <2>2 DEF Progress
  <2>4. CASE d # c
    BY <1>2, <2>3, <2>4 DEF Goes, Only, Progress
  <2>5. CASE d = c /\ Again(c)
    BY <2>5 DEF Again
  <2>6. CASE d = c /\ Further(c) /\ i = calls[c].pc
    <3>1. <<c, i>> \in pending' \cup durable'
      BY <1>2, <2>1, <2>6 DEF Goes, Nothing, Written, Filed, Committed, Leaves, Further,
         Answered, Failed, Again
    <3> QED
      BY <2>1, <2>6, <3>1 DEF Further
  <2>7. CASE d = c /\ Further(c) /\ i < calls[c].pc
    <3>1. <<c, i>> \in pending \cup durable
      BY <2>1, <2>7 DEF Progress
    <3>2. ASSUME NEW j \in 1 .. 7, i < j, j < calls[c].pc, Prog(c)[j] = "commit"
          PROVE  <<c, i>> \in durable'
      BY <2>1, <2>3, <2>7, <3>2 DEF Progress
    <3>3. ASSUME Prog(c)[calls[c].pc] = "commit" PROVE <<c, i>> \in durable'
      BY <1>2, <2>1, <2>7, <3>1, <3>3 DEF Goes, Nothing, Written, Filed, Committed, Leaves,
         Further, Answered, Failed, Again
    <3> QED
      BY <2>1, <2>3, <2>7, <3>1, <3>2, <3>3 DEF Further
  <2>8. Further(c) \/ Again(c) \/ d # c
    BY <1>2 DEF Goes, Nothing, Written, Filed, Committed, Leaves, Further, Again, Answered,
       Failed
  <2> QED
    BY <2>1, <2>4, <2>5, <2>6, <2>7, <2>8 DEF Further
<1>3. CASE ProcessEnds
  BY <1>3 DEF ProcessEnds, Busy, Inv, TypeOK, Progress
<1>4. CASE UNCHANGED connVars
  BY <1>4 DEF connVars, Progress, Prog
<1> QED
  BY <1>1, <1>2, <1>3, <1>4, CallSteps

\* A call that moves on to its answer has committed all that it wrote
LEMMA AnswerDurable ==
    ASSUME Inv, Progress, NEW c \in Call, Goes(c), calls'[c].state = "answered",
           calls[c].op \notin Quiet \cup Uncommitted,
           NEW i \in 1 .. calls[c].pc, Prog(c)[i] = "put"
    PROVE  <<c, i>> \in durable'
<1> DEFINE n == calls[c].pc
<1>1. calls[c].state = "busy" /\ calls[c].op \in Op /\ n \in 1 .. Len(Prog(c)) /\ n \in 1 .. 7
  BY BusyPlaced DEF Goes, Busy
<1>2. Answered(c)
  BY DEF Goes, Nothing, Written, Filed, Committed, Leaves, Further, Failed, Again
<1>3. n = Len(Prog(c)) \/ Prog(c)[n] = "see"
  BY <1>2 DEF Answered
<1>4. Flushed(Prog(c), n)
  <2>1. Committing(Prog(c))
    BY <1>1, Programs DEF Prog
  <2> QED
    BY <1>1, <1>3, <2>1 DEF Committing
<1>5. PICK j \in 1 .. n : i < j /\ Prog(c)[j] = "commit"
  BY <1>4 DEF Flushed
<1>6. i \in 1 .. 7 /\ j \in 1 .. 7 /\ i < n /\ <<c, i>> \in pending \cup durable
  <2>1. i \in 1 .. 7 /\ j \in 1 .. 7 /\ i < n
    BY <1>1, <1>5
  <2> QED
    BY <1>1, <2>1 DEF Progress
<1>7. CASE j < n
  <2>1. <<c, i>> \in durable
    BY <1>1, <1>5, <1>6, <1>7 DEF Progress
  <2> QED
    BY <2>1 DEF Goes, Nothing, Written, Filed, Committed
<1>8. CASE j = n
  <2>1. Committed(c)
    BY <1>2, <1>5, <1>8 DEF Goes, Nothing, Written, Filed, Leaves, Answered, Failed, Again
  <2> QED
    BY <1>6, <2>1 DEF Committed
<1> QED
  BY <1>1, <1>5, <1>7, <1>8

LEMMA NextAnswered ==
    ASSUME Inv, Progress, AnsweredIsDurable, [Next]_connVars
    PROVE  AnsweredIsDurable'
<1> SUFFICES ASSUME NEW d \in Call, calls'[d].state = "answered",
                    calls'[d].op \notin Quiet \cup Uncommitted,
                    NEW i \in Nat, i \in 1 .. Len(Prog(d)'), Prog(d)'[i] = "put",
                    i <= calls'[d].pc
             PROVE  <<d, i>> \in durable'
  BY DEF AnsweredIsDurable, Steps, Prog
<1>1. ASSUME calls'[d] = calls[d], durable \subseteq durable' PROVE <<d, i>> \in durable'
  BY <1>1 DEF AnsweredIsDurable, Steps, Prog
<1>2. ASSUME NEW c \in Call, Begun(c) PROVE <<d, i>> \in durable'
  BY <1>1, <1>2 DEF Begun
<1>3. ASSUME NEW c \in Call, Goes(c) PROVE <<d, i>> \in durable'
  <2>1. durable \subseteq durable'
    BY <1>3 DEF Goes, Nothing, Written, Filed, Committed
  <2>2. CASE d # c
    BY <1>1, <1>3, <2>1, <2>2 DEF Goes, Only
  <2>3. CASE d = c
    <3>1. Prog(c)' = Prog(c) /\ calls'[c].op = calls[c].op
      BY <1>3 DEF Goes, Only, Prog
    <3>2. calls'[c].pc = calls[c].pc
      BY <1>3, <2>3 DEF Goes, Nothing, Written, Filed, Committed, Leaves, Further, Answered,
         Failed, Again
    <3>3. i \in 1 .. calls[c].pc
      BY <2>3, <3>2, BusyPlaced, <1>3 DEF Goes, Busy
    <3> QED
      BY <1>3, <2>3, <3>1, <3>3, AnswerDurable
  <2> QED
    BY <2>2, <2>3
<1>4. CASE ProcessEnds
  BY <1>1, <1>4 DEF ProcessEnds, Busy, Inv, TypeOK
<1>5. CASE UNCHANGED connVars
  BY <1>1, <1>5 DEF connVars
<1> QED
  BY <1>2, <1>3, <1>4, <1>5, CallSteps

LEMMA InvAlways == Spec => []Inv
<1>1. Inv /\ [Next]_connVars => Inv'
  BY NextInv
<1> QED
  BY InitInv, <1>1, PTL DEF Spec

\* The calls, what they wrote and what lasts keep to their types.
THEOREM TypeCorrect == Spec => []TypeOK
<1>1. Inv => TypeOK
  BY DEF Inv
<1> QED
  BY <1>1, InvAlways, PTL

\* Whatever calls share the connection, and wherever they fail or the process
\* ends: an operation that commits its own writes, and reports their failures,
\* has what it wrote for good when it answers.
THEOREM AnswersLast == Spec => []AnsweredIsDurable
<1>1. Init => Progress /\ AnsweredIsDurable
  BY DEF Init, Progress, AnsweredIsDurable
<1>2. Inv /\ Progress /\ AnsweredIsDurable /\ [Next]_connVars
        => Progress' /\ AnsweredIsDurable'
  BY NextProgress, NextAnswered
<1> QED
  BY <1>1, <1>2, InvAlways, PTL DEF Spec

-----------------------------------------------------------------------------
(* All or nothing, but for the commits of others. *)

LEMMA NextSplit ==
    ASSUME Inv, Progress, SplitOnlyByOthers, [Next]_connVars
    PROVE  SplitOnlyByOthers'
<1> SUFFICES ASSUME NEW d \in Call, calls'[d].state # "new", calls'[d].op \notin Piecemeal,
                    d \notin foreign'
             PROVE  Lasting(d)' \in {{}, Steps(d, "put")'}
  BY DEF SplitOnlyByOthers
<1>1. ASSUME calls'[d].op = calls[d].op, calls[d].state # "new", d \notin foreign,
             \A i \in Steps(d, "put") : <<d, i>> \in durable' <=> <<d, i>> \in durable
      PROVE  Lasting(d)' \in {{}, Steps(d, "put")'}
  <2>1. Steps(d, "put")' = Steps(d, "put")
    BY <1>1 DEF Steps
  <2>2. Lasting(d)' = Lasting(d)
    BY <1>1, <2>1 DEF Lasting
  <2> QED
    BY <1>1, <2>1, <2>2 DEF SplitOnlyByOthers
<1>2. ASSUME NEW c \in Call, Begun(c) PROVE Lasting(d)' \in {{}, Steps(d, "put")'}
  <2>1. CASE d = c
    <3>1. Steps(d, "put")' \subseteq 1 .. 7
      BY <1>2, <2>1, Programs DEF Begun, Steps, Typed
    <3>2. \A i \in 1 .. 7 : <<d, i>> \notin durable'
      BY <1>2, <2>1 DEF Begun, Inv, Untouched
    <3> QED
      BY <3>1, <3>2 DEF Lasting
  <2>2. CASE d # c
    BY <1>1, <1>2, <2>2 DEF Begun
  <2> QED
    BY <2>1, <2>2
<1>3. ASSUME NEW c \in Call, Goes(c) PROVE Lasting(d)' \in {{}, Steps(d, "put")'}
  <2>1. calls'[d].op = calls[d].op /\ calls[d].state # "new"
    BY <1>3 DEF Goes, Only, Busy
  <2>2. Steps(d, "put")' = Steps(d, "put") /\ Steps(d, "put") \subseteq 1 .. 7
    BY <2>1, BusyPlaced DEF Steps, Prog
  <2>3. d \notin foreign
    BY <1>3 DEF Goes, Nothing, Written, Filed, Committed
  <2>4. CASE ~Committed(c)
    <3>1. \A i \in Steps(d, "put") : <<d, i>> \in durable' <=> <<d, i>> \in durable
      BY <1>3, <2>4 DEF Goes, Nothing, Written, Filed, Leaves, Steps, Prog
    <3> QED
      BY <1>1, <2>1, <2>3, <3>1
  <2>5. CASE Committed(c) /\ d # c
    <3>1. \A i \in 1 .. 7 : <<d, i>> \notin pending
      BY <2>5 DEF Committed
    <3> QED
      BY <1>1, <2>1, <2>2, <2>3, <2>5, <3>1 DEF Committed
  \* The one commit of the call comes after all its writes
  <2>6. CASE Committed(c) /\ d = c
    <3>1. Whole(Prog(c)) /\ Prog(c)[calls[c].pc] = "commit"
      BY <2>1, <2>6, BusyPlaced, Programs DEF Committed, Leaves, Prog
    <3>2. \A i \in Steps(c, "put") : i \in 1 .. 7 /\ i < calls[c].pc /\ Prog(c)[i] = "put"
      BY <2>1, <2>2, <2>6, <3>1, BusyPlaced DEF Whole, Steps, Prog
    <3>3. \A i \in Steps(c, "put") : <<c, i>> \in pending \cup durable
      BY <1>3, <3>2 DEF Progress, Goes, Busy
    <3> QED
      BY <2>2, <2>6, <3>3 DEF Committed, Lasting
  <2> QED
    BY <2>4, <2>5, <2>6
<1>4. CASE ProcessEnds
  <2>1. calls'[d].op = calls[d].op /\ calls[d].state # "new"
    BY <1>4 DEF ProcessEnds, Busy, Inv, TypeOK
  <2> QED
    BY <1>1, <1>4, <2>1 DEF ProcessEnds
<1>5. CASE UNCHANGED connVars
  BY <1>1, <1>5 DEF connVars
<1> QED
  BY <1>2, <1>3, <1>4, <1>5, CallSteps

\* Of an operation that writes several rows and commits once, all or none are
\* there for good, unless another call has committed in the middle of it: the
\* shared connection is the only way to half an operation.
THEOREM HalvesOnlyByOthers == Spec => []SplitOnlyByOthers
<1>1. Init => Progress /\ SplitOnlyByOthers
  BY DEF Init, Progress, SplitOnlyByOthers
<1>2. Inv /\ Progress /\ SplitOnlyByOthers /\ [Next]_connVars
        => Progress' /\ SplitOnlyByOthers'
  BY NextProgress, NextSplit
<1> QED
  BY <1>1, <1>2, InvAlways, PTL DEF Spec
=============================================================================
