----------------------------- MODULE NativeTurn -----------------------------
(***************************************************************************)
(* One turn of the native agent: the loop that sends the history to the    *)
(* model, runs the tool calls of the answer and appends their results.     *)
(*                                                                         *)
(* A safe read is started while the answer is still streaming, as soon as  *)
(* a later call appears; the other calls run after the answer, in batches  *)
(* of adjacent reads or one at a time.  The history lives in memory and is *)
(* written to the transcript message by message and part by part, so a     *)
(* stop, a crash or a pause in between leaves calls without an answer; a   *)
(* resumed turn rebuilds its history from what is there.                   *)
(*                                                                         *)
(* A step is what the loop does up to its next await that others can see.  *)
(***************************************************************************)
EXTENDS Naturals, SequencesExt, FiniteSetsExt, SequenceFilter

CONSTANTS
    MaxCalls,       \* calls in one answer (bound)
    MaxIterations,  \* max_agent_iterations
    MaxParallel,    \* native_runtime.max_parallel_read_tools
    MaxOverflows,   \* reactive_compaction.max_overflow_retries
    MaxFeedback,    \* max_stream_error_feedback_retries
    SnipTrigger,    \* native_runtime.history_snip_trigger_messages
    SnipTail,       \* messages a snip keeps at the end: 12 in the code
    MemoryAfter,    \* background_session_memory.update_interval_messages
    MaxNotices,     \* prefetches and inbox notices in one turn (bound)
    MaxAnswers,     \* answers over all turns (bound)
    MaxResumes      \* resumed turns (bound)

ASSUME TurnAssumption ==
    /\ {MaxCalls, MaxIterations, MaxParallel, SnipTail} \subseteq Nat \ {0}
    /\ {MaxOverflows, MaxFeedback, SnipTrigger, MemoryAfter, MaxNotices, MaxAnswers, MaxResumes}
            \subseteq Nat

VARIABLES
    pc,          \* where the loop is
    iter,        \* iterations begun
    retries,     \* what the stream's errors have used up
    messages,    \* the history in memory
    base,        \* base_prefix_len
    memory,      \* the session has a memory snapshot
    notices,     \* prefetches and inbox notices of the turn
    transcript,  \* the persisted messages of the session
    resumes,     \* resumed turns so far
    answer,      \* answers received, which numbers the calls' ids
    calls,       \* tool_call_chunks: the kinds of the answer's calls
    early,       \* early_tool_runs: the calls started while streaming
    stale,       \* those of them that the finished answer asks differently
    run,         \* the execution of each call
    todo,        \* remaining_calls of the answer that are in no batch yet
    batch,       \* the calls of the batch that is being executed
    at           \* the call the loop has come to

exec    == <<calls, early, stale, run, todo, batch, at>>
history == <<messages, base, memory, notices, transcript>>
count   == <<iter, retries, resumes, answer>>
vars    == <<pc, exec, history, count>>

-----------------------------------------------------------------------------
(* Calls.  A read is read-only and safe beside others; everything else -   *)
(* a shell, an edit, a question to the user - is a write.                  *)

Kinds  == {"read", "write"}
Index  == 1..MaxCalls
Id(i)  == <<answer, i, calls[i]>>
NoCall == <<0, 0, "none">>

Settled == {"ok", "failed", "paused", "skipped"}
Idle    == [i \in Index |-> "none"]
Running == {i \in Index : run[i] = "running"}

Working == {"boot", "head", "stream", "say", "collect", "batch", "answer", "result"}
Ended   == {"done", "failed", "paused", "stopped"}

-----------------------------------------------------------------------------
(* Messages.  A tool message answers the call id with the result of the    *)
(* call of; the two differ when a result is attached to the wrong call.    *)

Plain(role, tag, n) ==
    [role |-> role, tag |-> tag, n |-> n, calls |-> <<>>, id |-> NoCall, of |-> NoCall]

System        == Plain("system", "prompt", 0)
Context       == Plain("system", "context", 0)
Memory        == Plain("system", "memory", 0)
Artifact      == Plain("system", "artifact", 0)
Note(tag)     == Plain("system", tag, 0)
User(n)       == Plain("user", "task", n)
Said(n)       == Plain("assistant", "text", n)
Asked(n, ids) == [Said(n) EXCEPT !.calls = ids]
Tool(id, of)  == [Plain("tool", "result", 0) EXCEPT !.id = id, !.of = of]
Text(of)      == [Plain("assistant", "downgraded", 0) EXCEPT !.of = of]

Answer(n, ids) == IF ids = <<>> THEN Said(n) ELSE Asked(n, ids)

(* Mutant: an answer nobody waits for ends the block.                       *)
ImpatientStep(t, m) ==
    CASE m.role = "tool" /\ m.id \notin t.open -> [t EXCEPT !.block = <<>>, !.open = {}]
      [] m.role = "tool" /\ t.open = {m.id} ->
            [out |-> t.out \o Append(t.block, m), block |-> <<>>, open |-> {}]
      [] m.role = "tool" /\ m.id \in t.open /\ t.open # {m.id} ->
            [t EXCEPT !.block = Append(@, m), !.open = @ \ {m.id}]
      [] m.role # "tool" /\ m.calls # <<>> ->
            [t EXCEPT !.block = <<m>>, !.open = ToSet(m.calls)]
      [] OTHER -> [out |-> Append(t.out, m), block |-> <<>>, open |-> {}]

(* Mutant: a block is passed on with its first answer.                      *)
HastyStep(t, m) ==
    CASE m.role = "tool" /\ m.id \notin t.open -> t
      [] m.role = "tool" /\ m.id \in t.open ->
            [out |-> t.out \o Append(t.block, m), block |-> <<>>, open |-> {}]
      [] m.role # "tool" /\ m.calls # <<>> ->
            [t EXCEPT !.block = <<m>>, !.open = ToSet(m.calls)]
      [] OTHER -> [out |-> Append(t.out, m), block |-> <<>>, open |-> {}]

(* An assistant message is held back until all its calls are answered, and *)
(* dropped with its answers when anything else comes first; an answer      *)
(* nobody waits for is dropped.                                            *)
SanitizerStep(t, m) ==
    CASE m.role = "tool" /\ m.id \notin t.open -> t
      [] m.role = "tool" /\ t.open = {m.id} ->
            [out |-> t.out \o Append(t.block, m), block |-> <<>>, open |-> {}]
      [] m.role = "tool" /\ m.id \in t.open /\ t.open # {m.id} ->
            [t EXCEPT !.block = Append(@, m), !.open = @ \ {m.id}]
      [] m.role # "tool" /\ m.calls # <<>> ->
            [t EXCEPT !.block = <<m>>, !.open = ToSet(m.calls)]
      [] OTHER -> [out |-> Append(t.out, m), block |-> <<>>, open |-> {}]

(* LLM.sanitize_tool_call_history                                          *)
Sanitized(msgs) ==
    LET s[k \in 0..Len(msgs)] == IF k = 0 THEN [out |-> <<>>, block |-> <<>>, open |-> {}]
                                 ELSE SanitizerStep(s[k - 1], msgs[k])
    IN s[Len(msgs)].out

(* _sanitize_tool_message_sequence: an answer to a call the history does   *)
(* not hold becomes text.                                                  *)
Downgraded(msgs) ==
    [k \in DOMAIN msgs |->
        IF /\ msgs[k].role = "tool"
           /\ \A j \in 1..(k - 1) : ~Contains(msgs[j].calls, msgs[k].id)
        THEN Text(msgs[k].of) ELSE msgs[k]]

(* Mutant: neighbours of one role are taken for equal whatever they say.    *)
DedupedByRole(msgs) ==
    LET same(k) == msgs[k] = [msgs[k - 1] EXCEPT !.tag = msgs[k].tag, !.n = msgs[k].n]
        s[k \in 0..Len(msgs)] == IF k = 0 THEN <<>>
                                 ELSE IF k > 1 /\ same(k) THEN s[k - 1]
                                 ELSE Append(s[k - 1], msgs[k])
    IN s[Len(msgs)]

(* _dedupe_transcript_messages: of equal neighbours one is kept.           *)
Deduped(msgs) ==
    LET s[k \in 0..Len(msgs)] == IF k = 0 THEN <<>>
                                 ELSE IF k > 1 /\ msgs[k] = msgs[k - 1] THEN s[k - 1]
                                 ELSE Append(s[k - 1], msgs[k])
    IN s[Len(msgs)]

(* The first n messages, or all of them.                                   *)
UpToLen(msgs, n) == SubSeq(msgs, 1, IF n < Len(msgs) THEN n ELSE Len(msgs))

(* _apply_history_snip: the prefix, a note and the tail are kept.          *)
Snipped(msgs, b) ==
    IF Len(msgs) <= SnipTrigger \/ Len(msgs) <= b + SnipTail THEN msgs
    ELSE UpToLen(msgs, b) \o <<Note("snip")>>
            \o SubSeq(msgs, Len(msgs) - SnipTail + 1, Len(msgs))

(* _consume_ready_prefetch: before the last message of the prefix.         *)
Prefetched(msgs, b) ==
    UpToLen(msgs, b - 1) \o <<Note("prefetch")>> \o SubSeq(msgs, b, Len(msgs))

(* _reinject_session_memory: in second place, replacing the one there.     *)
Reminded(msgs, mem) ==
    IF ~mem THEN msgs
    ELSE <<msgs[1], Memory>>
            \o SubSeq(msgs, IF Len(msgs) > 1 /\ msgs[2] = Memory THEN 3 ELSE 2, Len(msgs))

(* _reinject_runtime_artifacts: after the leading system messages.  The    *)
(* resume envelope is always among them.                                   *)
Rearmed(msgs) ==
    LET bare == Kept(msgs, ToSet(msgs) \ {Artifact})
        lead == Min({k \in 1..Len(bare) + 1 : k >= Len(bare) \/ bare[k + 1].role # "system"})
    IN UpToLen(bare, lead) \o <<Artifact>> \o SubSeq(bare, lead + 1, Len(bare))

Pipeline(msgs, b, mem, pressed) ==
    Downgraded(Deduped(Rearmed(Reminded(IF pressed THEN Snipped(msgs, b) ELSE msgs, mem))))

(* _truncate_to_last_clean_user_turn, empty when no user message is left.  *)
Truncated ==
    LET users == {k \in base + 1..Len(messages) : messages[k].role = "user"}
    IN IF users = {} THEN <<>> ELSE Sanitized(SubSeq(messages, 1, Max(users)))

-----------------------------------------------------------------------------
(* The transcript.  An answer is written in two parts: the output, which   *)
(* names only its tool, and the result, which carries the call's id.       *)

Entry(role, n)  == [role |-> role, n |-> n, calls |-> <<>>, of |-> NoCall, full |-> FALSE]
UserEntry(n)    == Entry("user", n)
TurnEntry(n)    == Entry("turn", n)
AnswerEntry(of) == [Entry("answer", 0) EXCEPT !.of = of]

(* _resolve_resume_tool_result_id without an id: the first unanswered call *)
(* of the same tool, else the first unanswered call.                       *)
Claimed(t, kind) ==
    LET free == {j \in DOMAIN t.asked : t.asked[j] \notin t.used}
        same == {j \in free : t.asked[j][3] = kind}
    IN IF free = {} THEN NoCall ELSE t.asked[Min(IF same # {} THEN same ELSE free)]

(* Mutant: the result's id is not looked at either.                         *)
NamelessParts(t, e) ==
    LET first  == Claimed(t, e.of[3])
        second == Claimed([t EXCEPT !.used = @ \cup {first}], e.of[3])
    IN IF e.full THEN [t EXCEPT !.out = @ \o <<Tool(first, e.of), Tool(second, e.of)>>,
                                !.used = @ \cup {first, second}]
       ELSE [t EXCEPT !.out = Append(@, Tool(first, e.of)), !.used = @ \cup {first}]

(* The messages of an answer's parts, and the calls they answer.           *)
AnswerParts(t, e) ==
    LET claim  == Claimed(t, e.of[3])
        output == IF claim = NoCall THEN Text(e.of) ELSE Tool(claim, e.of)
    IN IF e.full THEN [t EXCEPT !.out = @ \o <<output, Tool(e.of, e.of)>>,
                                !.used = @ \cup {claim, e.of}]
       ELSE [t EXCEPT !.out = Append(@, output), !.used = @ \cup {claim}]

(* One entry of the transcript: what has been asked so far, the calls that *)
(* are used up, the messages.                                              *)
RestoreStep(t, e) ==
    CASE e.role = "user" -> [t EXCEPT !.out = Append(@, User(e.n))]
      [] e.role = "turn" -> [t EXCEPT !.out = Append(@, Answer(e.n, e.calls)),
                                      !.asked = @ \o e.calls]
      [] OTHER           -> AnswerParts(t, e)

(* _restore_transcript_messages                                            *)
Restored(entries) ==
    LET s[k \in 0..Len(entries)] == IF k = 0 THEN [out |-> <<>>, asked |-> <<>>, used |-> {}]
                                    ELSE RestoreStep(s[k - 1], entries[k])
    IN Deduped(s[Len(entries)].out)

(* Mutant: the restored history is used as it is.                           *)
UncheckedResume(entries) == Restored(entries)

(* The history a resumed turn starts from.                                 *)
Resumable(entries) == Sanitized(Restored(entries))

-----------------------------------------------------------------------------
NoRetries == [overflow |-> 0, feedback |-> 0, reset |-> FALSE]

Init ==
    /\ pc = "boot" /\ iter = 0 /\ resumes = 0 /\ answer = 0 /\ retries = NoRetries
    /\ messages = <<>> /\ base = 0 /\ memory = FALSE /\ notices = 0 /\ transcript = <<>>
    /\ calls = <<>> /\ early = {} /\ stale = {} /\ run = Idle
    /\ todo = {} /\ batch = {} /\ at = 0

(* What the loop knows of the answer is forgotten.  A tool that is still   *)
(* running goes on unobserved.                                             *)
Forget ==
    /\ calls' = <<>> /\ early' = {} /\ stale' = {} /\ run' = Idle
    /\ todo' = {} /\ batch' = {} /\ at' = 0

End(how) ==
    /\ pc' = how
    /\ Forget
    /\ messages' = <<>> /\ base' = 0 /\ notices' = 0 /\ iter' = 0 /\ retries' = NoRetries
    /\ UNCHANGED <<memory, transcript, resumes, answer>>

(* The turn's messages: the prompt and the task, or the transcript with    *)
(* the task after it unless it is what was said last.  The task is then    *)
(* seeded into the transcript, once; a reply is always new.                *)
Boot ==
    /\ pc = "boot"
    /\ \E n \in {0, resumes} :
        LET restored == Resumable(transcript)
            again    == resumes > 0 /\ transcript # <<>>
            prefix   == <<System, Context>>
            said     == restored # <<>> /\ Last(restored) = User(n)
        IN /\ messages' = IF ~again THEN Append(prefix, User(n))
                          ELSE prefix \o restored \o (IF said THEN <<>> ELSE <<User(n)>>)
           /\ base' = IF again THEN Len(prefix) ELSE Len(prefix) + 1
           /\ transcript' = IF Contains(transcript, UserEntry(n)) THEN transcript
                            ELSE Append(transcript, UserEntry(n))
    /\ pc' = "head"
    /\ UNCHANGED <<exec, memory, notices, count>>

-----------------------------------------------------------------------------
(* The head of an iteration: a prefetch that is ready goes into the prefix *)
(* and counts, new mail is announced, the context pipeline is applied.     *)
Begin ==
    /\ pc = "head" /\ iter < MaxIterations
    /\ \E prefetch, mail, pressed \in BOOLEAN :
        LET b == IF prefetch THEN base + 1 ELSE base
            p == IF prefetch THEN Prefetched(messages, base) ELSE messages
            m == IF mail THEN Append(p, Note("mail")) ELSE p
        IN /\ notices' = notices + Cardinality({x \in {1, 2} : <<prefetch, mail>>[x]})
           /\ notices' <= MaxNotices
           /\ base' = b
           /\ messages' = Pipeline(m, b, memory, pressed)
    /\ pc' = "stream" /\ iter' = iter + 1
    /\ UNCHANGED <<exec, memory, transcript, retries, resumes, answer>>

OutOfIterations ==
    /\ pc = "head" /\ iter = MaxIterations
    /\ End("failed")

-----------------------------------------------------------------------------
(* The stream.  When a call goes on at index i, the earlier reads may be   *)
(* started: their arguments parse and are predicted to be allowed.         *)
StartEarly(i) ==
    \E start \in SUBSET {j \in 1..(i - 1) : calls[j] = "read" /\ j \notin early} :
        /\ early' = early \cup start
        /\ run' = [j \in Index |-> IF j \in start THEN "running" ELSE run[j]]

NextCall ==
    /\ pc = "stream" /\ Len(calls) < MaxCalls
    /\ \E kind \in Kinds : calls' = Append(calls, kind)
    /\ StartEarly(Len(calls) + 1)
    /\ UNCHANGED <<pc, stale, todo, batch, at, history, count>>

(* More of an earlier call arrives after it was started.                   *)
MoreArguments ==
    /\ pc = "stream"
    /\ \E i \in early \ stale :
        /\ stale' = stale \cup {i}
        /\ StartEarly(i)
    /\ UNCHANGED <<pc, calls, todo, batch, at, history, count>>

(* The answer to the messages msgs is complete.                            *)
Received(msgs) ==
    /\ answer < MaxAnswers
    /\ pc' = "say" /\ at' = 0 /\ answer' = answer + 1
    /\ retries' = [retries EXCEPT !.feedback = 0]
    /\ messages' = Append(msgs, Answer(answer', [i \in DOMAIN calls' |-> Id(i)']))
    /\ UNCHANGED <<todo, batch, base, memory, notices, transcript, iter, resumes>>

StreamEnds ==
    /\ pc = "stream"
    /\ UNCHANGED <<calls, early, stale, run>>
    /\ Received(messages)

(* The next iteration starts over with the messages msgs.                  *)
StartOver(msgs) ==
    /\ pc' = "head"
    /\ messages' = msgs
    /\ Forget
    /\ UNCHANGED <<base, memory, notices, transcript, iter, resumes, answer>>

(* Mutant: the retries are counted one too far.                             *)
OverflowOnceMore ==
    /\ pc = "stream" /\ retries.overflow <= MaxOverflows
    /\ retries' = [retries EXCEPT !.overflow = @ + 1]
    /\ StartOver(Pipeline(messages, base, memory, TRUE))

Overflow ==
    /\ pc = "stream" /\ retries.overflow < MaxOverflows
    /\ retries' = [retries EXCEPT !.overflow = @ + 1]
    /\ StartOver(Pipeline(messages, base, memory, TRUE))

(* _recover_tool_protocol_stream_error: the early reads are cancelled and  *)
(* the cleaned history is asked again without streaming.  early_tool_runs  *)
(* is not cleared, so a call of the new answer that looks like a cancelled *)
(* one is taken for it.                                                    *)
ProtocolRecovered ==
    /\ pc = "stream"
    /\ \E cleaned \in {Sanitized(messages),
                       Append(Sanitized(UpToLen(messages, base)), Note("clean"))},
          new \in SeqOf(Kinds, MaxCalls) :
        /\ calls' = new
        /\ early' = early \cap DOMAIN new
        /\ \E differ \in SUBSET early' :
            /\ \A i \in early' \ differ : new[i] = calls[i]
            /\ stale' = differ
        /\ run' = [i \in Index |-> IF i \in Running THEN "cancelled" ELSE run[i]]
        /\ Received(cleaned)

ProtocolFailed ==
    /\ pc = "stream"
    /\ IF Len(Truncated) > base
       THEN StartOver(Truncated) /\ UNCHANGED retries
       ELSE End("failed")

StreamFailed ==
    /\ pc = "stream"
    /\ IF retries.feedback < MaxFeedback
       THEN /\ retries' = [retries EXCEPT !.feedback = @ + 1]
            /\ StartOver(Append(messages, Note("error")))
       ELSE IF /\ ~retries.reset
               /\ base < Len(Truncated) /\ Len(Truncated) < Len(messages)
       THEN /\ retries' = [retries EXCEPT !.reset = TRUE]
            /\ StartOver(Append(Truncated, Note("error")))
       ELSE End("failed")

-----------------------------------------------------------------------------
(* _persist_assistant_turn: the message, then its calls one by one; then   *)
(* the session memory is updated when enough has been said.  An answer     *)
(* without calls ends the turn, or pauses it at the verification gate.     *)
SayTurn ==
    /\ pc = "say" /\ at = 0
    /\ transcript' = Append(transcript, TurnEntry(answer))
    /\ at' = 1
    /\ UNCHANGED <<pc, calls, early, stale, run, todo, batch, messages, base, memory,
                   notices, count>>

SayCall ==
    /\ pc = "say" /\ at \in DOMAIN calls
    /\ transcript' = [transcript EXCEPT ![Len(transcript)].calls = Append(@, Id(at))]
    /\ at' = at + 1
    /\ UNCHANGED <<pc, calls, early, stale, run, todo, batch, messages, base, memory,
                   notices, count>>

Remember ==
    /\ pc = "say" /\ calls # <<>> /\ at > Len(calls)
    /\ memory' = (memory \/ Len(transcript) >= MemoryAfter)
    /\ pc' = "collect" /\ at' = 1
    /\ UNCHANGED <<calls, early, stale, run, todo, batch, messages, base, notices,
                   transcript, count>>

Finish ==
    /\ pc = "say" /\ calls = <<>> /\ at = 1
    /\ \E how \in {"done", "paused"} : End(how)

-----------------------------------------------------------------------------
(* _collect_execution_results: the early runs are awaited in the order of  *)
(* the calls; a stale one is cancelled and its call executed again.  The   *)
(* mutant goes on to the batches while early runs are under way.           *)
AwaitEarlyLater ==
    /\ pc = "collect" /\ at \in DOMAIN calls /\ at \in early \ stale
    /\ run[at] # "cancelled"
    /\ at' = at + 1
    /\ UNCHANGED <<pc, calls, early, stale, run, todo, batch, history, count>>

AwaitEarly ==
    /\ pc = "collect" /\ at \in DOMAIN calls /\ at \in early \ stale
    /\ run[at] \in Settled
    /\ at' = at + 1
    /\ UNCHANGED <<pc, calls, early, stale, run, todo, batch, history, count>>

AwaitCancelled ==
    /\ pc = "collect" /\ at \in DOMAIN calls /\ at \in early \ stale
    /\ run[at] = "cancelled"
    /\ End("stopped")

LeaveForLater ==
    /\ pc = "collect" /\ at \in DOMAIN calls /\ at \notin early \ stale
    /\ run' = [run EXCEPT ![at] = "none"]
    /\ todo' = todo \cup {at}
    /\ at' = at + 1
    /\ UNCHANGED <<pc, calls, early, stale, batch, history, count>>

Collected ==
    /\ pc = "collect" /\ at > Len(calls)
    /\ pc' = "batch"
    /\ UNCHANGED <<exec, history, count>>

(* ToolPlanner.partition: adjacent reads make one batch.                   *)
LeadingReads == {i \in todo : \A j \in todo : j <= i => calls[j] = "read"}
FirstBatch   == IF LeadingReads = {} THEN {Min(todo)} ELSE LeadingReads
BatchSettled == \A i \in batch : run[i] \in Settled
Converged    == \E i \in batch : run[i] \in {"failed", "paused"}
Waiting      == {i \in batch : run[i] = "none"}

NextBatch ==
    /\ pc = "batch" /\ BatchSettled /\ todo # {}
    /\ batch' = FirstBatch
    /\ todo' = todo \ FirstBatch
    /\ UNCHANGED <<pc, calls, early, stale, run, at, history, count>>

(* _run_parallel: the semaphore lets the calls in by their order; once a   *)
(* read of the batch has failed, those still outside are skipped.          *)
Enter ==
    /\ pc = "batch" /\ Cardinality(batch \cap Running) < MaxParallel
    /\ \E i \in Waiting :
        /\ \A j \in Waiting : i <= j
        /\ run' = [run EXCEPT ![i] = IF Converged THEN "skipped" ELSE "running"]
    /\ UNCHANGED <<pc, calls, early, stale, todo, batch, at, history, count>>

(* A call of a batch fails, must wait for a person or a peer, or finds     *)
(* that another of its batch has failed; what refuses a read fails it too. *)
(* An early read was predicted to be allowed, and its failure is its own.  *)
ToolEnds ==
    /\ \E i \in Running, how \in Settled :
        /\ how # "ok" => i \in batch
        /\ how = "skipped" => Converged
        /\ run' = [run EXCEPT ![i] = how]
    /\ UNCHANGED <<pc, calls, early, stale, todo, batch, at, history, count>>

-----------------------------------------------------------------------------
(* _handle_pause_or_peer_wait: one call that must wait ends the turn       *)
(* before any result of the answer is recorded.                            *)
AllSettled == pc = "batch" /\ BatchSettled /\ todo = {}
MustWait   == \E i \in DOMAIN calls : run[i] = "paused"

Pause ==
    /\ AllSettled /\ MustWait
    /\ End("paused")

Executed ==
    /\ AllSettled /\ ~MustWait
    /\ pc' = "answer" /\ at' = 1
    /\ early' = {} /\ stale' = {} /\ run' = Idle /\ batch' = {}
    /\ UNCHANGED <<calls, todo, history, count>>

(* The results are appended by the order of the calls, each written to the *)
(* transcript in two parts.                                                *)
RecordOutput ==
    /\ pc = "answer"
    /\ messages' = Append(messages, Tool(Id(at), Id(at)))
    /\ transcript' = Append(transcript, AnswerEntry(Id(at)))
    /\ pc' = "result"
    /\ UNCHANGED <<exec, base, memory, notices, count>>

RecordResult ==
    /\ pc = "result"
    /\ transcript' = [transcript EXCEPT ![Len(transcript)].full = TRUE]
    /\ IF at < Len(calls)
       THEN /\ pc' = "answer" /\ at' = at + 1
            /\ UNCHANGED <<calls, early, stale, run, todo, batch>>
       ELSE /\ pc' = "head" /\ Forget
    /\ UNCHANGED <<messages, base, memory, notices, count>>

-----------------------------------------------------------------------------
(* The turn is cancelled, or its process dies.  The last turn is not       *)
(* stopped, so that it deadlocks where its loop would wait for ever.       *)
Stop ==
    /\ pc \in Working /\ resumes < MaxResumes
    /\ End("stopped")

Resume ==
    /\ pc \in Ended \ {"done"} /\ resumes < MaxResumes
    /\ pc' = "boot" /\ resumes' = resumes + 1
    /\ UNCHANGED <<exec, history, iter, retries, answer>>

Rest == pc \in Ended /\ UNCHANGED vars

(* The provider's stream ends, or fails, and a tool returns: it is cut off *)
(* after its timeout.                                                      *)
Loop ==
    \/ Boot \/ Begin \/ OutOfIterations
    \/ NextCall \/ MoreArguments \/ StreamEnds
    \/ Overflow \/ ProtocolRecovered \/ ProtocolFailed \/ StreamFailed
    \/ SayTurn \/ SayCall \/ Remember \/ Finish
    \/ AwaitEarly \/ AwaitCancelled \/ LeaveForLater \/ Collected
    \/ NextBatch \/ Enter \/ ToolEnds
    \/ Pause \/ Executed \/ RecordOutput \/ RecordResult

Next == Loop \/ Stop \/ Resume \/ Rest

Spec == Init /\ [][Next]_vars

-----------------------------------------------------------------------------
(* Type correctness: the retries of a turn stay within their budgets, and  *)
(* an ended turn holds nothing.                                            *)
TypeOK ==
    /\ pc \in Working \cup Ended
    /\ iter \in 0..MaxIterations /\ resumes \in 0..MaxResumes /\ answer \in 0..MaxAnswers
    /\ retries \in [overflow : 0..MaxOverflows, feedback : 0..MaxFeedback, reset : BOOLEAN]
    /\ base \in Nat /\ memory \in BOOLEAN /\ notices \in 0..MaxNotices
    /\ calls \in SeqOf(Kinds, MaxCalls)
    /\ early \subseteq DOMAIN calls /\ stale \subseteq early
    /\ run \in [Index -> Settled \cup {"none", "running", "cancelled"}]
    /\ todo \cup batch \subseteq DOMAIN calls
    /\ at \in 0..(MaxCalls + 1)
    /\ pc \in Ended => messages = <<>> /\ calls = <<>>

(* What a provider accepts: right behind a message with calls stand answers *)
(* to its calls, one to each, in any order, and no other message is one.    *)
Behind(msgs, b, k) == \A j \in b + 1..k : msgs[j].role = "tool"

Answering(msgs, b, k) ==
    /\ Behind(msgs, b, k) /\ msgs[k].id \in ToSet(msgs[b].calls)
    /\ \A j \in b + 1..k - 1 : msgs[j].id # msgs[k].id

WellFormed(msgs) ==
    /\ \A b \in DOMAIN msgs : \A c \in ToSet(msgs[b].calls) :
          \E k \in b + 1..Len(msgs) : Behind(msgs, b, k) /\ msgs[k].id = c
    /\ \A k \in DOMAIN msgs : msgs[k].role = "tool" =>
          \E b \in 1..k - 1 : Answering(msgs, b, k)

(* The prefix a snip keeps, and in which a prefetch puts its note, holds   *)
(* the prompt, notes and the task, and no part of a block of calls.        *)
PrefixIsPlain ==
    \A k \in 1..base : k \in DOMAIN messages => messages[k].role # "tool" /\ messages[k].calls = <<>>

(* Every prefetch lengthens the prefix, and base stays when the dedupe     *)
(* merges equal ones: the prefix of a fresh turn reaches four with its     *)
(* first prefetch, that of a resumed one with its second.  Up to there it  *)
(* is plain, though memory, artifact and notes come and go before it; with *)
(* more prefetches that are merged it reaches into a block.                *)
ShortPrefixIsPlain == base <= 4 => PrefixIsPlain

(* Every request to the model is one a provider accepts, after a resume of *)
(* a half-written transcript, a snip through a block of calls or an error  *)
(* that was fed back: while the prefix is plain.                           *)
RequestsAreWellFormed == pc = "stream" => WellFormed(messages)

(* What the sanitizer repairs is well formed, whatever it was: a resumed    *)
(* history, of which any part of any answer may be missing, and one cut     *)
(* back to its last user message after an error.                            *)
RepairsAreWellFormed == WellFormed(Resumable(transcript)) /\ WellFormed(Truncated)

(* The model is never shown the result of one call as the answer to        *)
(* another, though half of what a transcript records names only the tool.  *)
AnswersAreTheirOwn ==
    \A m \in ToSet(messages) \cup ToSet(Resumable(transcript)) : m.id = NoCall \/ m.id = m.of

(* A write runs beside no other call of its answer, early reads included.  *)
UnsafeRunsAlone ==
    \A i \in Running : calls[i] = "write" => Running = {i}

(* Calls whose results are all in the transcript are in the history of a   *)
(* resumed turn, whatever half-written blocks lie before or after them.    *)
WrittenInFull(k) ==
    LET ids == transcript[k].calls
    IN /\ ids # <<>> /\ k + Len(ids) <= Len(transcript)
       /\ \A j \in DOMAIN ids : transcript[k + j] = [AnswerEntry(ids[j]) EXCEPT !.full = TRUE]

AnsweredBlocksSurviveResume ==
    LET kept == ToSet(Resumable(transcript))
    IN \A k \in DOMAIN transcript :
        WrittenInFull(k) => Asked(transcript[k].n, transcript[k].calls) \in kept
=============================================================================
