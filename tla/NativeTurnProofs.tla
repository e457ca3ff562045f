-------------------------- MODULE NativeTurnProofs --------------------------
(***************************************************************************)
(* For every number of calls, every bound and every order of the stream:   *)
(* a write of an answer runs beside no other call of the answer, the turn  *)
(* keeps within its budgets, neither the history in memory nor one rebuilt *)
(* from the transcript shows the result of one call as the answer to       *)
(* another; what is rebuilt has every block that was written in full; what *)
(* the sanitizer makes of any history is one a provider accepts; and so is *)
(* every request of a turn whose prefix stays plain, as one of up to four  *)
(* messages does.                                                          *)
(*                                                                         *)
(* The third of these has three parts.  The operators on histories come    *)
(* first: each keeps a history of own messages, and the sanitizer makes    *)
(* one of any history in which a foreign result stands under an id nobody  *)
(* waits for.  Then the restoration: from a transcript of the shape the    *)
(* loop writes, a nameless output finds its own call or one of an earlier  *)
(* block.  Then the loop: its steps keep that shape.  The fourth follows a *)
(* message and the answers behind it through the restoration, the dedupe   *)
(* and the sanitizer, over transcripts of that shape.  The fifth and the   *)
(* sixth follow the calls that are not answered yet from message to        *)
(* message: through the sanitizer, from any sequence of messages; through  *)
(* the steps of the loop; and through the snip, which may leave answers    *)
(* without their calls for the pipeline to make text of.  The seventh      *)
(* looks at how a history begins: with the prompt and system messages of   *)
(* which the dedupe merges none that the prefix counts.                    *)
(***************************************************************************)
EXTENDS NativeTurn, SequenceLemmas, FiniteSetTheorems

RunState == Settled \cup {"none", "running", "cancelled"}

(* Only reads run before the calls are collected; the collecting leaves    *)
(* none behind it that runs; and a batch is one call or all reads.         *)
Gathering == {"stream", "say", "collect"}

Types ==
    /\ calls \in Seq(Kinds) /\ Len(calls) <= MaxCalls
    /\ run \in [Index -> RunState]
    /\ early \subseteq DOMAIN calls
    /\ todo \subseteq Index
    /\ at \in Nat

OnlyEarlyReads ==
    pc \in Gathering =>
        \A i \in Running : i \in early /\ calls[i] = "read"

NoneBehind == pc = "collect" => \A i \in Running : i >= at

BatchRuns ==
    /\ pc = "batch" => Running \subseteq batch
    /\ pc # "batch" => batch = {}
    /\ \/ \A i \in batch : calls[i] = "read"
       \/ \E i : batch = {i}

QuietElsewhere == pc \notin Gathering \cup {"batch"} => Running = {}

RunInv == Types /\ OnlyEarlyReads /\ NoneBehind /\ BatchRuns /\ QuietElsewhere

-----------------------------------------------------------------------------
(* What is forgotten does not run, wherever the loop goes from there.      *)
LEMMA ForgetQuiets ==
    ASSUME Forget PROVE Types' /\ Running' = {} /\ batch' = {}
BY TurnAssumption DEF Forget, Types, Running, Idle, RunState, Settled, Index

(* Where nothing runs, the order of the runs is kept.                      *)
LEMMA QuietIsSafe ==
    ASSUME Types', Running' = {}, batch' = {} PROVE RunInv'
BY DEF RunInv, OnlyEarlyReads, NoneBehind, BatchRuns, QuietElsewhere

(* The reads that are started while the answer streams.                    *)
LEMMA StartedReads ==
    ASSUME RunInv, pc = "stream", NEW i \in Nat, i <= Len(calls) + 1, StartEarly(i)
    PROVE  /\ run' \in [Index -> RunState]
           /\ early' \subseteq DOMAIN calls
           /\ \A j \in Index : run'[j] = "running" => j \in early' /\ calls[j] = "read"
<1>1. PICK start \in SUBSET {j \in 1..(i - 1) : calls[j] = "read" /\ j \notin early} :
        /\ early' = early \cup start
        /\ run' = [j \in Index |-> IF j \in start THEN "running" ELSE run[j]]
    BY DEF StartEarly
<1>2. Types /\ OnlyEarlyReads
    BY DEF RunInv
<1>3. run' \in [Index -> RunState]
    BY <1>1, <1>2 DEF Types, RunState
<1>4. DOMAIN calls = 1..Len(calls) /\ Len(calls) \in Nat
    BY <1>2 DEF Types
<1>5. start \subseteq DOMAIN calls
    BY <1>1, <1>4
<1>6. early' \subseteq DOMAIN calls
    BY <1>1, <1>2, <1>5 DEF Types
<1>7. ASSUME NEW j \in Index, run'[j] = "running" PROVE j \in early' /\ calls[j] = "read"
    <2>1. CASE j \in start
        BY <1>1, <2>1
    <2>2. CASE j \notin start
        <3>1. j \in Running
            BY <1>1, <1>7, <2>2 DEF Running
        <3> QED BY <1>1, <1>2, <3>1 DEF OnlyEarlyReads, Gathering
    <2> QED BY <2>1, <2>2
<1> QED BY <1>3, <1>6, <1>7

-----------------------------------------------------------------------------
(* Nothing runs at first.                                                  *)
LEMMA RunInvInit ==
    Init => RunInv
<1> SUFFICES ASSUME Init PROVE RunInv
    OBVIOUS
<1>1. Types /\ Running = {}
    BY TurnAssumption DEF Init, Types, Running, Idle, RunState, Settled, Index, Kinds
<1> QED BY <1>1 DEF Init, RunInv, OnlyEarlyReads, NoneBehind, BatchRuns, QuietElsewhere

(* The stream: only reads start, and a recovered error leaves none of them *)
(* running.                                                                *)
LEMMA StreamKeepsRunInv ==
    ASSUME RunInv,
           NextCall \/ MoreArguments \/ StreamEnds \/ Overflow
           \/ ProtocolRecovered \/ ProtocolFailed \/ StreamFailed
    PROVE  RunInv'
<1> USE DEF Gathering
<1>0. /\ Types /\ OnlyEarlyReads /\ BatchRuns
      /\ Len(calls) \in Nat /\ DOMAIN calls = 1..Len(calls)
    BY DEF RunInv, Types
<1>1. CASE NextCall
    <2>1. PICK kind \in Kinds : calls' = Append(calls, kind)
        BY <1>1 DEF NextCall
    <2>2. /\ calls' \in Seq(Kinds) /\ Len(calls') <= MaxCalls
          /\ DOMAIN calls \subseteq DOMAIN calls'
          /\ \A j \in DOMAIN calls : calls'[j] = calls[j]
        BY <1>0, <1>1, <2>1, TurnAssumption DEF NextCall, Types
    <2>3. /\ run' \in [Index -> RunState] /\ early' \subseteq DOMAIN calls
          /\ \A j \in Index : run'[j] = "running" => j \in early' /\ calls[j] = "read"
        BY <1>0, <1>1, StartedReads DEF NextCall
    <2>4. pc' = "stream" /\ UNCHANGED <<todo, batch, at>> /\ batch = {}
        BY <1>0, <1>1 DEF NextCall, BatchRuns
    <2>5. Types'
        BY <1>0, <2>2, <2>3, <2>4 DEF Types
    <2>6. OnlyEarlyReads'
        BY <2>2, <2>3 DEF OnlyEarlyReads, Running
    <2> QED BY <2>4, <2>5, <2>6 DEF RunInv, NoneBehind, BatchRuns, QuietElsewhere
<1>2. CASE MoreArguments
    <2>1. PICK i \in early \ stale : StartEarly(i)
        BY <1>2 DEF MoreArguments
    <2>2. i \in Nat /\ i <= Len(calls) + 1
        BY <1>0, <2>1 DEF Types
    <2>3. /\ run' \in [Index -> RunState] /\ early' \subseteq DOMAIN calls
          /\ \A j \in Index : run'[j] = "running" => j \in early' /\ calls[j] = "read"
        BY <1>2, <2>1, <2>2, StartedReads DEF MoreArguments
    <2>4. pc = "stream" /\ pc' = "stream" /\ UNCHANGED <<calls, todo, batch, at>> /\ batch = {}
        BY <1>0, <1>2 DEF MoreArguments, BatchRuns
    <2>5. Types'
        BY <1>0, <2>3, <2>4 DEF Types
    <2>6. OnlyEarlyReads'
        BY <2>3, <2>4 DEF OnlyEarlyReads, Running
    <2> QED BY <2>4, <2>5, <2>6 DEF RunInv, NoneBehind, BatchRuns, QuietElsewhere
<1>3. CASE StreamEnds
    <2>1. /\ pc = "stream" /\ pc' = "say" /\ at' = 0
          /\ UNCHANGED <<calls, early, run, todo, batch>> /\ batch = {}
        BY <1>0, <1>3 DEF StreamEnds, Received, BatchRuns
    <2> QED BY <1>0, <2>1 DEF RunInv, Types, OnlyEarlyReads, NoneBehind, BatchRuns,
            QuietElsewhere, Running
<1>4. CASE ProtocolRecovered
    <2>1. PICK new \in SeqOf(Kinds, MaxCalls) :
            /\ calls' = new
            /\ early' = early \cap DOMAIN new
        BY <1>4 DEF ProtocolRecovered
    <2>2. /\ pc' = "say" /\ at' = 0 /\ UNCHANGED <<todo, batch>> /\ batch = {}
          /\ run' = [i \in Index |-> IF i \in Running THEN "cancelled" ELSE run[i]]
        BY <1>0, <1>4 DEF ProtocolRecovered, Received, BatchRuns
    <2>3. new \in Seq(Kinds) /\ Len(new) <= MaxCalls
        BY <2>1, TurnAssumption DEF SeqOf
    <2>4. run' \in [Index -> RunState] /\ Running' = {}
        BY <1>0, <2>2 DEF Types, Running, RunState
    <2>5. Types'
        BY <1>0, <2>1, <2>2, <2>3, <2>4 DEF Types
    <2> QED BY <2>2, <2>4, <2>5, QuietIsSafe
<1>5. CASE Overflow \/ ProtocolFailed \/ StreamFailed
    <2>1. Forget
        BY <1>5 DEF Overflow, ProtocolFailed, StreamFailed, StartOver, End
    <2> QED BY <2>1, ForgetQuiets, QuietIsSafe
<1> QED BY <1>1, <1>2, <1>3, <1>4, <1>5

(* The collecting: a call is left behind only when it has ended, or with   *)
(* its early run put aside.                                                *)
LEMMA CollectKeepsRunInv ==
    ASSUME RunInv, AwaitEarly \/ AwaitCancelled \/ LeaveForLater \/ Collected
    PROVE  RunInv'
<1>0. /\ Types /\ OnlyEarlyReads /\ NoneBehind /\ BatchRuns
      /\ Len(calls) \in Nat /\ DOMAIN calls = 1..Len(calls) /\ at \in Nat
    BY DEF RunInv, Types
<1>1. CASE AwaitEarly
    <2>1. /\ pc = "collect" /\ pc' = "collect" /\ at' = at + 1 /\ at \notin Running
          /\ UNCHANGED <<calls, early, run, todo, batch>> /\ Running' = Running
        BY <1>1 DEF AwaitEarly, Running, Settled
    <2>2. \A i \in Running : i >= at + 1
        BY <1>0, <2>1 DEF NoneBehind, Running, Index
    <2> QED BY <1>0, <2>1, <2>2 DEF RunInv, Types, OnlyEarlyReads, NoneBehind, BatchRuns,
            QuietElsewhere, Gathering
<1>2. CASE AwaitCancelled
    BY <1>2, ForgetQuiets, QuietIsSafe DEF AwaitCancelled, End
<1>3. CASE LeaveForLater
    <2>1. /\ pc = "collect" /\ pc' = "collect" /\ at' = at + 1 /\ at \in DOMAIN calls
          /\ UNCHANGED <<calls, early, batch>> /\ todo' = todo \cup {at}
          /\ run' = [run EXCEPT ![at] = "none"]
        BY <1>3 DEF LeaveForLater
    <2>2. at \in Index
        BY <1>0, <2>1, TurnAssumption DEF Types, Index
    <2>3. Running' \subseteq Running \ {at}
        BY <1>0, <2>1, <2>2 DEF Types, Running
    <2>4. Types'
        BY <1>0, <2>1, <2>2 DEF Types, RunState
    <2>5. \A i \in Running' : i >= at + 1
        BY <1>0, <2>1, <2>3 DEF NoneBehind, Running, Index
    <2> QED BY <1>0, <2>1, <2>3, <2>4, <2>5 DEF RunInv, OnlyEarlyReads, NoneBehind, BatchRuns,
            QuietElsewhere, Gathering
<1>4. CASE Collected
    <2>1. /\ pc = "collect" /\ pc' = "batch" /\ at > Len(calls) /\ UNCHANGED exec
        BY <1>4 DEF Collected
    <2>2. Running = {}
        <3> SUFFICES ASSUME NEW i \in Running PROVE FALSE
            OBVIOUS
        <3>1. i \in DOMAIN calls /\ i >= at
            BY <1>0, <2>1 DEF Types, OnlyEarlyReads, NoneBehind, Gathering
        <3> QED BY <1>0, <2>1, <3>1
    <2>3. Types' /\ Running' = {} /\ batch' = {}
        BY <1>0, <2>1, <2>2 DEF Types, BatchRuns, Running, exec
    <2> QED BY <2>3, QuietIsSafe
<1> QED BY <1>1, <1>2, <1>3, <1>4

(* The batches: the next one starts when nothing runs, and what runs is of *)
(* the batch.                                                              *)
LEMMA BatchKeepsRunInv ==
    ASSUME RunInv, NextBatch \/ Enter \/ ToolEnds \/ Pause \/ Executed
    PROVE  RunInv'
<1>0. Types /\ OnlyEarlyReads /\ NoneBehind /\ BatchRuns /\ QuietElsewhere
    BY DEF RunInv
<1>1. ASSUME pc = "batch", BatchSettled PROVE Running = {}
    BY <1>0, <1>1 DEF BatchRuns, BatchSettled, Running, Settled
<1>2. CASE NextBatch
    <2>1. /\ pc = "batch" /\ pc' = "batch" /\ Running = {}
          /\ batch' = FirstBatch /\ todo' \subseteq todo
          /\ UNCHANGED <<calls, early, run, at>> /\ Running' = Running
        BY <1>1, <1>2 DEF NextBatch, Running
    <2>2. (\A i \in FirstBatch : calls[i] = "read") \/ \E i : FirstBatch = {i}
        <3>1. CASE LeadingReads = {}
            BY <3>1 DEF FirstBatch
        <3>2. CASE LeadingReads # {}
            <4>1. FirstBatch = LeadingReads
                BY <3>2 DEF FirstBatch
            <4>2. ASSUME NEW i \in LeadingReads PROVE calls[i] = "read"
                <5>1. i \in todo /\ i \in Nat
                    BY <1>0, <4>2 DEF LeadingReads, Types, Index
                <5>2. i <= i
                    BY <5>1
                <5> QED BY <4>2, <5>1, <5>2 DEF LeadingReads
            <4> QED BY <4>1, <4>2
        <3> QED BY <3>1, <3>2
    <2>3. Types'
        BY <1>0, <2>1 DEF Types
    <2> QED BY <2>1, <2>2, <2>3 DEF RunInv, OnlyEarlyReads, NoneBehind, BatchRuns,
            QuietElsewhere, Gathering
<1>3. CASE Enter
    <2>1. PICK i \in Waiting :
            run' = [run EXCEPT ![i] = IF Converged THEN "skipped" ELSE "running"]
        BY <1>3 DEF Enter
    <2>2. /\ pc = "batch" /\ pc' = "batch" /\ i \in batch
          /\ UNCHANGED <<calls, early, todo, batch, at>>
        BY <1>3, <2>1 DEF Enter, Waiting
    <2>3. Running' \subseteq Running \cup {i}
        BY <1>0, <2>1 DEF Types, Running
    <2>4. Types'
        BY <1>0, <2>1, <2>2 DEF Types, RunState, Settled
    <2> QED BY <1>0, <2>2, <2>3, <2>4 DEF RunInv, OnlyEarlyReads, NoneBehind, BatchRuns,
            QuietElsewhere, Gathering
<1>4. CASE ToolEnds
    <2>1. PICK i \in Running, how \in Settled : run' = [run EXCEPT ![i] = how]
        BY <1>4 DEF ToolEnds
    <2>2. UNCHANGED <<pc, calls, early, todo, batch, at>>
        BY <1>4 DEF ToolEnds
    <2>3. Running' \subseteq Running
        BY <1>0, <2>1 DEF Types, Running
    <2>4. Types'
        BY <1>0, <2>1, <2>2 DEF Types, RunState, Settled
    <2> QED BY <1>0, <2>2, <2>3, <2>4 DEF RunInv, OnlyEarlyReads, NoneBehind, BatchRuns,
            QuietElsewhere
<1>5. CASE Pause
    BY <1>5, ForgetQuiets, QuietIsSafe DEF Pause, End
<1>6. CASE Executed
    <2>1. /\ early' = {} /\ run' = Idle /\ batch' = {} /\ at' = 1 /\ UNCHANGED <<calls, todo>>
        BY <1>6 DEF Executed
    <2>2. Types' /\ Running' = {}
        BY <1>0, <2>1 DEF Types, Running, Idle, RunState, Settled
    <2> QED BY <2>1, <2>2, QuietIsSafe
<1> QED BY <1>2, <1>3, <1>4, <1>5, <1>6

(* The rest of the loop: before the stream, while the answer is written    *)
(* down, and when the turn ends, stops or is resumed.                      *)
LEMMA OthersKeepRunInv ==
    ASSUME RunInv,
           \/ Boot \/ Begin \/ OutOfIterations \/ SayTurn \/ SayCall \/ Remember \/ Finish
           \/ RecordOutput \/ RecordResult \/ Stop \/ Resume \/ Rest
    PROVE  RunInv'
<1>0. Types /\ OnlyEarlyReads /\ NoneBehind /\ BatchRuns /\ QuietElsewhere
    BY DEF RunInv
<1>1. CASE OutOfIterations \/ Finish \/ Stop
    <2>1. Forget
        BY <1>1 DEF OutOfIterations, Finish, Stop, End
    <2> QED BY <2>1, ForgetQuiets, QuietIsSafe
<1>2. CASE Boot \/ Begin \/ RecordOutput \/ Resume \/ Rest
    <2>1. /\ UNCHANGED exec
          /\ pc' = pc \/ (pc \notin Gathering \cup {"batch"} /\ pc' \notin {"batch", "collect"})
        BY <1>2 DEF Boot, Begin, RecordOutput, Resume, Rest, Ended, Gathering, vars, exec
    <2> QED BY <1>0, <2>1 DEF RunInv, Types, OnlyEarlyReads, NoneBehind, BatchRuns,
            QuietElsewhere, Running, exec
<1>3. CASE SayTurn \/ SayCall \/ Remember
    <2>1. /\ pc = "say" /\ pc' \in {"say", "collect"} /\ at' \in Nat
          /\ pc' = "collect" => at' = 1
          /\ UNCHANGED <<calls, early, run, todo, batch>> /\ batch = {}
        BY <1>0, <1>3 DEF SayTurn, SayCall, Remember, Types, BatchRuns
    <2>2. \A i \in Running : i >= 1
        BY DEF Running, Index
    <2> QED BY <1>0, <2>1, <2>2 DEF RunInv, Types, OnlyEarlyReads, NoneBehind, BatchRuns,
            QuietElsewhere, Running, Gathering
<1>4. CASE RecordResult
    <2>1. CASE Forget
        BY <2>1, ForgetQuiets, QuietIsSafe
    <2>2. CASE ~Forget
        <3>1. /\ at' = at + 1 /\ UNCHANGED <<calls, early, run, todo, batch>>
              /\ pc = "result"
            BY <1>4, <2>2 DEF RecordResult
        <3>2. Types' /\ Running' = {} /\ batch' = {}
            BY <1>0, <3>1 DEF Types, BatchRuns, QuietElsewhere, Running, Gathering
        <3> QED BY <3>2, QuietIsSafe
    <2> QED BY <2>1, <2>2
<1> QED BY <1>1, <1>2, <1>3, <1>4

(* Every step keeps the order of the runs.                                 *)
LEMMA RunInvNext ==
    RunInv /\ [Next]_vars => RunInv'
<1> SUFFICES ASSUME RunInv, [Next]_vars PROVE RunInv'
    OBVIOUS
<1>1. CASE Next
    BY <1>1, StreamKeepsRunInv, CollectKeepsRunInv, BatchKeepsRunInv, OthersKeepRunInv
    DEF Next, Loop
<1>2. CASE UNCHANGED vars
    BY <1>2, OthersKeepRunInv DEF vars, exec, RunInv, Types, OnlyEarlyReads, NoneBehind,
       BatchRuns, QuietElsewhere, Running
<1> QED BY <1>1, <1>2

(* In a batch that holds a write nothing else runs, and before the batches *)
(* no write runs at all.                                                   *)
LEMMA RunInvRunsAlone ==
    RunInv => UnsafeRunsAlone
<1> SUFFICES ASSUME RunInv, NEW i \in Running, calls[i] = "write" PROVE Running = {i}
    BY DEF UnsafeRunsAlone
<1>1. pc = "batch"
    BY DEF RunInv, OnlyEarlyReads, QuietElsewhere
<1>2. Running \subseteq batch
    BY <1>1 DEF RunInv, BatchRuns
<1>3. \E k : batch = {k}
    BY <1>2 DEF RunInv, BatchRuns
<1> QED BY <1>2, <1>3

(* A write runs beside no other call of its answer, early reads included,  *)
(* whatever order the stream, its errors and the tools' ends come in.      *)
THEOREM WritesRunAlone ==
    Spec => []UnsafeRunsAlone
<1>1. Init => RunInv
    BY RunInvInit
<1>2. RunInv /\ [Next]_vars => RunInv'
    BY RunInvNext
<1>3. RunInv => UnsafeRunsAlone
    BY RunInvRunsAlone
<1> QED BY <1>1, <1>2, <1>3, PTL DEF Spec

-----------------------------------------------------------------------------
(* The marks into the answer: what is left of it is of it, the place the   *)
(* loop has come to is in reach, and an ended turn holds nothing.          *)
Counts ==
    /\ pc \in Working \cup Ended
    /\ iter \in 0..MaxIterations /\ resumes \in 0..MaxResumes /\ answer \in 0..MaxAnswers
    /\ retries \in [overflow : 0..MaxOverflows, feedback : 0..MaxFeedback, reset : BOOLEAN]
    /\ base \in Nat /\ memory \in BOOLEAN /\ notices \in 0..MaxNotices

Marks ==
    /\ stale \subseteq early
    /\ todo \cup batch \subseteq DOMAIN calls
    /\ pc \notin {"collect", "batch"} => todo = {}
    /\ pc \in {"collect", "batch"} => calls # <<>>
    /\ pc \in {"answer", "result"} => at \in DOMAIN calls
    /\ at <= Len(calls) + 1
    /\ pc \in Ended => messages = <<>> /\ calls = <<>>

TurnInv == RunInv /\ Counts /\ Marks

-----------------------------------------------------------------------------
(* The calls are a sequence of at most MaxCalls kinds.                     *)
LEMMA CallsTyped ==
    ASSUME Types
    PROVE  /\ Len(calls) \in Nat /\ DOMAIN calls = 1..Len(calls) /\ at \in Nat
           /\ calls \in SeqOf(Kinds, MaxCalls)
<1>1. Len(calls) \in Nat /\ DOMAIN calls = 1..Len(calls) /\ at \in Nat
    BY DEF Types
<1>2. Len(calls) \in 0..MaxCalls /\ calls \in [1..Len(calls) -> Kinds]
    BY <1>1, TurnAssumption DEF Types
<1> QED BY <1>1, <1>2 DEF SeqOf

(* What is forgotten leaves no mark.                                       *)
LEMMA ForgetUnmarks ==
    ASSUME Forget, pc' = "head" \/ (pc' \in Ended /\ messages' = <<>>) PROVE Marks'
<1>1. /\ calls' = <<>> /\ early' = {} /\ stale' = {} /\ todo' = {} /\ batch' = {} /\ at' = 0
      /\ pc' \notin {"answer", "result", "collect", "batch"}
      /\ pc' \in Ended => messages' = <<>>
    BY DEF Forget, Ended
<1> QED BY <1>1 DEF Marks

(* The end of a turn resets its counts and its marks.                      *)
LEMMA EndKeepsMarks ==
    ASSUME Counts, NEW how \in Ended, End(how) PROVE Counts' /\ Marks'
<1>1. Marks'
    BY ForgetUnmarks DEF End
<1>2. Counts'
    BY TurnAssumption DEF End, Counts, NoRetries
<1> QED BY <1>1, <1>2

(* An iteration that starts over keeps the counts within their budgets.    *)
LEMMA StartOverKeepsMarks ==
    ASSUME Counts, NEW msgs, StartOver(msgs),
           retries' \in [overflow : 0..MaxOverflows, feedback : 0..MaxFeedback,
                         reset : BOOLEAN]
    PROVE  Counts' /\ Marks'
<1>1. Marks'
    BY ForgetUnmarks DEF StartOver
<1>2. Counts'
    BY DEF StartOver, Counts, Working
<1> QED BY <1>1, <1>2

(* A complete answer is numbered and has used up no feedback.              *)
LEMMA ReceivedKeepsCounts ==
    ASSUME Counts, NEW msgs, Received(msgs) PROVE Counts'
<1>1. /\ answer < MaxAnswers /\ answer' = answer + 1 /\ pc' = "say"
      /\ retries' = [retries EXCEPT !.feedback = 0]
      /\ UNCHANGED <<base, memory, notices, iter, resumes>>
    BY DEF Received
<1>2. answer' \in 0..MaxAnswers
    BY <1>1, TurnAssumption DEF Counts
<1>3. retries' \in [overflow : 0..MaxOverflows, feedback : 0..MaxFeedback, reset : BOOLEAN]
    BY <1>1, TurnAssumption DEF Counts
<1> QED BY <1>1, <1>2, <1>3 DEF Counts, Working

(* At first there is no answer and nothing is marked.                      *)
LEMMA TurnInvInit ==
    Init => TurnInv
<1> SUFFICES ASSUME Init PROVE TurnInv
    OBVIOUS
<1>1. RunInv
    BY RunInvInit
<1>2. Counts
    <2>1. \A n \in {MaxIterations, MaxResumes, MaxAnswers, MaxOverflows, MaxFeedback,
                    MaxNotices} : 0 \in 0..n
        BY TurnAssumption
    <2>2. retries \in [overflow : 0..MaxOverflows, feedback : 0..MaxFeedback, reset : BOOLEAN]
        BY <2>1 DEF Init, NoRetries
    <2> QED BY <2>1, <2>2 DEF Init, Counts, Working
<1>3. Marks
    BY DEF Init, Marks, Ended
<1> QED BY <1>1, <1>2, <1>3 DEF TurnInv

-----------------------------------------------------------------------------
(* The stream: its errors use up a budget each, and a recovered one leaves *)
(* no mark in calls that are gone.                                         *)
LEMMA StreamKeepsMarks ==
    ASSUME TurnInv, RunInv',
           NextCall \/ MoreArguments \/ StreamEnds \/ Overflow
           \/ ProtocolRecovered \/ ProtocolFailed \/ StreamFailed
    PROVE  Counts' /\ Marks'
<1>0. /\ Types /\ Counts /\ Marks /\ pc = "stream" /\ batch = {} /\ todo = {}
      /\ Len(calls) \in Nat /\ DOMAIN calls = 1..Len(calls) /\ at \in Nat
    BY CallsTyped DEF TurnInv, RunInv, BatchRuns, Marks, NextCall, MoreArguments, StreamEnds,
       Overflow, ProtocolRecovered, ProtocolFailed, StreamFailed
<1>1. CASE NextCall
    <2>1. PICK kind \in Kinds : calls' = Append(calls, kind)
        BY <1>1 DEF NextCall
    <2>2. Len(calls') = Len(calls) + 1
        BY <1>0, <2>1 DEF Types
    <2>3. /\ pc' = "stream" /\ UNCHANGED <<stale, todo, batch, at, history, count>>
          /\ early \subseteq early'
        BY <1>0, <1>1 DEF NextCall, StartEarly
    <2>4. Counts'
        BY <1>0, <2>3 DEF Counts, history, count, Working
    <2>5. Marks'
        BY <1>0, <2>2, <2>3 DEF Marks, Ended
    <2> QED BY <2>4, <2>5
<1>2. CASE MoreArguments
    <2>1. PICK i \in early \ stale : stale' = stale \cup {i} /\ StartEarly(i)
        BY <1>2 DEF MoreArguments
    <2>2. /\ pc' = "stream" /\ UNCHANGED <<calls, todo, batch, at, history, count>>
          /\ early \subseteq early'
        BY <1>0, <1>2, <2>1 DEF MoreArguments, StartEarly
    <2>3. Counts'
        BY <1>0, <2>2 DEF Counts, history, count, Working
    <2>4. Marks'
        BY <1>0, <2>1, <2>2 DEF Marks, Ended
    <2> QED BY <2>3, <2>4
<1>3. CASE StreamEnds
    <2>1. /\ pc' = "say" /\ at' = 0 /\ UNCHANGED <<calls, early, stale, todo, batch>>
        BY <1>3 DEF StreamEnds, Received
    <2>2. Marks'
        BY <1>0, <2>1 DEF Marks, Ended
    <2> QED BY <1>0, <1>3, <2>2, ReceivedKeepsCounts DEF StreamEnds
<1>4. CASE ProtocolRecovered
    <2>1. /\ stale' \subseteq early' /\ \E cleaned : Received(cleaned)
        BY <1>4 DEF ProtocolRecovered
    <2>2. /\ pc' = "say" /\ at' = 0 /\ UNCHANGED <<todo, batch>>
        BY <2>1 DEF Received
    <2>3. Len(calls') \in Nat
        BY DEF RunInv, Types
    <2>4. Marks'
        BY <1>0, <2>1, <2>2, <2>3 DEF Marks, Ended
    <2> QED BY <1>0, <2>1, <2>4, ReceivedKeepsCounts
<1>5. CASE Overflow
    <2>1. retries' \in [overflow : 0..MaxOverflows, feedback : 0..MaxFeedback,
                         reset : BOOLEAN]
        <3>1. retries.overflow < MaxOverflows /\ retries.overflow \in Nat
            BY <1>0, <1>5 DEF Overflow, Counts
        <3>2. retries.overflow + 1 \in 0..MaxOverflows
            BY <3>1, TurnAssumption
        <3> QED BY <1>0, <1>5, <3>2 DEF Overflow, Counts
    <2> QED BY <1>0, <1>5, <2>1, StartOverKeepsMarks DEF Overflow
<1>6. CASE ProtocolFailed
    <2>1. CASE Len(Truncated) > base
        BY <1>0, <1>6, <2>1, StartOverKeepsMarks DEF ProtocolFailed, Counts
    <2>2. CASE ~(Len(Truncated) > base)
        BY <1>0, <1>6, <2>2, EndKeepsMarks DEF ProtocolFailed, Ended
    <2> QED BY <2>1, <2>2
<1>7. CASE StreamFailed
    <2>1. CASE retries.feedback < MaxFeedback
        <3>1. retries' \in [overflow : 0..MaxOverflows, feedback : 0..MaxFeedback,
                             reset : BOOLEAN]
            <4>1. retries.feedback + 1 \in 0..MaxFeedback
                BY <1>0, <2>1, TurnAssumption DEF Counts
            <4> QED BY <1>0, <1>7, <2>1, <4>1 DEF StreamFailed, Counts
        <3> QED BY <1>0, <1>7, <2>1, <3>1, StartOverKeepsMarks DEF StreamFailed
    <2>2. CASE retries' = [retries EXCEPT !.reset = TRUE] /\ \E msgs : StartOver(msgs)
        <3>1. retries' \in [overflow : 0..MaxOverflows, feedback : 0..MaxFeedback,
                             reset : BOOLEAN]
            BY <1>0, <2>2 DEF Counts
        <3> QED BY <1>0, <2>2, <3>1, StartOverKeepsMarks
    <2>3. CASE End("failed")
        BY <1>0, <2>3, EndKeepsMarks DEF Ended
    <2> QED BY <1>7, <2>1, <2>2, <2>3 DEF StreamFailed
<1> QED BY <1>1, <1>2, <1>3, <1>4, <1>5, <1>6, <1>7

-----------------------------------------------------------------------------
(* The collecting goes call by call, so it stays one behind the last.      *)
LEMMA CollectKeepsMarks ==
    ASSUME TurnInv, AwaitEarly \/ AwaitCancelled \/ LeaveForLater \/ Collected
    PROVE  Counts' /\ Marks'
<1>0. /\ Types /\ Counts /\ Marks
      /\ Len(calls) \in Nat /\ DOMAIN calls = 1..Len(calls) /\ at \in Nat
    BY CallsTyped DEF TurnInv, RunInv
<1>1. CASE AwaitEarly \/ LeaveForLater
    <2>1. /\ pc = "collect" /\ pc' = "collect" /\ at \in DOMAIN calls /\ at' = at + 1
          /\ UNCHANGED <<calls, early, stale, batch, history, count>>
          /\ todo' \subseteq todo \cup {at}
        BY <1>1 DEF AwaitEarly, LeaveForLater
    <2>2. Counts'
        BY <1>0, <2>1 DEF Counts, history, count, Working
    <2>3. Marks'
        BY <1>0, <2>1 DEF Marks, Ended
    <2> QED BY <2>2, <2>3
<1>2. CASE AwaitCancelled
    BY <1>0, <1>2, EndKeepsMarks DEF AwaitCancelled, Ended
<1>3. CASE Collected
    <2>1. pc = "collect" /\ pc' = "batch" /\ UNCHANGED <<exec, history, count>>
        BY <1>3 DEF Collected
    <2>2. Counts'
        BY <1>0, <2>1 DEF Counts, history, count, Working
    <2>3. Marks'
        BY <1>0, <2>1 DEF Marks, Ended, exec
    <2> QED BY <2>2, <2>3
<1> QED BY <1>1, <1>2, <1>3

(* A batch is of the calls that were left, and the results begin with the  *)
(* first call.                                                             *)
LEMMA BatchKeepsMarks ==
    ASSUME TurnInv, NextBatch \/ Enter \/ ToolEnds \/ Pause \/ Executed
    PROVE  Counts' /\ Marks'
<1>0. /\ Types /\ Counts /\ Marks
      /\ Len(calls) \in Nat /\ DOMAIN calls = 1..Len(calls) /\ at \in Nat
    BY CallsTyped DEF TurnInv, RunInv
<1>1. CASE NextBatch
    <2>1. /\ pc = "batch" /\ pc' = "batch" /\ todo # {}
          /\ batch' = FirstBatch /\ todo' \subseteq todo
          /\ UNCHANGED <<calls, early, stale, at, history, count>>
        BY <1>1 DEF NextBatch
    <2>2. FirstBatch \subseteq todo
        BY <1>0, <2>1, MinIsMember DEF FirstBatch, LeadingReads, Types, Index
    <2>3. Counts'
        BY <1>0, <2>1 DEF Counts, history, count, Working
    <2>4. Marks'
        BY <1>0, <2>1, <2>2 DEF Marks, Ended
    <2> QED BY <2>3, <2>4
<1>2. CASE Enter \/ ToolEnds
    <2>1. UNCHANGED <<pc, calls, early, stale, todo, batch, at, history, count>>
        BY <1>2 DEF Enter, ToolEnds
    <2>2. Counts'
        BY <1>0, <2>1 DEF Counts, history, count
    <2>3. Marks'
        BY <1>0, <2>1 DEF Marks, history
    <2> QED BY <2>2, <2>3
<1>3. CASE Pause
    BY <1>0, <1>3, EndKeepsMarks DEF Pause, Ended
<1>4. CASE Executed
    <2>1. /\ pc = "batch" /\ pc' = "answer" /\ at' = 1 /\ todo = {}
          /\ early' = {} /\ stale' = {} /\ batch' = {}
          /\ UNCHANGED <<calls, todo, history, count>>
        BY <1>4 DEF Executed, AllSettled
    <2>2. Len(calls) > 0
        BY <1>0, <2>1 DEF Marks, Types
    <2>3. Counts'
        BY <1>0, <2>1 DEF Counts, history, count, Working
    <2>4. Marks'
        BY <1>0, <2>1, <2>2 DEF Marks, Ended
    <2> QED BY <2>3, <2>4
<1> QED BY <1>1, <1>2, <1>3, <1>4

(* The rest of the loop: the prefix, the turn as it is written down, the   *)
(* results, and the turn's end, stop and resume.                           *)
LEMMA OthersKeepMarks ==
    ASSUME TurnInv,
           \/ Boot \/ Begin \/ OutOfIterations \/ SayTurn \/ SayCall \/ Remember \/ Finish
           \/ RecordOutput \/ RecordResult \/ Stop \/ Resume \/ Rest
    PROVE  Counts' /\ Marks'
<1>0. /\ Types /\ Counts /\ Marks
      /\ Len(calls) \in Nat /\ DOMAIN calls = 1..Len(calls) /\ at \in Nat
    BY CallsTyped DEF TurnInv, RunInv
<1>1. CASE OutOfIterations \/ Finish \/ Stop
    <2>1. PICK how \in Ended : End(how)
        BY <1>1 DEF OutOfIterations, Finish, Stop, Ended
    <2> QED BY <1>0, <2>1, EndKeepsMarks
<1>2. CASE Boot
    <2>1. /\ pc = "boot" /\ pc' = "head" /\ base' \in Nat
          /\ UNCHANGED <<exec, memory, notices, count>>
        BY <1>2 DEF Boot
    <2>2. Counts'
        BY <1>0, <2>1 DEF Counts, count, Working
    <2>3. Marks'
        BY <1>0, <2>1 DEF Marks, Ended, exec
    <2> QED BY <2>2, <2>3
<1>3. CASE Begin
    <2>1. PICK prefetch, mail \in BOOLEAN :
            /\ notices' = notices + Cardinality({x \in {1, 2} : <<prefetch, mail>>[x]})
            /\ notices' <= MaxNotices
            /\ base' = IF prefetch THEN base + 1 ELSE base
        BY <1>3 DEF Begin
    <2>2. /\ pc = "head" /\ pc' = "stream" /\ iter < MaxIterations /\ iter' = iter + 1
          /\ UNCHANGED <<exec, memory, retries, resumes, answer>>
        BY <1>3 DEF Begin
    <2>3. Cardinality({x \in {1, 2} : <<prefetch, mail>>[x]}) \in Nat
        <3>1. IsFiniteSet({1, 2})
            <4>1. IsFiniteSet(1..2)
                BY FS_Interval, 1 \in Int, 2 \in Int
            <4>2. 1..2 = {1, 2}
                OBVIOUS
            <4> QED BY <4>1, <4>2
        <3> QED BY <3>1, FS_Subset, FS_CardinalityType
    <2>4. notices' \in 0..MaxNotices
        <3>1. notices \in Nat
            BY <1>0 DEF Counts
        <3> QED BY <2>1, <2>3, <3>1, TurnAssumption
    <2>5. iter' \in 0..MaxIterations /\ base' \in Nat
        <3>1. iter \in Nat /\ base \in Nat
            BY <1>0 DEF Counts
        <3> QED BY <2>1, <2>2, <3>1, TurnAssumption
    <2>6. Counts'
        BY <1>0, <2>2, <2>4, <2>5 DEF Counts, Working
    <2>7. Marks'
        BY <1>0, <2>2 DEF Marks, Ended, exec
    <2> QED BY <2>6, <2>7
<1>4. CASE SayTurn \/ SayCall
    <2>1. /\ pc = "say" /\ pc' = "say" /\ (at = 0 \/ at \in DOMAIN calls)
          /\ at' \in {1, at + 1}
          /\ UNCHANGED <<calls, early, stale, todo, batch, base, memory, notices, count>>
        BY <1>4 DEF SayTurn, SayCall
    <2>2. Counts'
        BY <1>0, <2>1 DEF Counts, count, Working
    <2>3. Marks'
        BY <1>0, <2>1 DEF Marks, Ended
    <2> QED BY <2>2, <2>3
<1>5. CASE Remember
    <2>1. /\ pc = "say" /\ pc' = "collect" /\ calls # <<>> /\ at' = 1
          /\ UNCHANGED <<calls, early, stale, todo, batch, base, notices, count>>
        BY <1>5 DEF Remember
    <2>2. memory' \in BOOLEAN
        BY <1>5 DEF Remember
    <2>3. Counts'
        BY <1>0, <2>1, <2>2 DEF Counts, count, Working
    <2>4. Marks'
        BY <1>0, <2>1 DEF Marks, Ended
    <2> QED BY <2>3, <2>4
<1>6. CASE RecordOutput
    <2>1. /\ pc = "answer" /\ pc' = "result"
          /\ UNCHANGED <<exec, base, memory, notices, count>>
        BY <1>6 DEF RecordOutput
    <2>2. Counts'
        BY <1>0, <2>1 DEF Counts, count, Working
    <2>3. Marks'
        BY <1>0, <2>1 DEF Marks, Ended, exec
    <2> QED BY <2>2, <2>3
<1>7. CASE RecordResult
    <2>1. /\ pc = "result" /\ pc' \in {"answer", "head"}
          /\ UNCHANGED <<base, memory, notices, count>>
        BY <1>7 DEF RecordResult
    <2>2. Counts'
        BY <1>0, <2>1 DEF Counts, count, Working
    <2>3. CASE at < Len(calls)
        <3>1. /\ pc' = "answer" /\ at' = at + 1
              /\ UNCHANGED <<calls, early, stale, run, todo, batch>>
            BY <1>7, <2>3 DEF RecordResult
        <3>2. Marks'
            BY <1>0, <2>1, <2>3, <3>1 DEF Marks, Ended
        <3> QED BY <2>2, <3>2
    <2>4. CASE ~(at < Len(calls))
        BY <1>7, <2>2, <2>4, ForgetUnmarks DEF RecordResult
    <2> QED BY <2>3, <2>4
<1>8. CASE Resume
    <2>1. /\ pc \in Ended /\ pc' = "boot" /\ resumes < MaxResumes /\ resumes' = resumes + 1
          /\ UNCHANGED <<exec, history, iter, retries, answer>>
        BY <1>8 DEF Resume
    <2>2. resumes' \in 0..MaxResumes
        BY <1>0, <2>1, TurnAssumption DEF Counts
    <2>3. Counts'
        BY <1>0, <2>1, <2>2 DEF Counts, history, Working
    <2>4. Marks'
        BY <1>0, <2>1 DEF Marks, Ended, exec
    <2> QED BY <2>3, <2>4
<1>9. CASE Rest
    BY <1>0, <1>9 DEF Rest, vars, exec, history, count, Counts, Marks
<1> QED BY <1>1, <1>2, <1>3, <1>4, <1>5, <1>6, <1>7, <1>8, <1>9

(* Every step keeps the counts and the marks.                              *)
LEMMA TurnInvNext ==
    TurnInv /\ [Next]_vars => TurnInv'
<1> SUFFICES ASSUME TurnInv, [Next]_vars PROVE TurnInv'
    OBVIOUS
<1>1. RunInv'
    BY RunInvNext DEF TurnInv
<1>2. Counts' /\ Marks'
    <2>1. CASE Next
        BY <1>1, <2>1, StreamKeepsMarks, CollectKeepsMarks, BatchKeepsMarks, OthersKeepMarks
        DEF Next, Loop
    <2>2. CASE UNCHANGED vars
        BY <2>2 DEF TurnInv, vars, exec, history, count, Counts, Marks
    <2> QED BY <2>1, <2>2
<1> QED BY <1>1, <1>2 DEF TurnInv

(* The types follow.                                                       *)
LEMMA TurnInvTypes ==
    TurnInv => TypeOK
<1> SUFFICES ASSUME TurnInv PROVE TypeOK
    OBVIOUS
<1>1. Types /\ Counts /\ Marks
    BY DEF TurnInv, RunInv
<1>2. at \in 0..(MaxCalls + 1)
    BY <1>1, CallsTyped, TurnAssumption DEF Types, Marks
<1> QED BY <1>1, <1>2, CallsTyped DEF TypeOK, Types, Counts, Marks, RunState

(* The iterations, answers and retries of a turn stay within their         *)
(* budgets, the loop stays within the calls of the answer, and a turn that *)
(* ended holds neither history nor calls.                                  *)
THEOREM TypeCorrect ==
    Spec => []TypeOK
<1>1. Init => TurnInv
    BY TurnInvInit
<1>2. TurnInv /\ [Next]_vars => TurnInv'
    BY TurnInvNext
<1>3. TurnInv => TypeOK
    BY TurnInvTypes
<1> QED BY <1>1, <1>2, <1>3, PTL DEF Spec

-----------------------------------------------------------------------------
(* The messages of a history, and those that show a call its own result.   *)
Roles == {"system", "user", "assistant", "tool"}
Tags  == {"prompt", "context", "memory", "artifact", "snip", "prefetch", "mail", "clean",
          "error", "task", "text", "result", "downgraded"}
Ids   == Nat \X Nat \X {"none", "read", "write"}
Message ==
    {m \in [role : Roles, tag : Tags, n : Nat, calls : Seq(Ids), id : Ids, of : Ids] :
        /\ m.role \in {"tool", "system"} => m.calls = <<>>
        /\ m.role # "tool" => m.id = NoCall}
Own     == {m \in Message : m.id = NoCall \/ m.id = m.of}

(* The id of a call, and the one that stands for none.                     *)
LEMMA IdsTyped ==
    /\ NoCall \in Ids
    /\ \A a, i \in Nat, k \in Kinds : <<a, i, k>> \in Ids
BY DEF Ids, NoCall, Kinds

(* A message the loop itself writes shows no result.                       *)
LEMMA PlainIsOwn ==
    \A role \in Roles, tag \in Tags, n \in Nat : role # "tool" => Plain(role, tag, n) \in Own
<1> TAKE role \in Roles, tag \in Tags, n \in Nat
<1> HAVE role # "tool"
<1>1. <<>> \in Seq(Ids)
    OBVIOUS
<1>2. Plain(role, tag, n) \in
            [role : Roles, tag : Tags, n : Nat, calls : Seq(Ids), id : Ids, of : Ids]
    BY <1>1, IdsTyped DEF Plain
<1>3. LET p == Plain(role, tag, n) IN p.role = role /\ p.id = NoCall /\ p.calls = <<>>
    BY DEF Plain
<1> HIDE DEF Ids
<1> QED BY <1>2, <1>3 DEF Own, Message

(* The prompt, the notes of the loop and the task show no result.          *)
LEMMA ConstantMessagesAreOwn ==
    /\ System \in Own /\ Context \in Own /\ Memory \in Own /\ Artifact \in Own
    /\ \A tag \in Tags : Note(tag) \in Own
    /\ \A n \in Nat : User(n) \in Own
<1>1. \A tag \in Tags : Plain("system", tag, 0) \in Own
    BY PlainIsOwn DEF Roles
<1>2. \A n \in Nat : Plain("user", "task", n) \in Own
    BY PlainIsOwn DEF Roles, Tags
<1> QED BY <1>1, <1>2 DEF System, Context, Memory, Artifact, Note, User, Tags

(* What has no calls of its own keeps none.                                *)
LEMMA ConstantMessagesAskNothing ==
    /\ \A n \in Nat : User(n).calls = <<>>
    /\ \A of \in Ids : Text(of).calls = <<>>
BY DEF User, Text, Plain

(* An answer that became text shows no result as an answer.                *)
LEMMA TextIsOwn ==
    ASSUME NEW of \in Ids PROVE Text(of) \in Own
<1> DEFINE p == Plain("assistant", "downgraded", 0)
<1>1. p \in Own
    BY PlainIsOwn DEF Roles, Tags
<1>2. Text(of) = [p EXCEPT !.of = of]
    BY DEF Text
<1> HIDE DEF p, Ids
<1>3. p \in [role : Roles, tag : Tags, n : Nat, calls : Seq(Ids), id : Ids, of : Ids]
    BY <1>1 DEF Own, Message
<1>4. p.role = "assistant"
    BY DEF p, Plain
<1>5. p.id = NoCall
    BY <1>1, <1>4 DEF Own, Message
<1> QED BY <1>2, <1>3, <1>4, <1>5 DEF Own, Message

(* What the model answers asks for the calls it names and shows no result. *)
LEMMA AnswerIsOwn ==
    ASSUME NEW n \in Nat, NEW ids \in Seq(Ids)
    PROVE  Answer(n, ids) \in Own /\ Answer(n, ids).calls = ids
<1> DEFINE p == Plain("assistant", "text", n)
<1>1. p \in Own
    BY PlainIsOwn DEF Roles, Tags
<1>2. p.role = "assistant" /\ p.calls = <<>>
    BY DEF Plain
<1>3. Answer(n, ids) = IF ids = <<>> THEN p ELSE [p EXCEPT !.calls = ids]
    BY DEF Answer, Asked, Said
<1> HIDE DEF p, Ids
<1>4. /\ p \in [role : Roles, tag : Tags, n : Nat, calls : Seq(Ids), id : Ids, of : Ids]
      /\ p.id = NoCall
    BY <1>1, <1>2 DEF Own, Message
<1> QED BY <1>1, <1>2, <1>3, <1>4 DEF Own, Message

(* A tool message; it is its own when id and result are of one call.       *)
LEMMA ToolIsMessage ==
    ASSUME NEW id \in Ids, NEW of \in Ids
    PROVE  /\ Tool(id, of) \in Message /\ Tool(id, of).calls = <<>>
           /\ Tool(id, of).id = id /\ Tool(id, of).of = of
           /\ id = of => Tool(id, of) \in Own
<1> DEFINE p == Plain("tool", "result", 0)
<1>1. /\ p \in [role : Roles, tag : Tags, n : Nat, calls : Seq(Ids), id : Ids, of : Ids]
      /\ p.role = "tool" /\ p.calls = <<>>
    <2>1. <<>> \in Seq(Ids)
        OBVIOUS
    <2> QED BY <2>1, IdsTyped DEF Plain, Roles, Tags
<1>2. Tool(id, of) = [p EXCEPT !.id = id, !.of = of]
    BY DEF Tool
<1> HIDE DEF p, Ids
<1> QED BY <1>1, <1>2 DEF Own, Message

-----------------------------------------------------------------------------
(* The first messages of a history are a history.                          *)
LEMMA UpToLenIsSeq ==
    ASSUME NEW T, NEW s \in Seq(T), NEW b \in Int
    PROVE  UpToLen(s, b) \in Seq(T)
<1>1. Len(s) \in Nat
    OBVIOUS
<1>2. /\ (IF b < Len(s) THEN b ELSE Len(s)) \in Int
      /\ (IF b < Len(s) THEN b ELSE Len(s)) <= Len(s)
    BY <1>1
<1>3. 1 \in Nat \ {0}
    OBVIOUS
<1> HIDE DEF UpToLen
<1>4. \A c \in Int : c <= Len(s) => SubSeq(s, 1, c) \in Seq(T)
    BY <1>3, PartIsSeq
<1> QED BY <1>2, <1>4 DEF UpToLen

-----------------------------------------------------------------------------
SanitizerStates(T, U) == [out : Seq(T), block : Seq(T), open : SUBSET U]

(* One message keeps the sanitizer in its states.                          *)
LEMMA SanitizerStepTyped ==
    ASSUME NEW T, NEW U, NEW t \in SanitizerStates(T, U), NEW m \in T, ToSet(m.calls) \subseteq U
    PROVE  SanitizerStep(t, m) \in SanitizerStates(T, U)
<1> DEFINE done == [out |-> t.out \o Append(t.block, m), block |-> <<>>, open |-> {}]
           more == [t EXCEPT !.block = Append(@, m), !.open = @ \ {m.id}]
           ask  == [t EXCEPT !.block = <<m>>, !.open = ToSet(m.calls)]
           keep == [out |-> Append(t.out, m), block |-> <<>>, open |-> {}]
<1>0. t.out \in Seq(T) /\ t.block \in Seq(T) /\ t.open \subseteq U /\ <<>> \in Seq(T)
    BY DEF SanitizerStates
<1>1. done \in SanitizerStates(T, U)
    <2>1. Append(t.block, m) \in Seq(T)
        BY <1>0, AppendProperties
    <2>2. t.out \o Append(t.block, m) \in Seq(T)
        BY <1>0, <2>1, ConcatProperties
    <2> QED BY <1>0, <2>2 DEF SanitizerStates
<1>2. more \in SanitizerStates(T, U)
    <2>1. Append(t.block, m) \in Seq(T)
        BY <1>0, AppendProperties
    <2> QED BY <1>0, <2>1 DEF SanitizerStates
<1>3. ask \in SanitizerStates(T, U)
    <2>1. <<m>> \in Seq(T)
        OBVIOUS
    <2> QED BY <1>0, <2>1 DEF SanitizerStates
<1>4. keep \in SanitizerStates(T, U)
    <2>1. Append(t.out, m) \in Seq(T)
        BY <1>0, AppendProperties
    <2> QED BY <1>0, <2>1 DEF SanitizerStates
<1>5. SanitizerStep(t, m) \in {t, done, more, ask, keep}
    BY DEF SanitizerStep
<1> HIDE DEF done, more, ask, keep
<1> QED BY <1>1, <1>2, <1>3, <1>4, <1>5

(* What waits for an answer after a message: nothing more, or its calls.   *)
LEMMA SanitizerStepOpens ==
    ASSUME NEW T, NEW U, NEW t \in SanitizerStates(T, U), NEW m
    PROVE  LET u == SanitizerStep(t, m)
           IN  /\ m.role = "tool" => u.open \subseteq t.open
               /\ m.role # "tool" => u.open \subseteq ToSet(m.calls)
               /\ m.role = "tool" /\ m.id \notin t.open => u = t
<1> DEFINE done == [out |-> t.out \o Append(t.block, m), block |-> <<>>, open |-> {}]
           more == [t EXCEPT !.block = Append(@, m), !.open = @ \ {m.id}]
           ask  == [t EXCEPT !.block = <<m>>, !.open = ToSet(m.calls)]
           keep == [out |-> Append(t.out, m), block |-> <<>>, open |-> {}]
           u    == SanitizerStep(t, m)
<1>1. /\ m.role = "tool" => u \in {t, done, more, keep}
      /\ m.role # "tool" => u \in {ask, keep}
      /\ m.role = "tool" /\ m.id \notin t.open => u = t
    BY DEF SanitizerStep
<1>2. /\ done.open = {} /\ more.open = t.open \ {m.id} /\ ask.open = ToSet(m.calls)
      /\ keep.open = {}
    BY DEF SanitizerStates
<1> HIDE DEF done, more, ask, keep
<1> QED BY <1>1, <1>2

NothingTaken == [out |-> <<>>, block |-> <<>>, open |-> {}]

(* The sanitizer goes through the messages one by one.                     *)
LEMMA SanitizedFold ==
    ASSUME NEW T, NEW msgs \in Seq(T)
    PROVE  \E g : /\ g[0] = NothingTaken /\ Sanitized(msgs) = g[Len(msgs)].out
                  /\ \A k \in 1..Len(msgs) : g[k] = SanitizerStep(g[k - 1], msgs[k])
<1> DEFINE n    == Len(msgs)
           U    == UNION {ToSet(m.calls) : m \in T}
           X    == SanitizerStates(T, U)
           h    == [k \in 1..n |-> [x \in X |-> SanitizerStep(x, msgs[k])]]
           B(f) == [k \in 0..n |-> IF k = 0 THEN NothingTaken
                                   ELSE SanitizerStep(f[k - 1], msgs[k])]
           f    == CHOOSE f : f = B(f)
<1>1. n \in Nat /\ NothingTaken \in X
    BY DEF NothingTaken, SanitizerStates
<1>2. h \in [1..n -> [X -> X]]
    <2>1. ASSUME NEW k \in 1..n, NEW x \in X PROVE SanitizerStep(x, msgs[k]) \in X
        <3>1. msgs[k] \in T /\ ToSet(msgs[k].calls) \subseteq U
            OBVIOUS
        <3> HIDE DEF U
        <3> QED BY <3>1, SanitizerStepTyped
    <2> HIDE DEF X, n
    <2> QED BY <2>1
<1>3. PICK g : IsFold(g, X, NothingTaken, n, h)
    <2> HIDE DEF h, n, X, B, f
    <2> QED BY <1>1, <1>2, FoldExists
<1>4. g = B(g)
    <2>0. g \in [0..n -> X] /\ g[0] = NothingTaken
        BY <1>3 DEF IsFold
    <2>1. ASSUME NEW k \in 1..n PROVE g[k] = SanitizerStep(g[k - 1], msgs[k])
        <3>1. g[k - 1] \in X
            BY <2>0, <1>1
        <3>2. h[k][g[k - 1]] = SanitizerStep(g[k - 1], msgs[k])
            <4> HIDE DEF X, n
            <4> QED BY <3>1
        <3> HIDE DEF h, X
        <3> QED BY <1>3, <3>2 DEF IsFold
    <2>2. ASSUME NEW k \in 0..n PROVE g[k] = B(g)[k]
        <3>1. CASE k = 0
            BY <2>0, <3>1
        <3>2. CASE k # 0
            <4>1. k \in 1..n
                BY <1>1, <3>2
            <4> QED BY <2>1, <3>2, <4>1
        <3> QED BY <3>1, <3>2
    <2> HIDE DEF X, n
    <2> QED BY <2>0, <2>2
<1>5. f = B(f)
    <2> HIDE DEF B
    <2> QED BY <1>4
<1>6. Sanitized(msgs) = f[n].out
    BY DEF Sanitized, NothingTaken
<1>7. f[0] = NothingTaken /\ \A k \in 1..n : f[k] = SanitizerStep(f[k - 1], msgs[k])
    <2>1. B(f)[0] = NothingTaken /\ \A k \in 1..n : B(f)[k] = SanitizerStep(f[k - 1], msgs[k])
        <3> HIDE DEF f, n
        <3> QED BY <1>1
    <2> HIDE DEF B
    <2> QED BY <1>5, <2>1
<1> HIDE DEF f
<1> QED BY <1>6, <1>7

(* The deduplication goes through the messages one by one.                 *)
LEMMA DedupedFold ==
    ASSUME NEW T, NEW msgs \in Seq(T)
    PROVE  \E g : /\ g[0] = <<>> /\ Deduped(msgs) = g[Len(msgs)]
                  /\ \A k \in 1..Len(msgs) :
                        g[k] = IF k > 1 /\ msgs[k] = msgs[k - 1] THEN g[k - 1]
                               ELSE Append(g[k - 1], msgs[k])
<1> DEFINE n       == Len(msgs)
           X       == Seq(T)
           S(k, x) == IF k > 1 /\ msgs[k] = msgs[k - 1] THEN x ELSE Append(x, msgs[k])
           h       == [k \in 1..n |-> [x \in X |-> S(k, x)]]
           B(f)    == [k \in 0..n |-> IF k = 0 THEN <<>>
                                      ELSE IF k > 1 /\ msgs[k] = msgs[k - 1] THEN f[k - 1]
                                      ELSE Append(f[k - 1], msgs[k])]
           f       == CHOOSE f : f = B(f)
<1>1. n \in Nat /\ <<>> \in X
    OBVIOUS
<1>2. h \in [1..n -> [X -> X]]
    <2>1. ASSUME NEW k \in 1..n, NEW x \in X PROVE S(k, x) \in X
        <3>1. msgs[k] \in T
            OBVIOUS
        <3> QED BY <3>1, AppendProperties
    <2> HIDE DEF X, n, S
    <2> QED BY <2>1
<1>3. PICK g : IsFold(g, X, <<>>, n, h)
    <2> DEFINE x0 == <<>>
    <2>1. x0 \in X
        BY <1>1
    <2>2. \E g : IsFold(g, X, x0, n, h)
        <3> HIDE DEF h, n, X, B, f, S, x0
        <3> QED BY <1>1, <1>2, <2>1, FoldExists
    <2> QED BY <2>2
<1>4. g = B(g)
    <2>0. g \in [0..n -> X] /\ g[0] = <<>>
        BY <1>3 DEF IsFold
    <2>1. ASSUME NEW k \in 1..n PROVE g[k] = S(k, g[k - 1])
        <3>1. g[k - 1] \in X
            BY <2>0, <1>1
        <3>2. h[k][g[k - 1]] = S(k, g[k - 1])
            <4> HIDE DEF X, n, S
            <4> QED BY <3>1
        <3> HIDE DEF h, X, S
        <3> QED BY <1>3, <3>2 DEF IsFold
    <2>2. ASSUME NEW k \in 0..n PROVE g[k] = B(g)[k]
        <3>1. CASE k = 0
            BY <2>0, <3>1
        <3>2. CASE k # 0
            <4>1. k \in 1..n
                BY <1>1, <3>2
            <4> QED BY <2>1, <3>2, <4>1
        <3> QED BY <3>1, <3>2
    <2> HIDE DEF X, n
    <2> QED BY <2>0, <2>2
<1>5. f = B(f)
    <2> HIDE DEF B
    <2> QED BY <1>4
<1>6. Deduped(msgs) = f[n]
    BY DEF Deduped
<1>7. f[0] = <<>> /\ \A k \in 1..n : f[k] = S(k, f[k - 1])
    <2>1. B(f)[0] = <<>> /\ \A k \in 1..n : B(f)[k] = S(k, f[k - 1])
        <3> HIDE DEF f, n
        <3> QED BY <1>1
    <2> HIDE DEF B, S
    <2> QED BY <1>5, <2>1
<1> HIDE DEF f
<1> QED BY <1>6, <1>7

(* What a resumed turn has been asked, has used up and shows so far.       *)
NothingRestored == [out |-> <<>>, asked |-> <<>>, used |-> {}]

RestoreStates == [out : Seq(Message), asked : Seq(Ids), used : SUBSET Ids]

-----------------------------------------------------------------------------
(* The last message before k + 1 that asks for calls does not ask for x,   *)
(* and a history may show under the id x, behind it, whatever it likes:    *)
(* nobody waits for x any more.                                            *)
Past(msgs, k, x) ==
    \E j \in 1..k : /\ msgs[j].calls # <<>>
                    /\ \A l \in j..k : x \notin ToSet(msgs[l].calls)

Shadowed(msgs) ==
    \A k \in DOMAIN msgs : msgs[k] \notin Own => Past(msgs, k - 1, msgs[k].id)

(* Before the first message everything is past.                            *)
LEMMA PastNothing ==
    \A msgs, x : ~Past(msgs, 0, x)
BY DEF Past

(* One message more: past is what was past and is not asked by it.         *)
LEMMA PastStep ==
    ASSUME NEW msgs, NEW k \in Nat \ {0}, NEW x
    PROVE  Past(msgs, k, x) <=> /\ x \notin ToSet(msgs[k].calls)
                                /\ msgs[k].calls # <<>> \/ Past(msgs, k - 1, x)
<1>1. ASSUME Past(msgs, k, x)
      PROVE  /\ x \notin ToSet(msgs[k].calls)
             /\ msgs[k].calls # <<>> \/ Past(msgs, k - 1, x)
    <2>1. PICK j \in 1..k : /\ msgs[j].calls # <<>>
                            /\ \A l \in j..k : x \notin ToSet(msgs[l].calls)
        BY <1>1 DEF Past
    <2>2. k \in j..k
        OBVIOUS
    <2>3. x \notin ToSet(msgs[k].calls)
        BY <2>1, <2>2
    <2>4. CASE j = k
        BY <2>1, <2>3, <2>4
    <2>5. CASE j # k
        <3>1. j \in 1..k - 1
            BY <2>5
        <3>2. \A l \in j..k - 1 : x \notin ToSet(msgs[l].calls)
            BY <2>1
        <3>3. Past(msgs, k - 1, x)
            BY <2>1, <3>1, <3>2 DEF Past
        <3> QED BY <2>3, <3>3
    <2> QED BY <2>4, <2>5
<1>2. ASSUME x \notin ToSet(msgs[k].calls), msgs[k].calls # <<>> PROVE Past(msgs, k, x)
    <2>1. k \in 1..k
        OBVIOUS
    <2>2. \A l \in k..k : l = k
        OBVIOUS
    <2> QED BY <1>2, <2>1, <2>2 DEF Past
<1>3. ASSUME x \notin ToSet(msgs[k].calls), Past(msgs, k - 1, x) PROVE Past(msgs, k, x)
    <2>1. PICK j \in 1..k - 1 : /\ msgs[j].calls # <<>>
                                /\ \A l \in j..k - 1 : x \notin ToSet(msgs[l].calls)
        BY <1>3 DEF Past
    <2>2. j \in 1..k
        OBVIOUS
    <2>3. ASSUME NEW l \in j..k PROVE x \notin ToSet(msgs[l].calls)
        <3>1. CASE l = k
            BY <1>3, <3>1
        <3>2. CASE l # k
            <4>1. l \in j..k - 1
                BY <3>2
            <4> QED BY <2>1, <4>1
        <3> QED BY <3>1, <3>2
    <2> QED BY <2>1, <2>2, <2>3 DEF Past
<1> QED BY <1>1, <1>2, <1>3

(* What is past depends on the messages before only.                       *)
LEMMA PastLocal ==
    ASSUME NEW s, NEW t, NEW k \in Nat, \A j \in 1..k : s[j] = t[j], NEW x, Past(s, k, x)
    PROVE  Past(t, k, x)
<1>1. PICK j \in 1..k : /\ s[j].calls # <<>>
                        /\ \A l \in j..k : x \notin ToSet(s[l].calls)
    BY DEF Past
<1>2. \A l \in j..k : l \in 1..k
    OBVIOUS
<1>3. t[j].calls # <<>>
    BY <1>1
<1>4. \A l \in j..k : x \notin ToSet(t[l].calls)
    BY <1>1, <1>2
<1> QED BY <1>3, <1>4 DEF Past

(* Past, behind one more message.                                          *)
LEMMA AppendPast ==
    ASSUME NEW s \in Seq(Message), NEW m \in Message, NEW x
    PROVE  Past(Append(s, m), Len(Append(s, m)), x)
                <=> x \notin ToSet(m.calls) /\ (m.calls # <<>> \/ Past(s, Len(s), x))
<1> DEFINE r == Append(s, m)
<1>1. /\ Len(s) \in Nat /\ Len(r) = Len(s) + 1 /\ r[Len(s) + 1] = m
      /\ \A j \in 1..Len(s) : r[j] = s[j]
    BY AppendProperties
<1> HIDE DEF r
<1>2. Past(r, Len(s), x) <=> Past(s, Len(s), x)
    BY <1>1, PastLocal
<1>3. Past(r, Len(s) + 1, x) <=> /\ x \notin ToSet(r[Len(s) + 1].calls)
                                 /\ r[Len(s) + 1].calls # <<>> \/ Past(r, (Len(s) + 1) - 1, x)
    <2>1. Len(s) + 1 \in Nat \ {0}
        BY <1>1
    <2> QED BY <2>1, PastStep
<1>4. (Len(s) + 1) - 1 = Len(s)
    BY <1>1
<1> QED BY <1>1, <1>2, <1>3, <1>4 DEF r

(* A message behind a history: its own, or under an id that is past.       *)
LEMMA AppendShadowed ==
    ASSUME NEW s \in Seq(Message), NEW m \in Message, Shadowed(s),
           m \notin Own => Past(s, Len(s), m.id)
    PROVE  Shadowed(Append(s, m))
<1> DEFINE r == Append(s, m)
<1>1. /\ Len(s) \in Nat /\ Len(r) = Len(s) + 1 /\ r[Len(s) + 1] = m
      /\ \A j \in 1..Len(s) : r[j] = s[j]
      /\ DOMAIN r = 1..Len(r) /\ DOMAIN s = 1..Len(s)
    BY AppendProperties
<1> HIDE DEF r
<1> SUFFICES ASSUME NEW k \in 1..Len(s) + 1, r[k] \notin Own
             PROVE  Past(r, k - 1, r[k].id)
    BY <1>1 DEF Shadowed, r
<1>2. \A j \in 1..k - 1 : j \in 1..Len(s)
    BY <1>1
<1>3. k - 1 \in Nat /\ \A j \in 1..k - 1 : s[j] = r[j]
    BY <1>1, <1>2
<1>4. Past(s, k - 1, r[k].id)
    <2>1. CASE k = Len(s) + 1
        BY <1>1, <2>1
    <2>2. CASE k # Len(s) + 1
        <3>1. k \in 1..Len(s)
            BY <1>1, <2>2
        <3> QED BY <1>1, <3>1 DEF Shadowed
    <2> QED BY <2>1, <2>2
<1> QED BY <1>3, <1>4, PastLocal

-----------------------------------------------------------------------------
(* Only a tool message shows the result of another call.                   *)
LEMMA ForeignIsTool ==
    \A m \in Message : m \notin Own => m.role = "tool" /\ m.calls = <<>>
BY DEF Message, Own

(* Behind the sanitizer every result is with its call.                     *)
LEMMA SanitizedIsOwn ==
    ASSUME NEW msgs \in Seq(Message), Shadowed(msgs)
    PROVE  Sanitized(msgs) \in Seq(Own)
<1> DEFINE n == Len(msgs)
           X == SanitizerStates(Own, Ids)
<1>1. PICK g : /\ g[0] = NothingTaken /\ Sanitized(msgs) = g[n].out
               /\ \A k \in 1..n : g[k] = SanitizerStep(g[k - 1], msgs[k])
    BY SanitizedFold
<1> DEFINE Waits(k) == \A x \in g[k].open : ~Past(msgs, k, x)
           P        == {k \in 0..n : g[k] \in X /\ Waits(k)}
<1>2. n \in Nat /\ DOMAIN msgs = 1..n /\ \A k \in 1..n : msgs[k] \in Message
    BY ElementOfSeq
<1>3. 0 \in P
    <2>1. g[0] \in X /\ g[0].open = {}
        BY <1>1 DEF NothingTaken, SanitizerStates
    <2> HIDE DEF X, n
    <2> QED BY <1>2, <2>1
<1>4. ASSUME NEW k \in 1..n, k - 1 \in P PROVE k \in P
    <2> DEFINE t == g[k - 1]
               m == msgs[k]
    <2>1. /\ t \in X /\ m \in Message /\ g[k] = SanitizerStep(t, m)
          /\ \A x \in t.open : ~Past(msgs, k - 1, x)
        <3> HIDE DEF X
        <3> QED BY <1>1, <1>2, <1>4
    <2>2. k \in Nat \ {0} /\ k \in 0..n
        BY <1>2
    <2>3. /\ m.role = "tool" => g[k].open \subseteq t.open
          /\ m.role # "tool" => g[k].open \subseteq ToSet(m.calls)
          /\ m.role = "tool" /\ m.id \notin t.open => g[k] = t
        <3> HIDE DEF t, m
        <3> QED BY <2>1, SanitizerStepOpens
    <2>4. m.role = "tool" => m.calls = <<>>
        BY <2>1 DEF Message
    <2>5. Waits(k)
        <3> TAKE x \in g[k].open
        <3>1. Past(msgs, k, x) <=>
                x \notin ToSet(m.calls) /\ (m.calls # <<>> \/ Past(msgs, k - 1, x))
            BY <2>2, PastStep
        <3> HIDE DEF t, m, X
        <3> QED BY <2>1, <2>3, <2>4, <3>1
    <2>6. g[k] \in X
        <3>1. CASE m \in Own
            <4>1. ToSet(m.calls) \subseteq Ids
                <5>1. m.calls \in Seq(Ids)
                    BY <3>1 DEF Own, Message
                <5> HIDE DEF Ids, m
                <5> QED BY <5>1 DEF ToSet
            <4> HIDE DEF t, m
            <4> QED BY <2>1, <3>1, <4>1, SanitizerStepTyped
        <3>2. CASE m \notin Own
            <4>1. m.role = "tool" /\ Past(msgs, k - 1, m.id)
                BY <1>2, <2>1, <3>2, ForeignIsTool DEF Shadowed
            <4>2. m.id \notin t.open
                BY <2>1, <4>1
            <4> HIDE DEF t, m, X
            <4> QED BY <2>1, <2>3, <4>1, <4>2
        <3> QED BY <3>1, <3>2
    <2> HIDE DEF X, n
    <2> QED BY <2>2, <2>5, <2>6
<1>5. n \in P
    <2> HIDE DEF P, n
    <2>1. 0..n \subseteq P
        BY <1>2, <1>3, <1>4, UpTo
    <2> QED BY <1>2, <2>1
<1>6. g[n].out \in Seq(Own)
    <2> HIDE DEF n
    <2> QED BY <1>5 DEF SanitizerStates
<1> QED BY <1>1, <1>6

(* A history of own messages needs no shadow.                              *)
LEMMA OwnIsShadowed ==
    ASSUME NEW msgs \in Seq(Own)
    PROVE  msgs \in Seq(Message) /\ Shadowed(msgs)
<1>1. Own \subseteq Message
    BY DEF Own
<1>2. msgs \in Seq(Message)
    BY <1>1, SeqMonotonic
<1>3. \A k \in DOMAIN msgs : msgs[k] \in Own
    OBVIOUS
<1> QED BY <1>2, <1>3 DEF Shadowed

(* The sanitizer keeps a history of own messages.                          *)
LEMMA SanitizedOwn ==
    ASSUME NEW msgs \in Seq(Own)
    PROVE  Sanitized(msgs) \in Seq(Own)
BY OwnIsShadowed, SanitizedIsOwn

(* Of equal neighbours one is kept, and something of something.            *)
LEMMA DedupedIsSeq ==
    ASSUME NEW T, NEW msgs \in Seq(T)
    PROVE  Deduped(msgs) \in Seq(T) /\ (msgs # <<>> => Deduped(msgs) # <<>>)
<1> DEFINE n == Len(msgs)
<1>1. PICK g : /\ g[0] = <<>> /\ Deduped(msgs) = g[n]
               /\ \A k \in 1..n : g[k] = IF k > 1 /\ msgs[k] = msgs[k - 1] THEN g[k - 1]
                                         ELSE Append(g[k - 1], msgs[k])
    BY DedupedFold
<1> DEFINE P == {k \in 0..n : g[k] \in Seq(T) /\ (k > 0 => g[k] # <<>>)}
<1>2. n \in Nat /\ \A k \in 1..n : msgs[k] \in T
    BY ElementOfSeq
<1>3. 0 \in P
    <2>1. g[0] \in Seq(T)
        BY <1>1
    <2> HIDE DEF n
    <2>2. 0 \in 0..n /\ ~(0 > 0)
        BY <1>2
    <2> QED BY <2>1, <2>2
<1>4. ASSUME NEW k \in 1..n, k - 1 \in P PROVE k \in P
    <2> HIDE DEF n
    <2>1. k \in 0..n /\ g[k - 1] \in Seq(T) /\ (k > 1 => g[k - 1] # <<>>)
        BY <1>2, <1>4
    <2>2. CASE k > 1 /\ msgs[k] = msgs[k - 1]
        BY <1>1, <2>1, <2>2
    <2>3. CASE ~(k > 1 /\ msgs[k] = msgs[k - 1])
        <3>1. g[k] = Append(g[k - 1], msgs[k])
            BY <1>1, <2>3
        <3>2. g[k] \in Seq(T) /\ g[k] # <<>>
            BY <1>2, <2>1, <3>1, AppendProperties
        <3> QED BY <2>1, <3>2
    <2> QED BY <2>2, <2>3
<1>5. n \in P
    <2> HIDE DEF P, n
    <2>1. 0..n \subseteq P
        BY <1>2, <1>3, <1>4, UpTo
    <2> QED BY <1>2, <2>1
<1>6. msgs # <<>> => n > 0
    BY EmptySeq
<1> HIDE DEF n
<1> QED BY <1>1, <1>5, <1>6

(* The dedupe keeps a foreign result under a past id.                      *)
LEMMA DedupedIsShadowed ==
    ASSUME NEW msgs \in Seq(Message), Shadowed(msgs)
    PROVE  Deduped(msgs) \in Seq(Message) /\ Shadowed(Deduped(msgs))
<1> DEFINE n == Len(msgs)
<1>1. PICK g : /\ g[0] = <<>> /\ Deduped(msgs) = g[n]
               /\ \A k \in 1..n : g[k] = IF k > 1 /\ msgs[k] = msgs[k - 1] THEN g[k - 1]
                                         ELSE Append(g[k - 1], msgs[k])
    BY DedupedFold
<1> DEFINE Keeps(k) == \A x \in Ids : Past(msgs, k, x) => Past(g[k], Len(g[k]), x)
           P == {k \in 0..n : g[k] \in Seq(Message) /\ Shadowed(g[k]) /\ Keeps(k)}
<1>2. n \in Nat /\ DOMAIN msgs = 1..n /\ \A k \in 1..n : msgs[k] \in Message
    BY ElementOfSeq
<1>3. 0 \in P
    <2>1. g[0] \in Seq(Message) /\ Shadowed(g[0])
        BY <1>1 DEF Shadowed
    <2>2. Keeps(0)
        BY PastNothing
    <2> HIDE DEF n, Keeps
    <2> QED BY <1>2, <2>1, <2>2
<1>4. ASSUME NEW k \in 1..n, k - 1 \in P PROVE k \in P
    <2> DEFINE m == msgs[k]
    <2>1. /\ k \in 0..n /\ k \in Nat \ {0} /\ m \in Message
          /\ g[k - 1] \in Seq(Message) /\ Shadowed(g[k - 1]) /\ Keeps(k - 1)
        <3> HIDE DEF n, Keeps
        <3> QED BY <1>2, <1>4
    <2>2. \A x : Past(msgs, k, x) <=> x \notin ToSet(m.calls)
                                        /\ (m.calls # <<>> \/ Past(msgs, k - 1, x))
        BY <2>1, PastStep
    <2>3. CASE k > 1 /\ msgs[k] = msgs[k - 1]
        <3>1. g[k] = g[k - 1] /\ k - 1 \in Nat \ {0} /\ msgs[k - 1] = m
            BY <1>1, <2>1, <2>3
        <3>2. \A x : Past(msgs, k - 1, x) <=> x \notin ToSet(m.calls)
                                        /\ (m.calls # <<>> \/ Past(msgs, (k - 1) - 1, x))
            BY <3>1, PastStep
        <3>3. Keeps(k)
            <4> HIDE DEF m, n
            <4> QED BY <2>1, <2>2, <3>1, <3>2
        <3> HIDE DEF n, Keeps
        <3> QED BY <2>1, <3>1, <3>3
    <2>4. CASE ~(k > 1 /\ msgs[k] = msgs[k - 1])
        <3> DEFINE s == g[k - 1]
        <3>1. g[k] = Append(s, m)
            BY <1>1, <2>4
        <3>2. /\ s \in Seq(Message) /\ Shadowed(s)
              /\ \A x \in Ids : Past(msgs, k - 1, x) => Past(s, Len(s), x)
            BY <2>1
        <3>3. m \notin Own => Past(s, Len(s), m.id)
            <4>1. m \notin Own => Past(msgs, k - 1, m.id)
                BY <1>2 DEF Shadowed
            <4>2. m.id \in Ids
                BY <2>1 DEF Message
            <4> HIDE DEF m, s, n
            <4> QED BY <3>2, <4>1, <4>2
        <3> HIDE DEF m, s, n
        <3>4. g[k] \in Seq(Message) /\ Shadowed(g[k])
            BY <2>1, <3>1, <3>2, <3>3, AppendShadowed, AppendProperties
        <3>5. Keeps(k)
            BY <2>1, <2>2, <3>1, <3>2, AppendPast
        <3> HIDE DEF Keeps
        <3> QED BY <2>1, <3>4, <3>5
    <2> QED BY <2>3, <2>4
<1>5. n \in P
    <2> HIDE DEF P, n
    <2>1. 0..n \subseteq P
        BY <1>2, <1>3, <1>4, UpTo
    <2> QED BY <1>2, <2>1
<1> HIDE DEF n
<1> QED BY <1>1, <1>5

-----------------------------------------------------------------------------
(* The transcript: a turn's calls carry its number and their place, later  *)
(* turns have higher numbers, and an answer follows its turn behind the    *)
(* full answers of the calls before it.                                    *)
Entries ==
    {e \in [role : {"user", "turn", "answer"}, n : Nat, calls : Seq(Ids), of : Ids,
            full : BOOLEAN] :
        e.role # "turn" => e.calls = <<>>}

FullBetween(es, b, k) == \A j \in b + 1..k : es[j].role = "answer" /\ es[j].full

Answers(es, b, k) ==
    /\ es[b].role = "turn" /\ FullBetween(es, b, k - 1)
    /\ k - b \in DOMAIN es[b].calls /\ es[k].of = es[b].calls[k - b]

CallsNumbered(e) == \A i \in DOMAIN e.calls : e.calls[i][1] = e.n /\ e.calls[i][2] = i

Recorded(es) ==
    /\ es \in Seq(Entries)
    /\ \A b \in DOMAIN es : es[b].role = "turn" => CallsNumbered(es[b])
    /\ \A a, b \in DOMAIN es :
            a < b /\ es[a].role = "turn" /\ es[b].role = "turn" => es[a].n < es[b].n
    /\ \A k \in DOMAIN es :
            es[k].role = "answer" => \E b \in 1..k - 1 : Answers(es, b, k)

-----------------------------------------------------------------------------
(* What is claimed is of the asked calls, while one is left.               *)
LEMMA ClaimedTyped ==
    ASSUME NEW t \in RestoreStates, NEW kind
    PROVE  /\ Claimed(t, kind) \in Ids
           /\ Claimed(t, kind) \in ToSet(t.asked) \cup {NoCall}
           /\ (\E j \in DOMAIN t.asked : t.asked[j] \notin t.used) =>
                    Claimed(t, kind) \in ToSet(t.asked)
<1> DEFINE free == {j \in DOMAIN t.asked : t.asked[j] \notin t.used}
           same == {j \in free : t.asked[j][3] = kind}
           pool == IF same # {} THEN same ELSE free
<1>1. t.asked \in Seq(Ids) /\ DOMAIN t.asked \subseteq Nat
    BY DEF RestoreStates
<1>2. CASE free = {}
    <2>1. Claimed(t, kind) = NoCall
        BY <1>2 DEF Claimed
    <2>2. \A j \in DOMAIN t.asked : t.asked[j] \in t.used
        BY <1>2
    <2> QED BY <2>1, <2>2, IdsTyped
<1>3. CASE free # {}
    <2>1. Claimed(t, kind) = t.asked[Min(pool)]
        BY <1>3 DEF Claimed
    <2>2. pool \in SUBSET Nat /\ pool # {} /\ pool \subseteq DOMAIN t.asked
        BY <1>1, <1>3
    <2>3. Min(pool) \in pool
        <3> HIDE DEF pool
        <3> QED BY <2>2, MinIsMember
    <2>4. Min(pool) \in DOMAIN t.asked
        BY <2>2, <2>3
    <2> HIDE DEF pool
    <2>5. t.asked[Min(pool)] \in ToSet(t.asked)
        BY <2>4 DEF ToSet
    <2>6. t.asked[Min(pool)] \in Ids
        <3> HIDE DEF Ids
        <3> QED BY <1>1, <2>4
    <2> QED BY <2>1, <2>5, <2>6
<1> QED BY <1>2, <1>3

(* A nameless output finds its own call, or one of an earlier block: the   *)
(* calls of the block c before it have been used, its own has not.         *)
LEMMA ClaimIsNotOfTheBlock ==
    ASSUME NEW t \in RestoreStates, NEW c \in Seq(Ids), NEW d \in Nat, NEW r \in DOMAIN c,
           Len(t.asked) = d + Len(c),
           \A i \in DOMAIN c : t.asked[d + i] = c[i] /\ c[i][2] = i,
           \A j \in 1..d : t.asked[j] \notin ToSet(c),
           \A i \in DOMAIN c : c[i] \in t.used <=> i < r
    PROVE  Claimed(t, c[r][3]) = c[r] \/ Claimed(t, c[r][3]) \notin ToSet(c)
<1> DEFINE free == {j \in DOMAIN t.asked : t.asked[j] \notin t.used}
           same == {j \in free : t.asked[j][3] = c[r][3]}
           m    == Min(same)
<1>1. /\ t.asked \in Seq(Ids) /\ DOMAIN t.asked = 1..Len(t.asked) /\ Len(t.asked) \in Nat
      /\ DOMAIN c = 1..Len(c) /\ Len(c) \in Nat
    BY DEF RestoreStates
<1>2. d + r \in same
    <2>1. d + r \in DOMAIN t.asked /\ t.asked[d + r] = c[r] /\ ~(r < r)
        BY <1>1
    <2>2. c[r] \notin t.used
        BY <2>1
    <2> QED BY <2>1, <2>2
<1>3. m \in same /\ m <= d + r
    <2>1. DOMAIN t.asked \subseteq Nat
        BY <1>1
    <2>2. same \in SUBSET Nat /\ same # {}
        BY <1>2, <2>1
    <2> HIDE DEF same
    <2> QED BY <1>2, <2>2, MinIsMember
<1>4. Claimed(t, c[r][3]) = t.asked[m]
    <2>1. free # {} /\ same # {}
        BY <1>2
    <2> QED BY <2>1 DEF Claimed
<1>5. m \in 1..d + Len(c) /\ t.asked[m] \notin t.used /\ m \in Nat
    BY <1>1, <1>3
<1> HIDE DEF m
<1>6. CASE m <= d
    <2>1. m \in 1..d
        BY <1>5, <1>6
    <2> QED BY <1>4, <2>1
<1>7. CASE m > d
    <2>1. m - d \in DOMAIN c /\ d + (m - d) = m
        BY <1>1, <1>5, <1>7
    <2>2. t.asked[m] = c[m - d]
        BY <2>1
    <2>3. ~(m - d < r)
        BY <1>5, <2>1, <2>2
    <2>4. r \in Nat
        BY <1>1
    <2>5. m - d = r
        BY <1>3, <1>5, <2>3, <2>4
    <2> QED BY <1>4, <2>2, <2>5
<1> QED BY <1>5, <1>6, <1>7

(* One entry keeps the restoration in its states.                          *)
LEMMA RestoreStepTyped ==
    ASSUME NEW t \in RestoreStates, NEW e \in Entries
    PROVE  RestoreStep(t, e) \in RestoreStates
<1> HIDE DEF Ids, Message
<1>0. /\ t.out \in Seq(Message) /\ t.asked \in Seq(Ids) /\ t.used \subseteq Ids
      /\ e.n \in Nat /\ e.calls \in Seq(Ids) /\ e.of \in Ids
    BY DEF RestoreStates, Entries
<1>1. \A m \in Own : m \in Message
    BY DEF Own
<1>2. CASE e.role = "user"
    <2>1. User(e.n) \in Message
        BY <1>0, <1>1, ConstantMessagesAreOwn
    <2>2. Append(t.out, User(e.n)) \in Seq(Message)
        BY <1>0, <2>1, AppendProperties
    <2> QED BY <1>0, <1>2, <2>2 DEF RestoreStep, RestoreStates
<1>3. CASE e.role = "turn"
    <2>1. Answer(e.n, e.calls) \in Message
        BY <1>0, <1>1, AnswerIsOwn
    <2>2. Append(t.out, Answer(e.n, e.calls)) \in Seq(Message)
        BY <1>0, <2>1, AppendProperties
    <2>3. t.asked \o e.calls \in Seq(Ids)
        BY <1>0, ConcatProperties
    <2>4. RestoreStep(t, e) = [t EXCEPT !.out = Append(t.out, Answer(e.n, e.calls)),
                                        !.asked = t.asked \o e.calls]
        BY <1>3 DEF RestoreStep
    <2> QED BY <1>0, <2>2, <2>3, <2>4 DEF RestoreStates
<1>4. CASE e.role = "answer"
    <2> DEFINE claim  == Claimed(t, e.of[3])
               output == IF claim = NoCall THEN Text(e.of) ELSE Tool(claim, e.of)
    <2>1. claim \in Ids
        BY ClaimedTyped
    <2> HIDE DEF claim
    <2>2. output \in Message /\ Tool(e.of, e.of) \in Message
        BY <1>0, <1>1, <2>1, TextIsOwn, ToolIsMessage
    <2>3. RestoreStep(t, e) =
            IF e.full THEN [t EXCEPT !.out = t.out \o <<output, Tool(e.of, e.of)>>,
                                     !.used = t.used \cup {claim, e.of}]
            ELSE [t EXCEPT !.out = Append(t.out, output), !.used = t.used \cup {claim}]
        BY <1>4 DEF RestoreStep, AnswerParts, claim
    <2> HIDE DEF output
    <2>4. <<output, Tool(e.of, e.of)>> \in Seq(Message)
        BY <2>2
    <2>5. t.out \o <<output, Tool(e.of, e.of)>> \in Seq(Message)
        BY <1>0, <2>4, ConcatProperties
    <2>6. Append(t.out, output) \in Seq(Message)
        BY <1>0, <2>2, AppendProperties
    <2>7. t.used \cup {claim, e.of} \subseteq Ids /\ t.used \cup {claim} \subseteq Ids
        BY <1>0, <2>1
    <2>8. CASE e.full
        BY <1>0, <2>3, <2>5, <2>7, <2>8 DEF RestoreStates
    <2>9. CASE ~e.full
        BY <1>0, <2>3, <2>6, <2>7, <2>9 DEF RestoreStates
    <2> QED BY <2>8, <2>9
<1> QED BY <1>2, <1>3, <1>4 DEF Entries

(* The transcript is restored entry by entry.                              *)
LEMMA RestoredFold ==
    ASSUME NEW es \in Seq(Entries)
    PROVE  \E g : /\ g[0] = NothingRestored /\ Restored(es) = Deduped(g[Len(es)].out)
                  /\ \A k \in 1..Len(es) : g[k] = RestoreStep(g[k - 1], es[k])
<1> DEFINE n    == Len(es)
           X    == RestoreStates
           h    == [k \in 1..n |-> [x \in X |-> RestoreStep(x, es[k])]]
           B(f) == [k \in 0..n |-> IF k = 0 THEN NothingRestored
                                   ELSE RestoreStep(f[k - 1], es[k])]
           f    == CHOOSE f : f = B(f)
<1>1. n \in Nat /\ NothingRestored \in X
    BY DEF NothingRestored, RestoreStates
<1>2. h \in [1..n -> [X -> X]]
    <2>1. ASSUME NEW k \in 1..n, NEW x \in X PROVE RestoreStep(x, es[k]) \in X
        <3>1. es[k] \in Entries
            OBVIOUS
        <3> QED BY <3>1, RestoreStepTyped
    <2> HIDE DEF X, n
    <2> QED BY <2>1
<1>3. PICK g : IsFold(g, X, NothingRestored, n, h)
    <2> HIDE DEF h, n, X, B, f
    <2> QED BY <1>1, <1>2, FoldExists
<1>4. g = B(g)
    <2>0. g \in [0..n -> X] /\ g[0] = NothingRestored
        BY <1>3 DEF IsFold
    <2>1. ASSUME NEW k \in 1..n PROVE g[k] = RestoreStep(g[k - 1], es[k])
        <3>1. g[k - 1] \in X
            BY <2>0, <1>1
        <3>2. h[k][g[k - 1]] = RestoreStep(g[k - 1], es[k])
            <4> HIDE DEF X, n
            <4> QED BY <3>1
        <3> HIDE DEF h, X
        <3> QED BY <1>3, <3>2 DEF IsFold
    <2>2. ASSUME NEW k \in 0..n PROVE g[k] = B(g)[k]
        <3>1. CASE k = 0
            BY <2>0, <3>1
        <3>2. CASE k # 0
            <4>1. k \in 1..n
                BY <1>1, <3>2
            <4> QED BY <2>1, <3>2, <4>1
        <3> QED BY <3>1, <3>2
    <2> HIDE DEF X, n
    <2> QED BY <2>0, <2>2
<1>5. f = B(f)
    <2> HIDE DEF B
    <2> QED BY <1>4
<1>6. Restored(es) = Deduped(f[n].out)
    BY DEF Restored, NothingRestored
<1>7. f[0] = NothingRestored /\ \A k \in 1..n : f[k] = RestoreStep(f[k - 1], es[k])
    <2>1. B(f)[0] = NothingRestored /\ \A k \in 1..n : B(f)[k] = RestoreStep(f[k - 1], es[k])
        <3> HIDE DEF f, n
        <3> QED BY <1>1
    <2> HIDE DEF B
    <2> QED BY <1>5, <2>1
<1> HIDE DEF f
<1> QED BY <1>6, <1>7

-----------------------------------------------------------------------------
(* What a restoration holds after k entries: a claimed id is past or its   *)
(* own, what was asked was asked by a turn, what is used was asked, and of *)
(* the block at the end exactly the answered calls are used.               *)
AskedBy(es, k, x) == \E b \in 1..k : es[b].role = "turn" /\ x \in ToSet(es[b].calls)

BlockHeld(c, used, t) ==
    /\ \E d \in Nat : /\ Len(t.asked) = d + Len(c)
                      /\ \A i \in DOMAIN c : t.asked[d + i] = c[i]
                      /\ \A j \in 1..d : t.asked[j] \notin ToSet(c)
    /\ \A i \in DOMAIN c : c[i] \in t.used <=> i < used
    /\ \A x \in Ids : x \notin ToSet(c) => Past(t.out, Len(t.out), x)

OpenBlock(es, k, t) ==
    \A b \in 1..k : es[b].role = "turn" /\ es[b].calls # <<>> /\ FullBetween(es, b, k) =>
                        BlockHeld(es[b].calls, (k - b) + 1, t)

Fits(es, k, t) ==
    /\ t \in RestoreStates /\ Shadowed(t.out)
    /\ \A x \in ToSet(t.asked) : AskedBy(es, k, x)
    /\ t.used \subseteq ToSet(t.asked) \cup {NoCall}
    /\ OpenBlock(es, k, t)

-----------------------------------------------------------------------------
(* Before the first entry nothing is asked and nothing is shown.           *)
LEMMA FitsAtFirst ==
    ASSUME NEW es PROVE Fits(es, 0, NothingRestored)
<1>1. NothingRestored \in RestoreStates /\ Shadowed(NothingRestored.out)
    BY DEF NothingRestored, RestoreStates, Shadowed
<1>2. OpenBlock(es, 0, NothingRestored)
    BY DEF OpenBlock
<1>3. ToSet(NothingRestored.asked) = {} /\ NothingRestored.used = {}
    BY DEF NothingRestored, ToSet
<1> QED BY <1>1, <1>2, <1>3 DEF Fits

(* What has been asked for stays asked for.                                *)
LEMMA AskedLater ==
    ASSUME NEW es, NEW k \in Nat \ {0}, NEW x, AskedBy(es, k - 1, x) PROVE AskedBy(es, k, x)
<1>1. PICK b \in 1..k - 1 : es[b].role = "turn" /\ x \in ToSet(es[b].calls)
    BY DEF AskedBy
<1>2. b \in 1..k
    OBVIOUS
<1> QED BY <1>1, <1>2 DEF AskedBy

(* A message that asks nothing leaves past what is past.                   *)
LEMMA SilentMessage ==
    ASSUME NEW s \in Seq(Message), NEW m \in Message, m.calls = <<>>, NEW x
    PROVE  Past(s, Len(s), x) => Past(Append(s, m), Len(Append(s, m)), x)
<1>1. x \notin ToSet(m.calls)
    BY DEF ToSet
<1> QED BY <1>1, AppendPast

(* A user's message closes the block.                                      *)
LEMMA UserFits ==
    ASSUME NEW es, Recorded(es), NEW k \in 1..Len(es), NEW t, Fits(es, k - 1, t),
           es[k].role = "user"
    PROVE  Fits(es, k, RestoreStep(t, es[k]))
<1> DEFINE u == RestoreStep(t, es[k])
<1> HIDE DEF Ids, Message
<1>1. es[k] \in Entries /\ k \in Nat \ {0} /\ t \in RestoreStates /\ Shadowed(t.out)
    BY DEF Fits, Recorded
<1>2. u = [t EXCEPT !.out = Append(t.out, User(es[k].n))]
    BY DEF RestoreStep
<1>3. u \in RestoreStates
    BY <1>1, RestoreStepTyped
<1>4. u.out = Append(t.out, User(es[k].n)) /\ u.asked = t.asked /\ u.used = t.used
    BY <1>1, <1>2 DEF RestoreStates
<1>5. User(es[k].n) \in Own
    BY <1>1, ConstantMessagesAreOwn DEF Entries
<1>6. Shadowed(u.out)
    <2>1. User(es[k].n) \in Message /\ t.out \in Seq(Message)
        BY <1>1, <1>5 DEF Own, RestoreStates
    <2> QED BY <1>1, <1>4, <1>5, <2>1, AppendShadowed
<1>7. OpenBlock(es, k, u)
    <2> SUFFICES ASSUME NEW b \in 1..k, es[b].role = "turn", FullBetween(es, b, k)
                 PROVE  FALSE
        BY DEF OpenBlock
    <2>1. b # k /\ k \in b + 1..k
        BY <1>1
    <2> QED BY <2>1 DEF FullBetween
<1>8. \A x \in ToSet(u.asked) : AskedBy(es, k, x)
    BY <1>1, <1>4, AskedLater DEF Fits
<1>9. u.used \subseteq ToSet(u.asked) \cup {NoCall}
    BY <1>4 DEF Fits
<1> HIDE DEF u
<1>10. Fits(es, k, u)
    BY <1>3, <1>6, <1>7, <1>8, <1>9 DEF Fits
<1> QED BY <1>10 DEF u

(* A turn opens a block: no call of it is used, and all that was asked     *)
(* before is past.                                                         *)
LEMMA TurnFits ==
    ASSUME NEW es, Recorded(es), NEW k \in 1..Len(es), NEW t, Fits(es, k - 1, t),
           es[k].role = "turn"
    PROVE  Fits(es, k, RestoreStep(t, es[k]))
<1> DEFINE u == RestoreStep(t, es[k])
           c == es[k].calls
           m == Answer(es[k].n, c)
<1> HIDE DEF Ids, Message
<1>1. /\ es[k] \in Entries /\ k \in Nat \ {0} /\ t \in RestoreStates /\ Shadowed(t.out)
      /\ c \in Seq(Ids) /\ es[k].n \in Nat
    <2>1. es[k] \in Entries /\ k \in Nat \ {0} /\ t \in RestoreStates /\ Shadowed(t.out)
        BY DEF Fits, Recorded
    <2> QED BY <2>1 DEF Entries
<1>2. u = [t EXCEPT !.out = Append(t.out, m), !.asked = t.asked \o c]
    BY DEF RestoreStep
<1>3. u \in RestoreStates
    BY <1>1, RestoreStepTyped
<1>4. u.out = Append(t.out, m) /\ u.asked = t.asked \o c /\ u.used = t.used
    BY <1>1, <1>2 DEF RestoreStates
<1>5. m \in Own /\ m.calls = c /\ m \in Message /\ t.out \in Seq(Message)
    BY <1>1, AnswerIsOwn DEF Own, RestoreStates
<1>6. Shadowed(u.out)
    <2> HIDE DEF m
    <2> QED BY <1>1, <1>4, <1>5, AppendShadowed
<1>7. /\ t.asked \in Seq(Ids) /\ Len(t.asked) \in Nat /\ DOMAIN t.asked = 1..Len(t.asked)
      /\ Len(c) \in Nat /\ DOMAIN c = 1..Len(c)
    BY <1>1 DEF RestoreStates
<1>8. /\ Len(u.asked) = Len(t.asked) + Len(c)
      /\ \A j \in 1..Len(t.asked) : u.asked[j] = t.asked[j]
      /\ \A i \in 1..Len(c) : u.asked[Len(t.asked) + i] = c[i]
      /\ ToSet(u.asked) = ToSet(t.asked) \cup ToSet(c)
    <2> HIDE DEF u, c
    <2> QED BY <1>1, <1>4, <1>7, JoinParts
<1>9. \A x \in ToSet(u.asked) : AskedBy(es, k, x)
    <2>1. \A x \in ToSet(t.asked) : AskedBy(es, k, x)
        BY <1>1, AskedLater DEF Fits
    <2>2. \A x \in ToSet(c) : AskedBy(es, k, x)
        <3>1. k \in 1..k
            BY <1>1
        <3> QED BY <3>1 DEF AskedBy
    <2> QED BY <1>8, <2>1, <2>2
<1>10. u.used \subseteq ToSet(u.asked) \cup {NoCall}
    BY <1>4, <1>8 DEF Fits
<1>11. ASSUME NEW x \in ToSet(t.asked) \cup {NoCall} PROVE x \notin ToSet(c)
    <2>1. \A i \in DOMAIN c : c[i][1] = es[k].n /\ c[i][2] = i
        BY DEF Recorded, CallsNumbered
    <2>2. CASE x = NoCall
        <3>1. x[2] = 0
            BY <2>2 DEF NoCall
        <3>2. \A i \in DOMAIN c : c[i] # x
            BY <1>7, <2>1, <3>1
        <3> QED BY <3>2 DEF ToSet
    <2>3. CASE x \in ToSet(t.asked)
        <3>1. PICK b \in 1..k - 1 : es[b].role = "turn" /\ x \in ToSet(es[b].calls)
            BY <2>3 DEF Fits, AskedBy
        <3>2. b \in DOMAIN es /\ k \in DOMAIN es /\ b < k /\ es[b] \in Entries
            BY DEF Recorded
        <3>3. PICK i \in DOMAIN es[b].calls : x = es[b].calls[i]
            BY <3>1 DEF ToSet
        <3>4. x[1] = es[b].n
            BY <3>1, <3>2, <3>3 DEF Recorded, CallsNumbered
        <3>5. es[b].n < es[k].n /\ es[b].n \in Nat
            BY <3>1, <3>2 DEF Recorded, Entries
        <3>6. x[1] # es[k].n
            BY <1>1, <3>4, <3>5
        <3>7. \A j \in DOMAIN c : c[j] # x
            BY <2>1, <3>6
        <3> QED BY <3>7 DEF ToSet
    <2> QED BY <2>2, <2>3
<1>12. OpenBlock(es, k, u)
    <2> SUFFICES ASSUME NEW b \in 1..k, es[b].role = "turn", es[b].calls # <<>>,
                        FullBetween(es, b, k)
                 PROVE  BlockHeld(es[b].calls, (k - b) + 1, u)
        BY DEF OpenBlock
    <2>1. b = k
        <3> SUFFICES ASSUME b # k PROVE FALSE
            OBVIOUS
        <3>1. k \in b + 1..k
            BY <1>1
        <3> QED BY <3>1 DEF FullBetween
    <2>2. (k - b) + 1 = 1
        BY <1>1, <2>1
    <2>3. \A j \in 1..Len(t.asked) : u.asked[j] \notin ToSet(c)
        <3>1. \A j \in 1..Len(t.asked) : t.asked[j] \in ToSet(t.asked)
            BY <1>7 DEF ToSet
        <3> HIDE DEF u, c
        <3> QED BY <1>7, <1>8, <1>11, <3>1
    <2>4. \A i \in DOMAIN c : c[i] \in u.used <=> i < 1
        <3>1. \A i \in DOMAIN c : c[i] \in ToSet(c) /\ ~(i < 1)
            BY <1>7 DEF ToSet
        <3>2. u.used \subseteq ToSet(t.asked) \cup {NoCall}
            BY <1>4 DEF Fits
        <3> HIDE DEF u, c
        <3> QED BY <1>11, <3>1, <3>2
    <2>5. \A x \in Ids : x \notin ToSet(c) => Past(u.out, Len(u.out), x)
        <3>1. c # <<>>
            BY <2>1
        <3> HIDE DEF u, m
        <3> QED BY <1>4, <1>5, <3>1, AppendPast
    <2> HIDE DEF u
    <2> QED BY <1>7, <1>8, <2>1, <2>2, <2>3, <2>4, <2>5 DEF BlockHeld
<1> HIDE DEF u
<1>13. Fits(es, k, u)
    BY <1>3, <1>6, <1>9, <1>10, <1>12 DEF Fits
<1> QED BY <1>13 DEF u

(* An answer shows, under an id that is its own or past, its own result.   *)
LEMMA AnswerFits ==
    ASSUME NEW es, Recorded(es), NEW k \in 1..Len(es), NEW t, Fits(es, k - 1, t),
           es[k].role = "answer"
    PROVE  Fits(es, k, RestoreStep(t, es[k]))
<1> DEFINE u      == RestoreStep(t, es[k])
           of     == es[k].of
           claim  == Claimed(t, of[3])
           output == IF claim = NoCall THEN Text(of) ELSE Tool(claim, of)
           first  == Append(t.out, output)
           second == Append(first, Tool(of, of))
<1> HIDE DEF Ids, Message
<1>1. /\ es[k] \in Entries /\ k \in Nat \ {0} /\ t \in RestoreStates /\ Shadowed(t.out)
      /\ of \in Ids /\ t.out \in Seq(Message) /\ t.asked \in Seq(Ids)
    <2>1. es[k] \in Entries /\ k \in Nat \ {0} /\ t \in RestoreStates /\ Shadowed(t.out)
        BY DEF Fits, Recorded
    <2> QED BY <2>1 DEF Entries, RestoreStates
<1>2. PICK b \in 1..k - 1 : Answers(es, b, k)
    BY DEF Recorded
<1> DEFINE c == es[b].calls
           r == k - b
<1>3. /\ b \in DOMAIN es /\ es[b] \in Entries /\ es[b].role = "turn" /\ c \in Seq(Ids)
      /\ r \in DOMAIN c /\ of = c[r] /\ FullBetween(es, b, k - 1) /\ r \in Nat
      /\ \A i \in DOMAIN c : c[i][2] = i
    <2>1. b \in DOMAIN es /\ es[b] \in Entries
        BY DEF Recorded
    <2>2. es[b].role = "turn" /\ r \in DOMAIN c /\ of = c[r] /\ FullBetween(es, b, k - 1)
        BY <1>2 DEF Answers
    <2>3. c \in Seq(Ids)
        BY <2>1 DEF Entries
    <2>4. \A i \in DOMAIN c : c[i][2] = i
        BY <2>1, <2>2 DEF Recorded, CallsNumbered
    <2>5. r \in Nat
        BY <1>1
    <2> QED BY <2>1, <2>2, <2>3, <2>4, <2>5
<1>4. BlockHeld(c, r, t)
    <2>1. c # <<>> /\ ((k - 1) - b) + 1 = r
        BY <1>1, <1>3
    <2> HIDE DEF r
    <2> QED BY <1>3, <2>1 DEF Fits, OpenBlock
<1>5. claim = of \/ claim \notin ToSet(c)
    <2>1. PICK d \in Nat : /\ Len(t.asked) = d + Len(c)
                           /\ \A i \in DOMAIN c : t.asked[d + i] = c[i]
                           /\ \A j \in 1..d : t.asked[j] \notin ToSet(c)
        BY <1>4 DEF BlockHeld
    <2>2. \A i \in DOMAIN c : c[i] \in t.used <=> i < r
        BY <1>4 DEF BlockHeld
    <2>3. \A i \in DOMAIN c : t.asked[d + i] = c[i] /\ c[i][2] = i
        BY <1>3, <2>1
    <2> HIDE DEF c, r, of
    <2>4. Claimed(t, c[r][3]) = c[r] \/ Claimed(t, c[r][3]) \notin ToSet(c)
        BY <1>1, <1>3, <2>1, <2>2, <2>3, ClaimIsNotOfTheBlock
    <2> QED BY <1>3, <2>4
<1>6. claim \in Ids /\ claim \in ToSet(t.asked) \cup {NoCall}
    BY <1>1, ClaimedTyped
<1>7. of \in ToSet(t.asked) /\ of \in ToSet(c)
    <2>1. PICK d \in Nat : Len(t.asked) = d + Len(c) /\ \A i \in DOMAIN c : t.asked[d + i] = c[i]
        BY <1>4 DEF BlockHeld
    <2> HIDE DEF c, r, of
    <2>2. /\ Len(c) \in Nat /\ DOMAIN c = 1..Len(c) /\ DOMAIN t.asked = 1..Len(t.asked)
        BY <1>1, <1>3
    <2>3. d + r \in DOMAIN t.asked /\ t.asked[d + r] = of
        BY <1>3, <2>1, <2>2
    <2> QED BY <1>3, <2>3 DEF ToSet
<1> HIDE DEF claim
<1>8. /\ output \in Message /\ output.calls = <<>>
      /\ output \notin Own => output.id = claim /\ claim # of
    <2>1. Text(of) \in Own /\ Text(of).calls = <<>> /\ Text(of) \in Message
        BY <1>1, TextIsOwn, ConstantMessagesAskNothing DEF Own
    <2>2. /\ Tool(claim, of) \in Message /\ Tool(claim, of).calls = <<>>
          /\ Tool(claim, of).id = claim /\ (claim = of => Tool(claim, of) \in Own)
        BY <1>1, <1>6, ToolIsMessage
    <2> QED BY <2>1, <2>2
<1>9. Tool(of, of) \in Own /\ Tool(of, of) \in Message /\ Tool(of, of).calls = <<>>
    BY <1>1, ToolIsMessage
<1> HIDE DEF output
<1>10. /\ first \in Seq(Message) /\ Shadowed(first)
       /\ \A x : Past(t.out, Len(t.out), x) => Past(first, Len(first), x)
    <2>1. output \notin Own => Past(t.out, Len(t.out), output.id)
        BY <1>4, <1>5, <1>6, <1>8 DEF BlockHeld
    <2> QED BY <1>1, <1>8, <2>1, AppendShadowed, AppendProperties, SilentMessage
<1> HIDE DEF first
<1>11. /\ second \in Seq(Message) /\ Shadowed(second)
       /\ \A x : Past(t.out, Len(t.out), x) => Past(second, Len(second), x)
    BY <1>9, <1>10, AppendShadowed, AppendProperties, SilentMessage
<1> HIDE DEF second
<1>12. u \in RestoreStates
    BY <1>1, RestoreStepTyped
<1>13. /\ u.asked = t.asked
       /\ es[k].full => u.out = second /\ u.used = t.used \cup {claim, of}
       /\ ~es[k].full => u.out = first /\ u.used = t.used \cup {claim}
    <2>1. u = IF es[k].full THEN [t EXCEPT !.out = t.out \o <<output, Tool(of, of)>>,
                                           !.used = t.used \cup {claim, of}]
              ELSE [t EXCEPT !.out = first, !.used = t.used \cup {claim}]
        BY DEF RestoreStep, AnswerParts, claim, output, first
    <2>2. t.out \o <<output, Tool(of, of)>> = second
        BY <1>1, <1>8, <1>9 DEF first, second
    <2> HIDE DEF u
    <2> QED BY <1>1, <2>1, <2>2 DEF RestoreStates
<1> HIDE DEF u
<1>14. u.used \subseteq ToSet(u.asked) \cup {NoCall} /\ Shadowed(u.out)
    BY <1>6, <1>7, <1>10, <1>11, <1>13 DEF Fits
<1>15. \A x \in ToSet(u.asked) : AskedBy(es, k, x)
    BY <1>1, <1>13, AskedLater DEF Fits
<1>16. OpenBlock(es, k, u)
    <2> SUFFICES ASSUME NEW a \in 1..k, es[a].role = "turn", es[a].calls # <<>>,
                        FullBetween(es, a, k)
                 PROVE  BlockHeld(es[a].calls, (k - a) + 1, u)
        BY DEF OpenBlock
    <2>1. a # k /\ k \in a + 1..k /\ a \in 1..k - 1
        BY <1>1
    <2>2. es[k].full
        BY <2>1 DEF FullBetween
    <2>3. a = b
        <3>1. CASE a < b
            <4>1. b \in a + 1..k
                BY <1>1, <3>1
            <4> QED BY <1>3, <4>1 DEF FullBetween
        <3>2. CASE b < a
            <4>1. a \in b + 1..k - 1
                BY <1>1, <2>1, <3>2
            <4> QED BY <1>3, <4>1 DEF FullBetween
        <3> QED BY <3>1, <3>2
    <2>4. (k - a) + 1 = r + 1
        BY <2>3
    <2>5. ASSUME NEW i \in DOMAIN c PROVE c[i] \in u.used <=> i < r + 1
        <3>1. c[i] \in t.used <=> i < r
            BY <1>4 DEF BlockHeld
        <3>2. c[i] = of <=> i = r
            BY <1>3
        <3>3. claim = of \/ c[i] # claim
            BY <1>5 DEF ToSet
        <3>4. i < r + 1 <=> i < r \/ i = r
            <4>1. i \in Nat
                BY <1>3
            <4> HIDE DEF r
            <4> QED BY <1>3, <4>1
        <3> HIDE DEF r, c, of
        <3> QED BY <1>13, <2>2, <3>1, <3>2, <3>3, <3>4
    <2>6. \A x \in Ids : x \notin ToSet(c) => Past(u.out, Len(u.out), x)
        BY <1>4, <1>11, <1>13, <2>2 DEF BlockHeld
    <2> HIDE DEF r
    <2>7. BlockHeld(c, r + 1, u)
        <3> HIDE DEF c
        <3> QED BY <1>4, <1>13, <2>5, <2>6 DEF BlockHeld
    <2> QED BY <2>3, <2>4, <2>7
<1>17. Fits(es, k, u)
    BY <1>12, <1>14, <1>15, <1>16 DEF Fits
<1> QED BY <1>17 DEF u

(* A restored history shows a call a foreign result only where nobody       *)
(* waits for it any more.                                                  *)
LEMMA RestoredIsShadowed ==
    ASSUME NEW es, Recorded(es) PROVE Restored(es) \in Seq(Message) /\ Shadowed(Restored(es))
<1> DEFINE n == Len(es)
<1>1. es \in Seq(Entries) /\ n \in Nat /\ \A k \in 1..n : es[k] \in Entries
    BY ElementOfSeq DEF Recorded
<1>2. PICK g : /\ g[0] = NothingRestored /\ Restored(es) = Deduped(g[n].out)
               /\ \A k \in 1..n : g[k] = RestoreStep(g[k - 1], es[k])
    BY <1>1, RestoredFold
<1> DEFINE P == {k \in 0..n : Fits(es, k, g[k])}
<1>3. 0 \in P
    <2> HIDE DEF n
    <2> QED BY <1>1, <1>2, FitsAtFirst
<1>4. ASSUME NEW k \in 1..n, k - 1 \in P PROVE k \in P
    <2>1. Fits(es, k - 1, g[k - 1]) /\ g[k] = RestoreStep(g[k - 1], es[k]) /\ k \in 0..n
        BY <1>1, <1>2, <1>4
    <2>2. es[k].role \in {"user", "turn", "answer"}
        BY <1>1 DEF Entries
    <2>3. Fits(es, k, g[k])
        BY <2>1, <2>2, UserFits, TurnFits, AnswerFits
    <2> QED BY <2>1, <2>3
<1>5. n \in P
    <2> HIDE DEF P, n
    <2>1. 0..n \subseteq P
        BY <1>1, <1>3, <1>4, UpTo
    <2> QED BY <1>1, <2>1
<1>6. g[n].out \in Seq(Message) /\ Shadowed(g[n].out)
    BY <1>5 DEF Fits, RestoreStates
<1> HIDE DEF n
<1> QED BY <1>2, <1>6, DedupedIsShadowed

(* The history a resumed turn starts from shows every call its own result. *)
LEMMA ResumableIsOwn ==
    ASSUME NEW es, Recorded(es) PROVE Resumable(es) \in Seq(Own)
BY RestoredIsShadowed, SanitizedIsOwn DEF Resumable

-----------------------------------------------------------------------------
(* Every step of the context pipeline keeps results with their calls, and  *)
(* something of something.                                                 *)
LEMMA DowngradedIsOwn ==
    ASSUME NEW s \in Seq(Own), s # <<>>
    PROVE  Downgraded(s) \in Seq(Own) /\ Downgraded(s) # <<>>
<1>1. Len(s) \in Nat \ {0} /\ DOMAIN s = 1..Len(s)
    BY EmptySeq, LenProperties
<1>2. ASSUME NEW k \in 1..Len(s) PROVE Downgraded(s)[k] \in Own
    <2>1. s[k] \in Own /\ s[k].of \in Ids
        BY DEF Own, Message
    <2>2. Text(s[k].of) \in Own
        BY <2>1, TextIsOwn
    <2> HIDE DEF Own
    <2> QED BY <1>1, <2>1, <2>2 DEF Downgraded
<1>3. DOMAIN Downgraded(s) = 1..Len(s) /\ Downgraded(s) = [k \in 1..Len(s) |-> Downgraded(s)[k]]
    BY <1>1 DEF Downgraded
<1> DEFINE d == Downgraded(s)
<1> HIDE DEF d, Own
<1>4. d \in [1..Len(s) -> Own]
    BY <1>2, <1>3 DEF d
<1>5. d \in Seq(Own) /\ Len(d) = Len(s)
    BY <1>1, <1>4
<1>6. d # <<>>
    BY <1>1, <1>5
<1> QED BY <1>5, <1>6 DEF d

(* The snip keeps a part and adds a note.                                  *)
LEMMA SnippedIsOwn ==
    ASSUME NEW s \in Seq(Own), s # <<>>, NEW b \in Nat
    PROVE  Snipped(s, b) \in Seq(Own) /\ Snipped(s, b) # <<>>
<1> HIDE DEF Own
<1>1. CASE Len(s) <= SnipTrigger \/ Len(s) <= b + SnipTail
    BY <1>1 DEF Snipped
<1>2. CASE ~(Len(s) <= SnipTrigger \/ Len(s) <= b + SnipTail)
    <2>1. UpToLen(s, b) \in Seq(Own)
        BY UpToLenIsSeq
    <2>2. SubSeq(s, Len(s) - SnipTail + 1, Len(s)) \in Seq(Own)
        <3>1. /\ Len(s) - SnipTail + 1 \in Nat \ {0} /\ Len(s) \in Int /\ Len(s) <= Len(s)
            BY <1>2, TurnAssumption
        <3> QED BY <3>1, PartIsSeq
    <2>3. Note("snip") \in Own
        BY ConstantMessagesAreOwn DEF Tags
    <2> QED BY <1>2, <2>1, <2>2, <2>3, JoinIsSeq DEF Snipped
<1> QED BY <1>1, <1>2

(* A prefetch adds a note inside the history.                              *)
LEMMA PrefetchedIsOwn ==
    ASSUME NEW s \in Seq(Own), NEW b \in Nat \ {0}
    PROVE  Prefetched(s, b) \in Seq(Own) /\ Prefetched(s, b) # <<>>
<1> HIDE DEF Own
<1>1. UpToLen(s, b - 1) \in Seq(Own)
    BY UpToLenIsSeq
<1>2. SubSeq(s, b, Len(s)) \in Seq(Own)
    <2>1. Len(s) \in Int /\ Len(s) <= Len(s)
        BY LenProperties
    <2> QED BY <2>1, PartIsSeq
<1>3. Note("prefetch") \in Own
    BY ConstantMessagesAreOwn DEF Tags
<1> QED BY <1>1, <1>2, <1>3, JoinIsSeq DEF Prefetched

(* The memory is put in second place or replaced there.                    *)
LEMMA RemindedIsOwn ==
    ASSUME NEW s \in Seq(Own), s # <<>>, NEW mem
    PROVE  Reminded(s, mem) \in Seq(Own) /\ Reminded(s, mem) # <<>>
<1> HIDE DEF Own
<1>1. CASE ~mem
    BY <1>1 DEF Reminded
<1>2. CASE mem
    <2> DEFINE from == IF Len(s) > 1 /\ s[2] = Memory THEN 3 ELSE 2
               rest == SubSeq(s, from, Len(s))
    <2>1. Len(s) \in Nat \ {0} /\ s[1] \in Own /\ Memory \in Own
        BY EmptySeq, ConstantMessagesAreOwn, ElementOfSeq
    <2>2. rest \in Seq(Own)
        <3>1. from \in Nat \ {0} /\ Len(s) \in Int /\ Len(s) <= Len(s)
            BY <2>1
        <3> HIDE DEF from
        <3> QED BY <3>1, PartIsSeq
    <2>3. Reminded(s, mem) = <<s[1], Memory>> \o rest
        BY <1>2 DEF Reminded
    <2>4. <<s[1], Memory>> \in Seq(Own) /\ Len(<<s[1], Memory>>) = 2
        BY <2>1
    <2> HIDE DEF rest
    <2>5. <<s[1], Memory>> \o rest \in Seq(Own) /\ Len(<<s[1], Memory>> \o rest) = 2 + Len(rest)
        BY <2>2, <2>4, ConcatProperties
    <2>6. Len(rest) \in Nat
        BY <2>2
    <2>7. Len(<<s[1], Memory>> \o rest) # 0
        BY <2>5, <2>6
    <2> QED BY <2>3, <2>5, <2>7, EmptySeq
<1> QED BY <1>1, <1>2

(* The artifact is put behind the leading system messages.                 *)
LEMMA RearmedIsOwn ==
    ASSUME NEW s \in Seq(Own)
    PROVE  Rearmed(s) \in Seq(Own) /\ Rearmed(s) # <<>>
<1> HIDE DEF Own
<1> DEFINE bare  == Kept(s, ToSet(s) \ {Artifact})
           leads == {k \in 1..Len(bare) + 1 : k >= Len(bare) \/ bare[k + 1].role # "system"}
           lead  == Min(leads)
<1>1. bare \in Seq(Own)
    BY KeptIsSeq
<1>2. Rearmed(s) = UpToLen(bare, lead) \o <<Artifact>> \o SubSeq(bare, lead + 1, Len(bare))
    BY DEF Rearmed
<1> HIDE DEF bare
<1>3. Len(bare) \in Nat
    BY <1>1
<1>4. lead \in Nat
    <2>1. Len(bare) + 1 \in leads
        BY <1>3
    <2>2. leads \in SUBSET Nat /\ leads # {}
        BY <1>3, <2>1
    <2> HIDE DEF leads
    <2> QED BY <2>2, MinIsMember
<1> HIDE DEF lead
<1>5. UpToLen(bare, lead) \in Seq(Own)
    BY <1>1, <1>4, UpToLenIsSeq
<1>6. SubSeq(bare, lead + 1, Len(bare)) \in Seq(Own)
    <2>1. lead + 1 \in Nat \ {0} /\ Len(bare) \in Int /\ Len(bare) <= Len(bare)
        BY <1>3, <1>4
    <2> QED BY <1>1, <2>1, PartIsSeq
<1> QED BY <1>2, <1>5, <1>6, JoinIsSeq, ConstantMessagesAreOwn

(* The whole pipeline.                                                     *)
LEMMA PipelineIsOwn ==
    ASSUME NEW s \in Seq(Own), s # <<>>, NEW b \in Nat, NEW mem, NEW pressed
    PROVE  Pipeline(s, b, mem, pressed) \in Seq(Own) /\ Pipeline(s, b, mem, pressed) # <<>>
<1> DEFINE s1 == IF pressed THEN Snipped(s, b) ELSE s
           s2 == Reminded(s1, mem)
           s3 == Rearmed(s2)
           s4 == Deduped(s3)
<1> HIDE DEF Own
<1>1. s1 \in Seq(Own) /\ s1 # <<>>
    BY SnippedIsOwn
<1> HIDE DEF s1
<1>2. s2 \in Seq(Own)
    BY <1>1, RemindedIsOwn
<1> HIDE DEF s2
<1>3. s3 \in Seq(Own) /\ s3 # <<>>
    BY <1>2, RearmedIsOwn
<1> HIDE DEF s3
<1>4. s4 \in Seq(Own) /\ s4 # <<>>
    BY <1>3, DedupedIsSeq
<1>5. Pipeline(s, b, mem, pressed) = Downgraded(s4)
    BY DEF Pipeline, s1, s2, s3
<1> HIDE DEF s4
<1> QED BY <1>4, <1>5, DowngradedIsOwn

(* A history cut back to the last user message is part of one, repaired.   *)
LEMMA TruncatedIsSanitized ==
    ASSUME messages \in Seq(Own), base \in Nat
    PROVE  Truncated = <<>> \/ \E s \in Seq(Own) : Truncated = Sanitized(s)
<1> DEFINE users == {k \in base + 1..Len(messages) : messages[k].role = "user"}
<1> HIDE DEF Own
<1>1. CASE users = {}
    BY <1>1 DEF Truncated
<1>2. CASE users # {}
    <2>1. Truncated = Sanitized(SubSeq(messages, 1, Max(users)))
        BY <1>2 DEF Truncated
    <2>2. Len(messages) \in Nat /\ users \in SUBSET (1..Len(messages))
        <3>1. Len(messages) \in Nat
            OBVIOUS
        <3> QED BY <3>1
    <2> HIDE DEF users
    <2>3. Max(users) \in Int /\ Max(users) <= Len(messages) /\ 1 \in Nat \ {0}
        <3>1. Max(users) \in users
            BY <1>2, <2>2, MaxIsMember
        <3>2. Max(users) \in 1..Len(messages)
            BY <2>2, <3>1
        <3> QED BY <2>2, <3>2
    <2>4. SubSeq(messages, 1, Max(users)) \in Seq(Own)
        BY <2>3, PartIsSeq
    <2> QED BY <2>1, <2>4
<1> QED BY <1>1, <1>2

LEMMA TruncatedIsOwn ==
    ASSUME messages \in Seq(Own), base \in Nat PROVE Truncated \in Seq(Own)
<1> HIDE DEF Own
<1>1. <<>> \in Seq(Own)
    OBVIOUS
<1> QED BY <1>1, TruncatedIsSanitized, SanitizedOwn

-----------------------------------------------------------------------------
(* The entries the loop writes.                                            *)
LEMMA EntriesTyped ==
    /\ \A n \in Nat : /\ UserEntry(n) \in Entries /\ UserEntry(n).role = "user"
                      /\ TurnEntry(n) \in Entries /\ TurnEntry(n).role = "turn"
                      /\ TurnEntry(n).n = n /\ TurnEntry(n).calls = <<>>
    /\ \A of \in Ids : /\ AnswerEntry(of) \in Entries /\ AnswerEntry(of).role = "answer"
                       /\ AnswerEntry(of).of = of
<1>1. ASSUME NEW role \in {"user", "turn", "answer"}, NEW n \in Nat
      PROVE  Entry(role, n) \in Entries
    <2>1. <<>> \in Seq(Ids)
        OBVIOUS
    <2> QED BY <2>1, IdsTyped DEF Entry, Entries
<1>2. ASSUME NEW n \in Nat
      PROVE  /\ UserEntry(n) \in Entries /\ UserEntry(n).role = "user"
             /\ TurnEntry(n) \in Entries /\ TurnEntry(n).role = "turn"
             /\ TurnEntry(n).n = n /\ TurnEntry(n).calls = <<>>
    <2>1. UserEntry(n) \in Entries /\ TurnEntry(n) \in Entries
        BY <1>1 DEF UserEntry, TurnEntry
    <2> QED BY <2>1 DEF UserEntry, TurnEntry, Entry
<1>3. ASSUME NEW of \in Ids
      PROVE  /\ AnswerEntry(of) \in Entries /\ AnswerEntry(of).role = "answer"
             /\ AnswerEntry(of).of = of
    <2> DEFINE e == Entry("answer", 0)
    <2>1. e \in Entries /\ e.role = "answer"
        BY <1>1 DEF Entry
    <2>2. AnswerEntry(of) = [e EXCEPT !.of = of]
        BY DEF AnswerEntry
    <2> HIDE DEF e, Ids
    <2> QED BY <2>1, <2>2 DEF Entries
<1> QED BY <1>2, <1>3

(* One more entry.                                                         *)
LEMMA RecordedAppend ==
    ASSUME NEW es, Recorded(es), NEW e \in Entries,
           e.role = "turn" => /\ e.calls = <<>>
                              /\ \A b \in DOMAIN es : es[b].role = "turn" => es[b].n < e.n,
           e.role = "answer" => \E b \in 1..Len(es) :
                                    /\ es[b].role = "turn" /\ FullBetween(es, b, Len(es))
                                    /\ (Len(es) + 1) - b \in DOMAIN es[b].calls
                                    /\ e.of = es[b].calls[(Len(es) + 1) - b]
    PROVE  Recorded(Append(es, e))
<1> DEFINE fs == Append(es, e)
           n  == Len(es)
<1> HIDE DEF Ids
<1>1. /\ es \in Seq(Entries) /\ n \in Nat /\ DOMAIN es = 1..n
      /\ fs \in Seq(Entries) /\ DOMAIN fs = 1..n + 1
      /\ \A j \in 1..n : fs[j] = es[j] /\ fs[n + 1] = e
    BY AppendProperties, LenProperties DEF Recorded
<1> HIDE DEF fs
<1>2. \A j \in 1..n + 1 : j # n + 1 => j \in 1..n
    BY <1>1
<1>3. ASSUME NEW b \in DOMAIN fs, fs[b].role = "turn" PROVE CallsNumbered(fs[b])
    <2>1. CASE b = n + 1
        <3>1. fs[b].calls = <<>>
            BY <1>1, <1>3, <2>1 DEF fs
        <3> QED BY <3>1 DEF CallsNumbered
    <2>2. CASE b # n + 1
        BY <1>1, <1>2, <1>3, <2>2 DEF Recorded
    <2> QED BY <2>1, <2>2
<1>4. fs[n + 1] = e
    BY <1>1 DEF fs
<1>5. ASSUME NEW a \in DOMAIN fs, NEW b \in DOMAIN fs, a < b, fs[a].role = "turn",
             fs[b].role = "turn"
      PROVE  fs[a].n < fs[b].n
    <2>1. a \in 1..n /\ fs[a] = es[a]
        BY <1>1, <1>5
    <2>2. CASE b = n + 1
        BY <1>1, <1>4, <1>5, <2>1, <2>2
    <2>3. CASE b # n + 1
        BY <1>1, <1>2, <1>5, <2>1, <2>3 DEF Recorded
    <2> QED BY <2>2, <2>3
<1>6. ASSUME NEW k \in DOMAIN fs, fs[k].role = "answer"
      PROVE  \E b \in 1..k - 1 : Answers(fs, b, k)
    <2>1. \E b \in 1..k - 1 : /\ es[b].role = "turn" /\ FullBetween(es, b, k - 1)
                              /\ k - b \in DOMAIN es[b].calls
                              /\ fs[k].of = es[b].calls[k - b]
        <3>1. CASE k = n + 1
            <4>1. k - 1 = n
                BY <1>1, <3>1
            <4> QED BY <1>4, <1>6, <3>1, <4>1
        <3>2. CASE k # n + 1
            <4>1. k \in DOMAIN es /\ fs[k] = es[k]
                BY <1>1, <1>2, <3>2
            <4>2. PICK b \in 1..k - 1 : Answers(es, b, k)
                BY <1>6, <4>1 DEF Recorded
            <4> QED BY <4>1, <4>2 DEF Answers
        <3> QED BY <3>1, <3>2
    <2>2. PICK b \in 1..k - 1 : /\ es[b].role = "turn" /\ FullBetween(es, b, k - 1)
                                /\ k - b \in DOMAIN es[b].calls
                                /\ fs[k].of = es[b].calls[k - b]
        BY <2>1
    <2>3. b \in 1..n /\ \A j \in b + 1..k - 1 : j \in 1..n
        BY <1>1
    <2>4. fs[b] = es[b] /\ FullBetween(fs, b, k - 1)
        BY <1>1, <2>2, <2>3 DEF FullBetween
    <2> QED BY <2>2, <2>4 DEF Answers
<1>7. Recorded(fs)
    BY <1>1, <1>3, <1>5, <1>6 DEF Recorded
<1> QED BY <1>7 DEF fs

(* The last entry grows.                                                   *)
LEMMA RecordedLast ==
    ASSUME NEW es, Recorded(es), es # <<>>, NEW e \in Entries,
           e.role = es[Len(es)].role, e.n = es[Len(es)].n, e.of = es[Len(es)].of,
           e.role = "turn" => CallsNumbered(e)
    PROVE  Recorded([es EXCEPT ![Len(es)] = e])
<1> DEFINE n  == Len(es)
           fs == [es EXCEPT ![n] = e]
<1> HIDE DEF Ids
<1>1. es \in Seq(Entries) /\ n \in Nat \ {0} /\ DOMAIN es = 1..n /\ n \in 1..n
    BY EmptySeq, LenProperties DEF Recorded
<1>2. /\ fs \in Seq(Entries) /\ DOMAIN fs = 1..n /\ fs[n] = e
      /\ \A j \in 1..n : j # n => fs[j] = es[j]
    BY <1>1, ExceptSeq
<1>3. \A j \in 1..n : fs[j].role = es[j].role /\ fs[j].n = es[j].n /\ fs[j].of = es[j].of
    <2> HIDE DEF fs, n
    <2> TAKE j \in 1..n
    <2>1. CASE j = n
        BY <1>2, <2>1 DEF n
    <2>2. CASE j # n
        BY <1>2, <2>2
    <2> QED BY <2>1, <2>2
<1> HIDE DEF fs
<1>4. \A b \in DOMAIN fs : fs[b].role = "turn" => CallsNumbered(fs[b])
    BY <1>1, <1>2 DEF Recorded
<1>5. \A a, b \in DOMAIN fs :
            a < b /\ fs[a].role = "turn" /\ fs[b].role = "turn" => fs[a].n < fs[b].n
    BY <1>1, <1>2, <1>3 DEF Recorded
<1>6. ASSUME NEW k \in DOMAIN fs, fs[k].role = "answer"
      PROVE  \E b \in 1..k - 1 : Answers(fs, b, k)
    <2>1. PICK b \in 1..k - 1 : Answers(es, b, k)
        BY <1>1, <1>2, <1>3, <1>6 DEF Recorded
    <2>2. b \in 1..n /\ b # n /\ \A j \in b + 1..k - 1 : j \in 1..n /\ j # n
        <3>1. k \in 1..n /\ n \in Nat
            BY <1>1, <1>2
        <3> HIDE DEF n
        <3> QED BY <3>1
    <2>3. fs[b] = es[b] /\ FullBetween(fs, b, k - 1)
        BY <1>2, <2>1, <2>2 DEF FullBetween, Answers
    <2>4. fs[k].of = es[k].of
        BY <1>2, <1>3
    <2> QED BY <2>1, <2>3, <2>4 DEF Answers
<1>7. Recorded(fs)
    BY <1>2, <1>4, <1>5, <1>6 DEF Recorded
<1> QED BY <1>7 DEF fs

-----------------------------------------------------------------------------
(* The transcript beside the loop: no turn of it is later than the answer, *)
(* the entry that is being written names the calls so far, and behind a    *)
(* turn whose calls are executed and recorded stand only its answers.      *)
TurnHolds(b, m) ==
    /\ b \in DOMAIN transcript
    /\ transcript[b].role = "turn" /\ transcript[b].n = answer
    /\ Len(transcript[b].calls) = m
    /\ \A i \in 1..m : transcript[b].calls[i] = Id(i)

TurnsPast ==
    \A k \in DOMAIN transcript :
        transcript[k].role = "turn" =>
            /\ transcript[k].n <= answer
            /\ pc = "say" /\ at = 0 => transcript[k].n # answer

Saying == pc = "say" /\ at # 0 => TurnHolds(Len(transcript), at - 1)

Chosen == pc \in {"collect", "batch"} => TurnHolds(Len(transcript), Len(calls))

Writing ==
    pc = "answer" =>
        LET b == (Len(transcript) + 1) - at
        IN TurnHolds(b, Len(calls)) /\ FullBetween(transcript, b, Len(transcript))

HalfWritten ==
    pc = "result" =>
        LET b == Len(transcript) - at
        IN /\ TurnHolds(b, Len(calls)) /\ FullBetween(transcript, b, Len(transcript) - 1)
           /\ transcript[Len(transcript)].role = "answer"

TranscriptInv ==
    Recorded(transcript) /\ TurnsPast /\ Saying /\ Chosen /\ Writing /\ HalfWritten

(* The history in memory shows every call its own result, and is not empty *)
(* while the loop runs.                                                    *)
HistoryInv ==
    /\ messages \in Seq(Own)
    /\ pc \notin {"boot"} \cup Ended => messages # <<>> /\ base # 0

AnswersInv == TurnInv /\ TranscriptInv /\ HistoryInv

-----------------------------------------------------------------------------
(* The history stays as it is, or is given up with the turn.               *)
LEMMA HistoryStands ==
    ASSUME HistoryInv, UNCHANGED <<messages, base>>,
           pc' = pc \/ pc' \in {"boot"} \cup Ended \/ pc \notin {"boot"} \cup Ended
    PROVE  HistoryInv'
BY DEF HistoryInv

(* The history of a turn that ends is empty.                               *)
LEMMA HistoryEnds ==
    ASSUME NEW how \in Ended, End(how) PROVE HistoryInv'
<1>1. messages' = <<>> /\ pc' \in Ended /\ <<>> \in Seq(Own)
    BY DEF End
<1> QED BY <1>1 DEF HistoryInv

(* An iteration that starts over starts from what is left.                 *)
LEMMA HistoryStartsOver ==
    ASSUME NEW msgs \in Seq(Own), msgs # <<>>, base # 0, StartOver(msgs) PROVE HistoryInv'
<1>1. messages' = msgs /\ base' = base
    BY DEF StartOver
<1> HIDE DEF Own
<1> QED BY <1>1 DEF HistoryInv

(* The answer asks for the calls it names.                                 *)
LEMMA HistoryReceives ==
    ASSUME Counts, Types', base # 0, NEW msgs \in Seq(Own), Received(msgs)
    PROVE  HistoryInv'
<1> DEFINE ids == [i \in DOMAIN calls' |-> <<answer', i, calls'[i]>>]
           m   == Answer(answer', ids)
<1>1. messages' = Append(msgs, m) /\ base' = base /\ pc' = "say" /\ answer' \in Nat
    BY DEF Received, Id, Counts
<1>2. ids \in Seq(Ids)
    <2>1. calls' \in Seq(Kinds) /\ Len(calls') \in Nat /\ DOMAIN calls' = 1..Len(calls')
        BY DEF Types
    <2>2. \A i \in 1..Len(calls') : <<answer', i, calls'[i]>> \in Ids
        BY <1>1, <2>1, IdsTyped
    <2> HIDE DEF Ids
    <2> QED BY <2>1, <2>2
<1>3. m \in Own
    <2> HIDE DEF ids
    <2> QED BY <1>1, <1>2, AnswerIsOwn
<1> HIDE DEF m, Own
<1>4. Append(msgs, m) \in Seq(Own) /\ Append(msgs, m) # <<>>
    BY <1>3, AppendProperties
<1> QED BY <1>1, <1>4 DEF HistoryInv

(* A new message behind the history.                                       *)
LEMMA HistoryGrows ==
    ASSUME NEW s \in Seq(Own), NEW m \in Own
    PROVE  Append(s, m) \in Seq(Own) /\ Append(s, m) # <<>>
<1> HIDE DEF Own
<1> QED BY AppendProperties

-----------------------------------------------------------------------------
(* A turn boots from its task or from what the transcript yields.          *)
LEMMA BootKeepsHistory ==
    ASSUME AnswersInv, Boot PROVE HistoryInv'
<1> DEFINE prefix   == <<System, Context>>
           restored == Resumable(transcript)
<1>1. Recorded(transcript) /\ resumes \in Nat
    BY DEF AnswersInv, TranscriptInv, TurnInv, Counts
<1>2. restored \in Seq(Own) /\ \A n \in Nat : User(n) \in Own
    BY <1>1, ResumableIsOwn, ConstantMessagesAreOwn
<1>3. prefix \in Seq(Own) /\ Len(prefix) = 2
    <2>1. System \in Own /\ Context \in Own
        BY ConstantMessagesAreOwn
    <2> HIDE DEF Own
    <2> QED BY <2>1
<1>4. PICK n \in {0, resumes}, again \in BOOLEAN, said \in BOOLEAN :
        /\ messages' = IF ~again THEN Append(prefix, User(n))
                       ELSE prefix \o restored \o (IF said THEN <<>> ELSE <<User(n)>>)
        /\ base' = IF again THEN Len(prefix) ELSE Len(prefix) + 1
    <2>1. PICK n \in {0, resumes} :
            LET again == resumes > 0 /\ transcript # <<>>
                said  == restored # <<>> /\ Last(restored) = User(n)
            IN /\ messages' = IF ~again THEN Append(prefix, User(n))
                              ELSE prefix \o restored \o (IF said THEN <<>> ELSE <<User(n)>>)
               /\ base' = IF again THEN Len(prefix) ELSE Len(prefix) + 1
        BY DEF Boot
    <2> HIDE DEF prefix, restored
    <2> QED BY <2>1
<1> HIDE DEF prefix, restored, Own
<1>5. User(n) \in Own
    BY <1>1, <1>2
<1>6. CASE ~again
    <2>1. Append(prefix, User(n)) \in Seq(Own) /\ Append(prefix, User(n)) # <<>>
        BY <1>3, <1>5, HistoryGrows
    <2> QED BY <1>3, <1>4, <1>6, <2>1 DEF HistoryInv
<1>7. CASE again
    <2> DEFINE tail == IF said THEN <<>> ELSE <<User(n)>>
               a    == prefix \o restored
    <2>1. tail \in Seq(Own)
        BY <1>5
    <2>2. a \in Seq(Own) /\ Len(a) = 2 + Len(restored) /\ Len(restored) \in Nat
        <3>1. Len(restored) \in Nat
            BY <1>2
        <3>2. a \in Seq(Own) /\ Len(a) = Len(prefix) + Len(restored)
            BY <1>2, <1>3, ConcatProperties
        <3> QED BY <1>3, <3>1, <3>2
    <2>3. messages' = a \o tail
        BY <1>4, <1>7
    <2> HIDE DEF tail, a
    <2>4. messages' \in Seq(Own) /\ Len(messages') = Len(a) + Len(tail) /\ Len(tail) \in Nat
        <3>1. Len(tail) \in Nat
            BY <2>1
        <3>2. a \o tail \in Seq(Own) /\ Len(a \o tail) = Len(a) + Len(tail)
            BY <2>1, <2>2, ConcatProperties
        <3> QED BY <2>3, <3>1, <3>2
    <2>5. messages' # <<>>
        <3>1. Len(messages') # 0
            BY <2>2, <2>4
        <3> QED BY <3>1
    <2> QED BY <1>3, <1>4, <1>7, <2>4, <2>5 DEF HistoryInv
<1> QED BY <1>6, <1>7

(* The head of an iteration adds notes of its own.                         *)
LEMMA BeginKeepsHistory ==
    ASSUME AnswersInv, Begin PROVE HistoryInv'
<1>1. PICK prefetch, mail, pressed \in BOOLEAN :
        LET b == IF prefetch THEN base + 1 ELSE base
            p == IF prefetch THEN Prefetched(messages, base) ELSE messages
            m == IF mail THEN Append(p, Note("mail")) ELSE p
        IN base' = b /\ messages' = Pipeline(m, b, memory, pressed)
    BY DEF Begin
<1> DEFINE b == IF prefetch THEN base + 1 ELSE base
           p == IF prefetch THEN Prefetched(messages, base) ELSE messages
           m == IF mail THEN Append(p, Note("mail")) ELSE p
<1>2. base' = b /\ messages' = Pipeline(m, b, memory, pressed)
    BY <1>1
<1>3. messages \in Seq(Own) /\ messages # <<>> /\ base \in Nat \ {0}
    BY DEF AnswersInv, HistoryInv, TurnInv, Counts, Begin, Ended
<1> HIDE DEF Own
<1>4. b \in Nat /\ b # 0
    BY <1>3
<1> HIDE DEF b
<1>5. p \in Seq(Own) /\ p # <<>>
    BY <1>3, PrefetchedIsOwn
<1> HIDE DEF p
<1>6. Note("mail") \in Own
    BY ConstantMessagesAreOwn DEF Tags
<1>7. m \in Seq(Own) /\ m # <<>>
    BY <1>5, <1>6, HistoryGrows
<1> HIDE DEF m
<1>8. messages' \in Seq(Own) /\ messages' # <<>>
    BY <1>2, <1>4, <1>7, PipelineIsOwn
<1> QED BY <1>2, <1>4, <1>8 DEF HistoryInv

(* The errors of a stream cut the history, clean it or note themselves.    *)
LEMMA StreamKeepsHistory ==
    ASSUME AnswersInv, RunInv',
           NextCall \/ MoreArguments \/ StreamEnds \/ Overflow
           \/ ProtocolRecovered \/ ProtocolFailed \/ StreamFailed
    PROVE  HistoryInv'
<1>1. pc = "stream" /\ Counts /\ Types' /\ HistoryInv
    BY DEF AnswersInv, TurnInv, RunInv, NextCall, MoreArguments, StreamEnds, Overflow,
       ProtocolRecovered, ProtocolFailed, StreamFailed
<1>2. messages \in Seq(Own) /\ messages # <<>> /\ base \in Nat /\ base # 0
    BY <1>1 DEF HistoryInv, Counts, Ended
<1>3. Truncated \in Seq(Own) /\ Note("error") \in Own /\ Note("clean") \in Own
    BY <1>2, TruncatedIsOwn, ConstantMessagesAreOwn DEF Tags
<1> HIDE DEF Own
<1>4. CASE NextCall \/ MoreArguments
    <2>1. UNCHANGED <<messages, base>> /\ pc' = pc
        BY <1>4 DEF NextCall, MoreArguments, history
    <2> QED BY <1>1, <2>1, HistoryStands
<1>5. CASE StreamEnds
    BY <1>1, <1>2, <1>5, HistoryReceives DEF StreamEnds
<1>6. CASE Overflow
    <2>1. Pipeline(messages, base, memory, TRUE) \in Seq(Own)
          /\ Pipeline(messages, base, memory, TRUE) # <<>>
        BY <1>2, PipelineIsOwn
    <2> QED BY <1>2, <1>6, <2>1, HistoryStartsOver DEF Overflow
<1>7. CASE ProtocolRecovered
    <2>1. PICK cleaned \in {Sanitized(messages),
                    Append(Sanitized(UpToLen(messages, base)), Note("clean"))} :
            Received(cleaned)
        BY <1>7 DEF ProtocolRecovered
    <2>2. Sanitized(messages) \in Seq(Own)
        BY <1>2, SanitizedOwn
    <2>3. Append(Sanitized(UpToLen(messages, base)), Note("clean")) \in Seq(Own)
        <3>1. UpToLen(messages, base) \in Seq(Own)
            BY <1>2, UpToLenIsSeq
        <3>2. Sanitized(UpToLen(messages, base)) \in Seq(Own)
            BY <3>1, SanitizedOwn
        <3> QED BY <1>3, <3>2, HistoryGrows
    <2>4. cleaned \in Seq(Own)
        BY <2>1, <2>2, <2>3
    <2> QED BY <1>1, <1>2, <2>1, <2>4, HistoryReceives
<1>8. CASE ProtocolFailed
    <2>1. CASE Len(Truncated) > base
        <3>1. Truncated # <<>>
            BY <1>2, <2>1
        <3> QED BY <1>2, <1>3, <1>8, <2>1, <3>1, HistoryStartsOver DEF ProtocolFailed
    <2>2. CASE ~(Len(Truncated) > base)
        BY <1>8, <2>2, HistoryEnds DEF ProtocolFailed, Ended
    <2> QED BY <2>1, <2>2
<1>9. CASE StreamFailed
    <2>1. CASE End("failed")
        BY <2>1, HistoryEnds DEF Ended
    <2>2. CASE ~End("failed")
        <3>1. StartOver(Append(messages, Note("error")))
              \/ StartOver(Append(Truncated, Note("error")))
            BY <1>9, <2>2 DEF StreamFailed
        <3> QED BY <1>2, <1>3, <3>1, HistoryGrows, HistoryStartsOver
    <2> QED BY <2>1, <2>2
<1> QED BY <1>4, <1>5, <1>6, <1>7, <1>8, <1>9

(* The rest of the loop: results are recorded under their own calls.       *)
LEMMA OthersKeepHistory ==
    ASSUME AnswersInv,
           \/ OutOfIterations \/ SayTurn \/ SayCall \/ Remember \/ Finish
           \/ AwaitEarly \/ AwaitCancelled \/ LeaveForLater \/ Collected
           \/ NextBatch \/ Enter \/ ToolEnds \/ Pause \/ Executed
           \/ RecordOutput \/ RecordResult \/ Stop \/ Resume \/ Rest
    PROVE  HistoryInv'
<1>0. HistoryInv /\ Types /\ Marks /\ Counts
    BY DEF AnswersInv, TurnInv, RunInv
<1>1. CASE \E how \in Ended : End(how)
    BY <1>1, HistoryEnds
<1>2. CASE OutOfIterations \/ Finish \/ AwaitCancelled \/ Pause \/ Stop
    <2>1. \E how \in Ended : End(how)
        BY <1>2 DEF OutOfIterations, Finish, AwaitCancelled, Pause, Stop, Ended
    <2> QED BY <1>1, <2>1
<1>3. CASE \/ SayTurn \/ SayCall \/ Remember \/ AwaitEarly \/ LeaveForLater \/ Collected
           \/ NextBatch \/ Enter \/ ToolEnds \/ Executed \/ RecordResult \/ Resume \/ Rest
    <2>1. UNCHANGED <<messages, base>>
        BY <1>3 DEF SayTurn, SayCall, Remember, AwaitEarly, LeaveForLater, Collected,
           NextBatch, Enter, ToolEnds, Executed, RecordResult, Resume, Rest, history, vars
    <2>2. pc' = pc \/ pc' \in {"boot"} \cup Ended \/ pc \notin {"boot"} \cup Ended
        BY <1>3 DEF SayTurn, SayCall, Remember, AwaitEarly, LeaveForLater, Collected,
           NextBatch, Enter, ToolEnds, Executed, AllSettled, RecordResult, Resume, Rest, vars,
           Ended
    <2> QED BY <1>0, <2>1, <2>2, HistoryStands
<1>4. CASE RecordOutput
    <2>1. at \in DOMAIN calls /\ pc = "answer"
        BY <1>0, <1>4 DEF Marks, RecordOutput
    <2>2. Id(at) \in Ids
        <3>1. calls[at] \in Kinds /\ at \in Nat /\ answer \in Nat
            BY <1>0, <2>1 DEF Types, Counts
        <3> QED BY <3>1, IdsTyped DEF Id
    <2>3. Tool(Id(at), Id(at)) \in Own
        BY <2>2, ToolIsMessage
    <2>4. messages \in Seq(Own) /\ base # 0
        BY <1>0, <2>1 DEF HistoryInv, Ended
    <2> HIDE DEF Own
    <2>5. /\ messages' \in Seq(Own) /\ messages' # <<>> /\ base' = base
        BY <1>4, <2>3, <2>4, HistoryGrows DEF RecordOutput
    <2> QED BY <2>4, <2>5 DEF HistoryInv
<1> QED BY <1>2, <1>3, <1>4

-----------------------------------------------------------------------------
(* Nothing is written, and the loop goes where nothing is being written.   *)
LEMMA TranscriptStands ==
    ASSUME TranscriptInv, UNCHANGED <<transcript, answer>>,
           pc' \notin {"say", "collect", "batch", "answer", "result"}
    PROVE  TranscriptInv'
BY DEF TranscriptInv, TurnsPast, Saying, Chosen, Writing, HalfWritten

(* The execution of the calls writes nothing.                              *)
LEMMA TranscriptWaits ==
    ASSUME TranscriptInv, UNCHANGED <<transcript, answer, calls>>,
           pc \in {"collect", "batch"}, pc' \in {"collect", "batch"}
    PROVE  TranscriptInv'
<1>1. \A b, m : TurnHolds(b, m) <=> TurnHolds(b, m)'
    BY DEF TurnHolds, Id
<1> QED BY <1>1 DEF TranscriptInv, TurnsPast, Saying, Chosen, Writing, HalfWritten

(* A new answer is later than every turn that has been written.            *)
LEMMA TranscriptReceives ==
    ASSUME TranscriptInv, Counts, NEW msgs, Received(msgs) PROVE TranscriptInv'
<1>1. /\ pc' = "say" /\ at' = 0 /\ answer' = answer + 1 /\ transcript' = transcript
      /\ answer \in Nat
    BY DEF Received, Counts
<1>2. TurnsPast'
    <2> SUFFICES ASSUME NEW k \in DOMAIN transcript, transcript[k].role = "turn"
                 PROVE  transcript[k].n <= answer + 1 /\ transcript[k].n # answer + 1
        BY <1>1 DEF TurnsPast
    <2>1. transcript[k].n <= answer
        BY DEF TranscriptInv, TurnsPast
    <2>2. transcript[k].n \in Nat
        <3>1. transcript[k] \in Entries
            BY DEF TranscriptInv, Recorded
        <3> QED BY <3>1 DEF Entries
    <2> QED BY <1>1, <2>1, <2>2
<1> QED BY <1>1, <1>2 DEF TranscriptInv, Saying, Chosen, Writing, HalfWritten

(* The task is seeded where no block is open.                              *)
LEMMA BootKeepsTranscript ==
    ASSUME AnswersInv, Boot PROVE TranscriptInv'
<1>1. /\ Recorded(transcript) /\ TranscriptInv /\ resumes \in Nat /\ pc = "boot"
      /\ pc' = "head" /\ answer' = answer
    BY DEF AnswersInv, TranscriptInv, TurnInv, Counts, Boot, count
<1>2. PICK n \in {0, resumes} : \/ transcript' = transcript
                                \/ transcript' = Append(transcript, UserEntry(n))
    BY DEF Boot
<1>3. CASE transcript' = transcript
    BY <1>1, <1>3, TranscriptStands
<1>4. CASE transcript' = Append(transcript, UserEntry(n))
    <2>1. UserEntry(n) \in Entries /\ UserEntry(n).role = "user"
        BY <1>1, EntriesTyped
    <2>2. transcript \in Seq(Entries) /\ Len(transcript) \in Nat
        BY <1>1 DEF Recorded
    <2>3. Recorded(transcript')
        BY <1>1, <1>4, <2>1, RecordedAppend
    <2>4. /\ \A k \in DOMAIN transcript' : k \in DOMAIN transcript \/ k = Len(transcript) + 1
          /\ \A k \in DOMAIN transcript : transcript'[k] = transcript[k]
          /\ transcript'[Len(transcript) + 1] = UserEntry(n)
        <3> HIDE DEF Entries
        <3> QED BY <1>4, <2>1, <2>2, AppendProperties
    <2>5. TurnsPast'
        BY <1>1, <2>1, <2>4 DEF TurnsPast, TranscriptInv
    <2> QED BY <1>1, <2>3, <2>5 DEF TranscriptInv, Saying, Chosen, Writing, HalfWritten
<1> QED BY <1>2, <1>3, <1>4

(* The answer is written behind all turns before it.                       *)
LEMMA SayTurnKeepsTranscript ==
    ASSUME AnswersInv, SayTurn PROVE TranscriptInv'
<1> DEFINE n == Len(transcript)
           e == TurnEntry(answer)
<1>1. /\ Recorded(transcript) /\ TurnsPast /\ answer \in Nat /\ pc = "say" /\ at = 0
      /\ pc' = "say" /\ at' = 1 /\ answer' = answer /\ transcript' = Append(transcript, e)
    BY DEF AnswersInv, TranscriptInv, TurnInv, Counts, SayTurn, count
<1>2. e \in Entries /\ e.role = "turn" /\ e.n = answer /\ e.calls = <<>>
    BY <1>1, EntriesTyped
<1> HIDE DEF e
<1>3. transcript \in Seq(Entries) /\ n \in Nat
    BY <1>1 DEF Recorded
<1>4. /\ \A k \in DOMAIN transcript' : k \in DOMAIN transcript \/ k = n + 1
      /\ \A k \in DOMAIN transcript : transcript'[k] = transcript[k]
      /\ transcript'[n + 1] = e /\ Len(transcript') = n + 1 /\ n + 1 \in DOMAIN transcript'
    <2>1. /\ Len(transcript') = n + 1 /\ DOMAIN transcript = 1..n
          /\ \A k \in 1..n : transcript'[k] = transcript[k]
          /\ transcript'[n + 1] = e /\ transcript' \in Seq(Entries)
        BY <1>1, <1>2, <1>3, AppendProperties
    <2>2. DOMAIN transcript' = 1..n + 1
        BY <2>1
    <2> QED BY <1>3, <2>1, <2>2
<1>5. ASSUME NEW b \in DOMAIN transcript, transcript[b].role = "turn"
      PROVE  transcript[b].n <= answer /\ transcript[b].n < e.n
    <2>1. transcript[b].n <= answer /\ transcript[b].n # answer
        BY <1>1, <1>5 DEF TurnsPast
    <2>2. transcript[b].n \in Nat
        <3>1. transcript[b] \in Entries
            BY <1>1 DEF Recorded
        <3> QED BY <3>1 DEF Entries
    <2> QED BY <1>1, <1>2, <2>1, <2>2
<1>6. Recorded(transcript')
    BY <1>1, <1>2, <1>5, RecordedAppend
<1> HIDE DEF n
<1>7. TurnsPast'
    BY <1>1, <1>2, <1>4, <1>5 DEF TurnsPast
<1>8. Saying'
    <2>1. Len(e.calls) = 0
        BY <1>2
    <2> QED BY <1>1, <1>2, <1>4, <2>1 DEF Saying, TurnHolds
<1> QED BY <1>1, <1>6, <1>7, <1>8 DEF TranscriptInv, Chosen, Writing, HalfWritten

(* One call more of the turn that is being written.                        *)
LEMMA SayCallKeepsTranscript ==
    ASSUME AnswersInv, SayCall PROVE TranscriptInv'
<1> DEFINE n    == Len(transcript)
           old  == transcript[n]
           more == Append(old.calls, Id(at))
           e    == [old EXCEPT !.calls = more]
<1>1. /\ Recorded(transcript) /\ TurnsPast /\ Saying /\ answer \in Nat /\ pc = "say"
      /\ at \in DOMAIN calls /\ Types
    BY DEF AnswersInv, TranscriptInv, TurnInv, RunInv, Counts, SayCall
<1>2. /\ pc' = "say" /\ at' = at + 1 /\ answer' = answer /\ calls' = calls
      /\ transcript' = [transcript EXCEPT ![n] = e]
    <2>1. transcript' = [transcript EXCEPT ![Len(transcript)].calls = Append(@, Id(at))]
        BY DEF SayCall
    <2> QED BY <2>1 DEF SayCall, count
<1>3. at \in Nat \ {0} /\ calls[at] \in Kinds
    BY <1>1 DEF Types
<1>4. /\ transcript \in Seq(Entries) /\ n \in DOMAIN transcript /\ old \in Entries
      /\ old.role = "turn" /\ old.n = answer /\ old.calls \in Seq(Ids)
      /\ Len(old.calls) = at - 1 /\ \A i \in 1..at - 1 : old.calls[i] = Id(i)
    <2>1. TurnHolds(n, at - 1)
        BY <1>1, <1>3 DEF Saying
    <2>2. transcript \in Seq(Entries)
        BY <1>1 DEF Recorded
    <2>3. old \in Entries /\ n \in DOMAIN transcript
        BY <2>1, <2>2 DEF TurnHolds
    <2>4. old.calls \in Seq(Ids)
        BY <2>3 DEF Entries
    <2> QED BY <2>1, <2>2, <2>3, <2>4 DEF TurnHolds
<1>5. Id(at) \in Ids /\ Id(at)[1] = answer /\ Id(at)[2] = at
    BY <1>1, <1>3, IdsTyped DEF Id
<1> HIDE DEF n, Ids
<1>6. /\ more \in Seq(Ids) /\ Len(more) = at /\ DOMAIN more = 1..at
      /\ \A i \in 1..at : more[i] = Id(i)
    <2>1. /\ more \in Seq(Ids) /\ Len(more) = (at - 1) + 1
          /\ \A i \in 1..at - 1 : more[i] = old.calls[i]
          /\ more[(at - 1) + 1] = Id(at)
        BY <1>4, <1>5, AppendProperties
    <2> HIDE DEF more, old
    <2>2. (at - 1) + 1 = at /\ \A i \in 1..at : i # at => i \in 1..at - 1
        BY <1>3
    <2>3. Len(more) = at /\ DOMAIN more = 1..at
        BY <2>1, <2>2
    <2> QED BY <1>4, <2>1, <2>2, <2>3
<1> HIDE DEF more, old
<1>7. e \in Entries /\ e.role = "turn" /\ e.n = answer /\ e.of = old.of /\ e.calls = more
    BY <1>4, <1>6 DEF Entries
<1> HIDE DEF e
<1>8. CallsNumbered(e)
    <2>1. \A i \in 1..at : Id(i)[1] = answer /\ Id(i)[2] = i
        BY DEF Id
    <2> QED BY <1>6, <1>7, <2>1 DEF CallsNumbered
<1>9. Recorded(transcript')
    <2>1. transcript # <<>>
        BY <1>4
    <2> QED BY <1>1, <1>2, <1>4, <1>7, <1>8, <2>1, RecordedLast DEF n, old
<1>10. /\ DOMAIN transcript' = DOMAIN transcript /\ transcript'[n] = e /\ Len(transcript') = n
       /\ \A k \in DOMAIN transcript : k # n => transcript'[k] = transcript[k]
    BY <1>2, <1>4 DEF n
<1>11. TurnsPast'
    BY <1>1, <1>2, <1>3, <1>7, <1>10 DEF TurnsPast
<1>12. Saying'
    <2>1. at' - 1 = at
        BY <1>2, <1>3
    <2>2. \A i : Id(i)' = Id(i)
        BY <1>2 DEF Id
    <2> QED BY <1>2, <1>4, <1>6, <1>7, <1>10, <2>1, <2>2 DEF Saying, TurnHolds
<1> QED BY <1>2, <1>9, <1>11, <1>12 DEF TranscriptInv, Chosen, Writing, HalfWritten

(* All calls have been written.                                            *)
LEMMA RememberKeepsTranscript ==
    ASSUME AnswersInv, Remember PROVE TranscriptInv'
<1>1. /\ TranscriptInv /\ Types /\ Marks /\ pc = "say" /\ at > Len(calls)
      /\ pc' = "collect" /\ UNCHANGED <<transcript, calls, answer>>
    BY DEF AnswersInv, TurnInv, RunInv, Remember, count
<1>2. at # 0 /\ at - 1 = Len(calls)
    BY <1>1, CallsTyped DEF Marks
<1>3. TurnHolds(Len(transcript), Len(calls))
    BY <1>1, <1>2 DEF TranscriptInv, Saying
<1>4. TurnHolds(Len(transcript), Len(calls))'
    BY <1>1, <1>3 DEF TurnHolds, Id
<1> QED BY <1>1, <1>4 DEF TranscriptInv, TurnsPast, Saying, Chosen, Writing, HalfWritten

(* What has been executed is recorded from its first call on.              *)
LEMMA ExecutedKeepsTranscript ==
    ASSUME AnswersInv, Executed PROVE TranscriptInv'
<1>1. /\ TranscriptInv /\ pc = "batch" /\ pc' = "answer" /\ at' = 1
      /\ UNCHANGED <<transcript, calls, answer>>
    BY DEF AnswersInv, Executed, AllSettled, history, count
<1>2. TurnHolds(Len(transcript), Len(calls))
    BY <1>1 DEF TranscriptInv, Chosen
<1>3. TurnHolds(Len(transcript), Len(calls))'
    BY <1>1, <1>2 DEF TurnHolds, Id
<1>4. Len(transcript) \in Nat
    BY <1>1 DEF TranscriptInv, Recorded
<1>5. (Len(transcript) + 1) - 1 = Len(transcript)
      /\ \A j \in Len(transcript) + 1..Len(transcript) : FALSE
    BY <1>4
<1>6. Writing'
    BY <1>1, <1>3, <1>5 DEF Writing, FullBetween
<1> QED BY <1>1, <1>6 DEF TranscriptInv, TurnsPast, Saying, Chosen, HalfWritten

(* The first part of an answer follows the full answers before it.         *)
LEMMA OutputKeepsTranscript ==
    ASSUME AnswersInv, RecordOutput PROVE TranscriptInv'
<1> DEFINE n == Len(transcript)
           e == AnswerEntry(Id(at))
<1>1. /\ Recorded(transcript) /\ TurnsPast /\ Writing /\ answer \in Nat /\ Types
      /\ pc = "answer" /\ at \in DOMAIN calls
    BY DEF AnswersInv, TranscriptInv, TurnInv, RunInv, Counts, Marks, RecordOutput
<1>2. /\ pc' = "result" /\ UNCHANGED <<at, answer, calls>>
      /\ transcript' = Append(transcript, e)
    BY DEF RecordOutput, exec, count
<1>3. /\ transcript \in Seq(Entries) /\ n \in Nat /\ DOMAIN transcript = 1..n
      /\ at \in Nat \ {0} /\ Len(calls) \in Nat /\ at \in 1..Len(calls)
      /\ calls[at] \in Kinds
    BY <1>1 DEF Recorded, Types
<1>4. PICK b \in 1..n : /\ (n + 1) - at = b
                        /\ TurnHolds(b, Len(calls)) /\ FullBetween(transcript, b, n)
    <2>1. TurnHolds((n + 1) - at, Len(calls)) /\ FullBetween(transcript, (n + 1) - at, n)
        BY <1>1 DEF Writing
    <2>2. (n + 1) - at \in 1..n
        BY <1>3, <2>1 DEF TurnHolds
    <2> QED BY <2>1, <2>2
<1>5. e \in Entries /\ e.role = "answer" /\ e.of = Id(at)
    <2>1. Id(at) \in Ids
        BY <1>1, <1>3, IdsTyped DEF Id
    <2> QED BY <2>1, EntriesTyped
<1> HIDE DEF e
<1>6. /\ Len(transcript') = n + 1 /\ DOMAIN transcript' = 1..n + 1
      /\ transcript'[n + 1] = e /\ \A k \in 1..n : transcript'[k] = transcript[k]
    <2>1. /\ Len(transcript') = n + 1 /\ transcript' \in Seq(Entries)
          /\ transcript'[n + 1] = e /\ \A k \in 1..n : transcript'[k] = transcript[k]
        BY <1>2, <1>3, <1>5, AppendProperties
    <2> QED BY <2>1
<1>7. b \in 1..n /\ transcript[b].role = "turn" /\ at \in DOMAIN transcript[b].calls
      /\ transcript[b].calls[at] = Id(at)
    <2>1. b \in 1..n /\ transcript[b] \in Entries
        BY <1>3, <1>4
    <2>2. transcript[b].calls \in Seq(Ids)
        BY <2>1 DEF Entries
    <2>3. Len(transcript[b].calls) = Len(calls)
        BY <1>4 DEF TurnHolds
    <2>4. DOMAIN transcript[b].calls = 1..Len(calls)
        <3> HIDE DEF Ids, n
        <3> QED BY <2>2, <2>3
    <2> QED BY <1>3, <1>4, <2>1, <2>4 DEF TurnHolds
<1>8. (n + 1) - b = at
    BY <1>3, <1>4
<1>9. Recorded(transcript')
    <2> HIDE DEF n
    <2>1. \E a \in 1..Len(transcript) :
            /\ transcript[a].role = "turn" /\ FullBetween(transcript, a, Len(transcript))
            /\ (Len(transcript) + 1) - a \in DOMAIN transcript[a].calls
            /\ e.of = transcript[a].calls[(Len(transcript) + 1) - a]
        BY <1>4, <1>5, <1>7, <1>8 DEF n
    <2> QED BY <1>1, <1>2, <1>5, <2>1, RecordedAppend
<1>10. \A k \in 1..n + 1 : k \in 1..n \/ k = n + 1
    BY <1>3
<1> HIDE DEF n
<1>11. TurnsPast'
    BY <1>1, <1>2, <1>3, <1>5, <1>6, <1>10 DEF TurnsPast
<1>12. HalfWritten'
    <2>1. Len(transcript') - at' = b /\ Len(transcript') - 1 = n
        BY <1>2, <1>3, <1>4, <1>6
    <2>2. b \in 1..n + 1 /\ \A j \in b + 1..n : j \in 1..n
        BY <1>3, <1>7
    <2>3. FullBetween(transcript', b, n)
        BY <1>4, <1>6, <2>2 DEF FullBetween
    <2>4. TurnHolds(b, Len(calls))'
        <3>1. TurnHolds(b, Len(calls)) /\ \A i : Id(i)' = Id(i)
            BY <1>2, <1>4 DEF Id
        <3>2. /\ b \in DOMAIN transcript' /\ transcript'[b] = transcript[b]
              /\ answer' = answer /\ calls' = calls
            BY <1>2, <1>6, <1>7, <2>2
        <3> QED BY <3>1, <3>2 DEF TurnHolds
    <2>5. transcript'[Len(transcript')].role = "answer"
        BY <1>5, <1>6
    <2> QED BY <2>1, <2>3, <2>4, <2>5 DEF HalfWritten
<1> QED BY <1>2, <1>9, <1>11, <1>12 DEF TranscriptInv, Saying, Chosen, Writing

(* The second part completes the answer, and the next one follows it.      *)
LEMMA ResultKeepsTranscript ==
    ASSUME AnswersInv, RecordResult PROVE TranscriptInv'
<1> DEFINE n   == Len(transcript)
           old == transcript[n]
           e   == [old EXCEPT !.full = TRUE]
<1>1. /\ Recorded(transcript) /\ TurnsPast /\ HalfWritten /\ Types
      /\ pc = "result" /\ at \in DOMAIN calls
    BY DEF AnswersInv, TranscriptInv, TurnInv, RunInv, Marks, RecordResult
<1>2. answer' = answer /\ transcript' = [transcript EXCEPT ![n] = e]
    <2>1. transcript' = [transcript EXCEPT ![Len(transcript)].full = TRUE]
        BY DEF RecordResult
    <2> QED BY <2>1 DEF RecordResult, count
<1>3. /\ transcript \in Seq(Entries) /\ n \in Nat /\ DOMAIN transcript = 1..n
      /\ at \in Nat \ {0} /\ Len(calls) \in Nat
    BY <1>1 DEF Recorded, Types
<1>4. PICK b \in 1..n : /\ n - at = b /\ b # n /\ n \in 1..n
                        /\ TurnHolds(b, Len(calls)) /\ FullBetween(transcript, b, n - 1)
    <2>1. TurnHolds(n - at, Len(calls)) /\ FullBetween(transcript, n - at, n - 1)
        BY <1>1 DEF HalfWritten
    <2>2. n - at \in 1..n
        BY <1>3, <2>1 DEF TurnHolds
    <2> HIDE DEF n
    <2>3. n - at # n /\ n \in 1..n
        BY <1>3, <2>2
    <2> QED BY <2>1, <2>2, <2>3
<1>5. old.role = "answer"
    BY <1>1 DEF HalfWritten
<1>6. old \in Entries
    BY <1>3, <1>4, ElementOfSeq
<1> HIDE DEF n, old
<1>7. /\ e \in Entries /\ e.role = "answer" /\ e.full /\ e.n = old.n /\ e.of = old.of
      /\ e.calls = old.calls
    BY <1>5, <1>6 DEF Entries
<1> HIDE DEF e
<1>8. Recorded(transcript')
    <2>1. transcript # <<>>
        BY <1>3, <1>4
    <2> QED BY <1>1, <1>2, <1>5, <1>7, <2>1, RecordedLast DEF n, old
<1>9. /\ DOMAIN transcript' = 1..n /\ transcript'[n] = e /\ Len(transcript') = n
      /\ \A k \in 1..n : k # n => transcript'[k] = transcript[k]
    <2>1. /\ DOMAIN transcript' = DOMAIN transcript /\ transcript'[n] = e
          /\ Len(transcript') = n
          /\ \A k \in DOMAIN transcript : k # n => transcript'[k] = transcript[k]
        <3>1. n = Len(transcript) /\ n \in DOMAIN transcript /\ transcript \in Seq(Entries)
            BY <1>3, <1>4 DEF n
        <3> QED BY <1>2, <3>1
    <2> QED BY <1>3, <2>1
<1>10. CASE pc' = "head"
    <2>1. TurnsPast'
        BY <1>1, <1>2, <1>3, <1>5, <1>7, <1>9, <1>10 DEF TurnsPast
    <2> QED BY <1>8, <1>10, <2>1 DEF TranscriptInv, Saying, Chosen, Writing, HalfWritten
<1>11. CASE pc' # "head"
    <2>1. pc' = "answer" /\ at' = at + 1 /\ calls' = calls
        BY <1>11 DEF RecordResult
    <2>2. TurnsPast'
        BY <1>1, <1>2, <1>3, <1>5, <1>7, <1>9, <2>1 DEF TurnsPast
    <2>3. (n + 1) - at' = b
        BY <1>3, <1>4, <2>1
    <2>4. \A j \in b + 1..n : j \in 1..n /\ (j # n => j \in b + 1..n - 1)
        BY <1>3, <1>4
    <2>5. FullBetween(transcript', b, n)
        BY <1>4, <1>7, <1>9, <2>4 DEF FullBetween
    <2>6. TurnHolds(b, Len(calls))'
        <3>1. \A i : Id(i)' = Id(i)
            BY <1>2, <2>1 DEF Id
        <3>2. /\ b \in DOMAIN transcript' /\ transcript'[b] = transcript[b]
              /\ answer' = answer /\ calls' = calls
            BY <1>2, <1>4, <1>9, <2>1
        <3> QED BY <1>4, <3>1, <3>2 DEF TurnHolds
    <2>7. Writing'
        BY <1>9, <2>3, <2>5, <2>6 DEF Writing
    <2> QED BY <1>8, <2>1, <2>2, <2>7 DEF TranscriptInv, Saying, Chosen, HalfWritten
<1> QED BY <1>10, <1>11

(* The rest of the loop writes nothing.                                    *)
LEMMA OthersKeepTranscript ==
    ASSUME AnswersInv,
           \/ Begin \/ OutOfIterations \/ Finish
           \/ NextCall \/ MoreArguments \/ StreamEnds \/ Overflow
           \/ ProtocolRecovered \/ ProtocolFailed \/ StreamFailed
           \/ AwaitEarly \/ AwaitCancelled \/ LeaveForLater \/ Collected
           \/ NextBatch \/ Enter \/ ToolEnds \/ Pause \/ Stop \/ Resume \/ Rest
    PROVE  TranscriptInv'
<1>0. TranscriptInv /\ Types /\ Counts /\ QuietElsewhere
    BY DEF AnswersInv, TurnInv, RunInv
<1>1. CASE StreamEnds \/ ProtocolRecovered
    <2>1. \E msgs : Received(msgs)
        BY <1>1 DEF StreamEnds, ProtocolRecovered
    <2> QED BY <1>0, <2>1, TranscriptReceives
<1>2. CASE \E how \in Ended : End(how)
    <2>1. UNCHANGED <<transcript, answer>> /\ pc' \in Ended
        BY <1>2 DEF End
    <2> QED BY <1>0, <2>1, TranscriptStands DEF Ended
<1>3. CASE OutOfIterations \/ Finish \/ AwaitCancelled \/ Pause \/ Stop
    <2>1. \E how \in Ended : End(how)
        BY <1>3 DEF OutOfIterations, Finish, AwaitCancelled, Pause, Stop, Ended
    <2> QED BY <1>2, <2>1
<1>4. CASE \E msgs : StartOver(msgs)
    <2>1. UNCHANGED <<transcript, answer>> /\ pc' = "head"
        BY <1>4 DEF StartOver
    <2> QED BY <1>0, <2>1, TranscriptStands
<1>5. CASE Overflow \/ ProtocolFailed \/ StreamFailed
    <2>1. (\E msgs : StartOver(msgs)) \/ (\E how \in Ended : End(how))
        BY <1>5 DEF Overflow, ProtocolFailed, StreamFailed, Ended
    <2> QED BY <1>2, <1>4, <2>1
<1>6. CASE Begin \/ NextCall \/ MoreArguments \/ Resume
    <2>1. UNCHANGED <<transcript, answer>> /\ pc' \in {"stream", "boot"}
        BY <1>6 DEF Begin, NextCall, MoreArguments, Resume, history, count
    <2> QED BY <1>0, <2>1, TranscriptStands
<1>7. CASE AwaitEarly \/ LeaveForLater \/ Collected \/ NextBatch \/ Enter
    <2>1. UNCHANGED <<transcript, answer, calls>>
        BY <1>7 DEF AwaitEarly, LeaveForLater, Collected, NextBatch, Enter, exec, history, count
    <2>2. pc \in {"collect", "batch"} /\ pc' \in {"collect", "batch"}
        BY <1>7 DEF AwaitEarly, LeaveForLater, Collected, NextBatch, Enter
    <2> QED BY <1>0, <2>1, <2>2, TranscriptWaits
<1>8. CASE ToolEnds \/ Rest
    <2>1. UNCHANGED <<pc, at, transcript, answer, calls>>
        BY <1>8 DEF ToolEnds, Rest, vars, exec, history, count
    <2>2. \A b, m : TurnHolds(b, m) <=> TurnHolds(b, m)'
        BY <2>1 DEF TurnHolds, Id
    <2> QED BY <1>0, <2>1, <2>2 DEF TranscriptInv, TurnsPast, Saying, Chosen, Writing,
            HalfWritten
<1> QED BY <1>1, <1>3, <1>5, <1>6, <1>7, <1>8

-----------------------------------------------------------------------------
(* At first the history and the transcript are empty.                      *)
LEMMA AnswersInvInit ==
    Init => AnswersInv
<1> SUFFICES ASSUME Init PROVE AnswersInv
    OBVIOUS
<1>1. TurnInv /\ messages = <<>> /\ transcript = <<>> /\ pc = "boot"
    BY TurnInvInit DEF Init
<1>2. <<>> \in Seq(Own) /\ <<>> \in Seq(Entries) /\ \A k \in DOMAIN <<>> : FALSE
    OBVIOUS
<1>3. TranscriptInv
    BY <1>1, <1>2 DEF TranscriptInv, Recorded, TurnsPast, Saying, Chosen, Writing, HalfWritten
<1> QED BY <1>1, <1>2, <1>3 DEF AnswersInv, HistoryInv

(* Every step keeps the history and the transcript.                        *)
LEMMA AnswersInvNext ==
    AnswersInv /\ [Next]_vars => AnswersInv'
<1> SUFFICES ASSUME AnswersInv, [Next]_vars PROVE AnswersInv'
    OBVIOUS
<1>1. TurnInv'
    BY TurnInvNext DEF AnswersInv
<1>2. RunInv'
    BY <1>1 DEF TurnInv
<1>3. CASE Next
    <2>1. TranscriptInv'
        BY <1>3, BootKeepsTranscript, SayTurnKeepsTranscript, SayCallKeepsTranscript,
           RememberKeepsTranscript, ExecutedKeepsTranscript, OutputKeepsTranscript,
           ResultKeepsTranscript, OthersKeepTranscript DEF Next, Loop
    <2>2. HistoryInv'
        BY <1>2, <1>3, BootKeepsHistory, BeginKeepsHistory, StreamKeepsHistory,
           OthersKeepHistory DEF Next, Loop
    <2> QED BY <1>1, <2>1, <2>2 DEF AnswersInv
<1>4. CASE UNCHANGED vars
    <2>1. UNCHANGED <<pc, at, transcript, answer, calls, messages, base>>
        BY <1>4 DEF vars, exec, history, count
    <2>2. \A b, m : TurnHolds(b, m) <=> TurnHolds(b, m)'
        BY <2>1 DEF TurnHolds, Id
    <2>3. TranscriptInv'
        BY <2>1, <2>2 DEF AnswersInv, TranscriptInv, TurnsPast, Saying, Chosen, Writing,
           HalfWritten
    <2>4. HistoryInv'
        BY <2>1 DEF AnswersInv, HistoryInv
    <2> QED BY <1>1, <2>3, <2>4 DEF AnswersInv
<1> QED BY <1>3, <1>4

(* A history of own messages shows no result as another call's.            *)
LEMMA AnswersInvIsOwn ==
    AnswersInv => AnswersAreTheirOwn
<1> SUFFICES ASSUME AnswersInv,
                    NEW m \in ToSet(messages) \cup ToSet(Resumable(transcript))
             PROVE  m.id = NoCall \/ m.id = m.of
    BY DEF AnswersAreTheirOwn
<1>1. messages \in Seq(Own)
    BY DEF AnswersInv, HistoryInv
<1>2. Resumable(transcript) \in Seq(Own)
    BY ResumableIsOwn DEF AnswersInv, TranscriptInv
<1>3. \A s \in Seq(Own) : ToSet(s) \subseteq Own
    <2> SUFFICES ASSUME NEW s \in Seq(Own), NEW y \in ToSet(s) PROVE y \in Own
        OBVIOUS
    <2> HIDE DEF Own
    <2>1. PICK i \in DOMAIN s : y = s[i]
        BY DEF ToSet
    <2> QED BY <2>1
<1>4. m \in Own
    <2> HIDE DEF Own
    <2> QED BY <1>1, <1>2, <1>3
<1> QED BY <1>4 DEF Own

(* No history, in memory or rebuilt from the transcript, shows the model   *)
(* the result of one call as the answer to another.                        *)
THEOREM AnswersStayWithTheirCalls ==
    Spec => []AnswersAreTheirOwn
<1>1. Init => AnswersInv
    BY AnswersInvInit
<1>2. AnswersInv /\ [Next]_vars => AnswersInv'
    BY AnswersInvNext
<1>3. AnswersInv => AnswersAreTheirOwn
    BY AnswersInvIsOwn
<1> QED BY <1>1, <1>2, <1>3, PTL DEF Spec

-----------------------------------------------------------------------------
(* A message with the answers ids behind it, up to the end of the history; *)
(* and one with answers to all its calls, whatever comes after them.       *)
Opened(s, m, ids) ==
    \E p \in DOMAIN s :
        /\ s[p] = m
        /\ \A j \in p + 1..Len(s) : s[j].role = "tool"
        /\ \A x \in ids : \E j \in p + 1..Len(s) : s[j].id = x

Closed(s, m) ==
    \E p \in DOMAIN s : \E q \in p..Len(s) :
        /\ s[p] = m
        /\ \A j \in p + 1..q : s[j].role = "tool"
        /\ \A x \in ToSet(m.calls) : \E j \in p + 1..q : s[j].id = x

(* The last message has no answer yet.                                     *)
LEMMA LastIsOpened ==
    ASSUME NEW s \in Seq(Message), s # <<>> PROVE Opened(s, s[Len(s)], {})
<1>1. Len(s) \in DOMAIN s /\ \A j \in Len(s) + 1..Len(s) : FALSE
    BY EmptySeq, LenProperties
<1> QED BY <1>1 DEF Opened

(* An answer more.                                                         *)
LEMMA OpenedByTool ==
    ASSUME NEW s \in Seq(Message), NEW m, NEW ids, Opened(s, m, ids),
           NEW x \in Message, x.role = "tool"
    PROVE  Opened(Append(s, x), m, ids \cup {x.id})
<1> DEFINE r == Append(s, x)
<1> HIDE DEF Message
<1>1. /\ Len(s) \in Nat /\ DOMAIN s = 1..Len(s)
      /\ Len(r) = Len(s) + 1 /\ r[Len(s) + 1] = x /\ DOMAIN r = 1..Len(s) + 1
      /\ \A j \in 1..Len(s) : r[j] = s[j]
    BY AppendProperties, LenProperties
<1> HIDE DEF r
<1>2. PICK p \in 1..Len(s) : /\ s[p] = m
                             /\ \A j \in p + 1..Len(s) : s[j].role = "tool"
                             /\ \A y \in ids : \E j \in p + 1..Len(s) : s[j].id = y
    BY <1>1 DEF Opened
<1>3. /\ p \in 1..Len(s) + 1 /\ Len(s) + 1 \in p + 1..Len(s) + 1
      /\ \A j \in p + 1..Len(s) : j \in 1..Len(s) /\ j \in p + 1..Len(s) + 1
      /\ \A j \in p + 1..Len(s) + 1 : j \in p + 1..Len(s) \/ j = Len(s) + 1
    BY <1>1
<1>4. r[p] = m /\ \A j \in p + 1..Len(s) + 1 : r[j].role = "tool"
    BY <1>1, <1>2, <1>3
<1>5. \A y \in ids \cup {x.id} : \E j \in p + 1..Len(s) + 1 : r[j].id = y
    BY <1>1, <1>2, <1>3
<1>6. Opened(r, m, ids \cup {x.id})
    BY <1>1, <1>3, <1>4, <1>5 DEF Opened
<1> QED BY <1>6 DEF r

(* All calls are answered.                                                 *)
LEMMA OpenedCloses ==
    ASSUME NEW s \in Seq(Message), NEW m, NEW ids, Opened(s, m, ids), ToSet(m.calls) \subseteq ids
    PROVE  Closed(s, m)
<1>1. \A p \in DOMAIN s : Len(s) \in p..Len(s)
    BY LenProperties
<1> QED BY <1>1 DEF Opened, Closed

(* What comes after the answers changes nothing.                           *)
LEMMA ClosedStays ==
    ASSUME NEW s \in Seq(Message), NEW m, Closed(s, m), NEW x \in Message
    PROVE  Closed(Append(s, x), m)
<1> DEFINE r == Append(s, x)
<1> HIDE DEF Message
<1>1. /\ Len(s) \in Nat /\ DOMAIN s = 1..Len(s)
      /\ Len(r) = Len(s) + 1 /\ DOMAIN r = 1..Len(s) + 1
      /\ \A j \in 1..Len(s) : r[j] = s[j]
    BY AppendProperties, LenProperties
<1> HIDE DEF r
<1>2. PICK p \in 1..Len(s) : \E q \in p..Len(s) :
            /\ s[p] = m
            /\ \A j \in p + 1..q : s[j].role = "tool"
            /\ \A y \in ToSet(m.calls) : \E j \in p + 1..q : s[j].id = y
    BY <1>1 DEF Closed
<1>3. PICK q \in p..Len(s) :
            /\ s[p] = m
            /\ \A j \in p + 1..q : s[j].role = "tool"
            /\ \A y \in ToSet(m.calls) : \E j \in p + 1..q : s[j].id = y
    BY <1>2
<1>4. /\ p \in 1..Len(s) + 1 /\ q \in p..Len(s) + 1
      /\ \A j \in p + 1..q : j \in 1..Len(s)
    BY <1>1
<1>5. /\ r[p] = m
      /\ \A j \in p + 1..q : r[j].role = "tool"
      /\ \A y \in ToSet(m.calls) : \E j \in p + 1..q : r[j].id = y
    BY <1>1, <1>3, <1>4
<1>6. Closed(r, m)
    <2>1. p \in DOMAIN r /\ q \in p..Len(r)
        BY <1>1, <1>4
    <2> QED BY <1>5, <2>1 DEF Closed
<1> QED BY <1>6 DEF r

-----------------------------------------------------------------------------
(* The dedupe keeps a message with the answers to its calls.               *)
LEMMA DedupedIsClosed ==
    ASSUME NEW s \in Seq(Message), NEW m, Closed(s, m), m.calls # <<>>
    PROVE  Closed(Deduped(s), m)
<1> DEFINE n == Len(s)
<1> HIDE DEF Message
<1>1. PICK g : /\ g[0] = <<>> /\ Deduped(s) = g[n]
               /\ \A k \in 1..n : g[k] = IF k > 1 /\ s[k] = s[k - 1] THEN g[k - 1]
                                         ELSE Append(g[k - 1], s[k])
    BY DedupedFold
<1>2. n \in Nat /\ DOMAIN s = 1..n /\ \A k \in 1..n : s[k] \in Message
    BY ElementOfSeq, LenProperties
<1>3. PICK p \in 1..n : \E q \in p..n :
            /\ s[p] = m
            /\ \A j \in p + 1..q : s[j].role = "tool"
            /\ \A y \in ToSet(m.calls) : \E j \in p + 1..q : s[j].id = y
    BY <1>2 DEF Closed
<1>4. PICK q \in p..n :
            /\ s[p] = m
            /\ \A j \in p + 1..q : s[j].role = "tool"
            /\ \A y \in ToSet(m.calls) : \E j \in p + 1..q : s[j].id = y
    BY <1>3
<1> DEFINE Seen(k) == {s[j].id : j \in p + 1..k}
           P == {k \in 0..n : /\ g[k] \in Seq(Message)
                              /\ k > 0 => g[k] # <<>> /\ g[k][Len(g[k])] = s[k]
                              /\ k \in p..q => Opened(g[k], m, Seen(k))
                              /\ k >= q => Closed(g[k], m)}
<1> HIDE DEF n
<1>5. ToSet(m.calls) \subseteq Seen(q) /\ p \in Nat \ {0} /\ q \in Nat \ {0} /\ p <= q
    BY <1>2, <1>4
<1>6. m.role # "tool"
    BY <1>2, <1>4 DEF Message
<1>7. 0 \in P
    <2>1. g[0] \in Seq(Message) /\ ~(0 > 0) /\ 0 \notin p..q /\ ~(0 >= q) /\ 0 \in 0..n
        BY <1>1, <1>2, <1>5
    <2> QED BY <2>1
<1>8. ASSUME NEW k \in 1..n, k - 1 \in P PROVE k \in P
    <2>1. /\ k \in 0..n /\ k > 0 /\ k - 1 \in 0..n /\ s[k] \in Message
          /\ g[k - 1] \in Seq(Message)
          /\ k - 1 > 0 => g[k - 1] # <<>> /\ g[k - 1][Len(g[k - 1])] = s[k - 1]
          /\ k - 1 \in p..q => Opened(g[k - 1], m, Seen(k - 1))
          /\ k - 1 >= q => Closed(g[k - 1], m)
        BY <1>2, <1>8
    <2> DEFINE same == k > 1 /\ s[k] = s[k - 1]
    <2>2. g[k] = IF same THEN g[k - 1] ELSE Append(g[k - 1], s[k])
        BY <1>1
    <2>3. g[k] \in Seq(Message) /\ g[k] # <<>> /\ g[k][Len(g[k])] = s[k]
        <3>1. CASE same
            BY <2>1, <2>2, <3>1
        <3>2. CASE ~same
            <4> HIDE DEF same
            <4>1. g[k] = Append(g[k - 1], s[k])
                BY <2>2, <3>2
            <4> QED BY <2>1, <4>1, AppendProperties
        <3> QED BY <3>1, <3>2
    <2> HIDE DEF P, Seen
    <2>4. ASSUME k \in p..q PROVE Opened(g[k], m, Seen(k))
        <3>1. CASE k = p
            <4>1. Seen(k) = {}
                BY <1>5, <3>1 DEF Seen
            <4>2. Opened(g[k], g[k][Len(g[k])], {})
                BY <2>3, LastIsOpened
            <4> QED BY <1>4, <2>3, <3>1, <4>1, <4>2
        <3>2. CASE k # p
            <4>1. k - 1 \in p..q /\ k \in p + 1..q
                BY <1>5, <2>4, <3>2
            <4>2. Opened(g[k - 1], m, Seen(k - 1)) /\ s[k].role = "tool"
                BY <1>4, <2>1, <4>1
            <4>3. Seen(k) = Seen(k - 1) \cup {s[k].id}
                <5>1. p + 1..k = (p + 1..k - 1) \cup {k}
                    BY <1>5, <4>1
                <5> QED BY <5>1 DEF Seen
            <4>4. CASE same
                <5>1. k - 1 # p
                    BY <1>4, <1>6, <4>2, <4>4
                <5>2. k - 1 \in p + 1..k - 1
                    BY <1>5, <4>1, <5>1
                <5>3. s[k].id \in Seen(k - 1)
                    BY <4>4, <5>2 DEF Seen
                <5>4. Seen(k) = Seen(k - 1) /\ g[k] = g[k - 1]
                    BY <2>2, <4>3, <4>4, <5>3
                <5> QED BY <4>2, <5>4
            <4>5. CASE ~same
                <5> HIDE DEF same
                <5>1. g[k] = Append(g[k - 1], s[k])
                    BY <2>2, <4>5
                <5> QED BY <2>1, <4>2, <4>3, <5>1, OpenedByTool
            <4> QED BY <4>4, <4>5
        <3> QED BY <3>1, <3>2
    <2>5. ASSUME k >= q PROVE Closed(g[k], m)
        <3>1. CASE k = q
            <4>1. k \in p..q
                BY <1>5, <3>1
            <4> QED BY <1>5, <2>3, <2>4, <3>1, <4>1, OpenedCloses
        <3>2. CASE k # q
            <4>1. k - 1 >= q
                BY <1>5, <2>5, <3>2
            <4>2. Closed(g[k - 1], m)
                BY <2>1, <4>1
            <4> HIDE DEF same
            <4> QED BY <2>1, <2>2, <4>2, ClosedStays
        <3> QED BY <3>1, <3>2
    <2> QED BY <2>1, <2>3, <2>4, <2>5 DEF P
<1>9. n \in P
    <2> HIDE DEF P
    <2>1. 0..n \subseteq P
        BY <1>2, <1>7, <1>8, UpTo
    <2> QED BY <1>2, <2>1
<1>10. n >= q
    BY <1>2
<1> QED BY <1>1, <1>9, <1>10

-----------------------------------------------------------------------------
(* What the sanitizer has let through stays; a block that waits for        *)
(* answers takes what comes as one, and is let through with the last.      *)
LEMMA SanitizerStepKeeps ==
    ASSUME NEW T, NEW U, NEW t \in SanitizerStates(T, U), NEW x \in T, NEW m
    PROVE  LET u == SanitizerStep(t, x)
           IN  /\ m \in ToSet(t.out) => m \in ToSet(u.out)
               /\ x.role # "tool" /\ x.calls # <<>> =>
                    x \in ToSet(u.block) /\ u.open = ToSet(x.calls)
               /\ x.role = "tool" /\ m \in ToSet(t.block) /\ t.open # {} =>
                    \/ m \in ToSet(u.out)
                    \/ m \in ToSet(u.block) /\ u.open # {} /\ u.open = t.open \ {x.id}
<1> DEFINE done == [out |-> t.out \o Append(t.block, x), block |-> <<>>, open |-> {}]
           more == [t EXCEPT !.block = Append(@, x), !.open = @ \ {x.id}]
           ask  == [t EXCEPT !.block = <<x>>, !.open = ToSet(x.calls)]
           keep == [out |-> Append(t.out, x), block |-> <<>>, open |-> {}]
           u    == SanitizerStep(t, x)
<1>1. t.out \in Seq(T) /\ t.block \in Seq(T) /\ <<x>> \in Seq(T)
    BY DEF SanitizerStates
<1>2. ToSet(done.out) = ToSet(t.out) \cup (ToSet(t.block) \cup {x})
    <2>1. Append(t.block, x) \in Seq(T) /\ ToSet(Append(t.block, x)) = ToSet(t.block) \cup {x}
        BY <1>1, AppendedSet, AppendProperties
    <2> DEFINE b == Append(t.block, x)
    <2>2. ToSet(t.out \o b) = ToSet(t.out) \cup ToSet(b)
        <3>1. b \in Seq(T)
            BY <2>1
        <3> HIDE DEF b
        <3> QED BY <1>1, <3>1, JoinParts
    <2> QED BY <2>1, <2>2
<1>3. /\ more.out = t.out /\ ToSet(more.block) = ToSet(t.block) \cup {x}
      /\ more.open = t.open \ {x.id}
    <2>1. ToSet(Append(t.block, x)) = ToSet(t.block) \cup {x}
        BY <1>1, AppendedSet
    <2> QED BY <2>1 DEF SanitizerStates
<1>4. ask.out = t.out /\ x \in ToSet(ask.block) /\ ask.open = ToSet(x.calls)
    <2>1. x \in ToSet(<<x>>)
        BY DEF ToSet
    <2> QED BY <2>1 DEF SanitizerStates
<1>5. ToSet(keep.out) = ToSet(t.out) \cup {x}
    BY <1>1, AppendedSet
<1>6. /\ x.role # "tool" /\ x.calls # <<>> => u = ask
      /\ x.role # "tool" /\ x.calls = <<>> => u = keep
      /\ x.role = "tool" /\ x.id \notin t.open => u = t
      /\ x.role = "tool" /\ t.open = {x.id} => u = done
      /\ x.role = "tool" /\ x.id \in t.open /\ t.open # {x.id} => u = more
    BY DEF SanitizerStep
<1> HIDE DEF done, more, ask, keep, u
<1>7. m \in ToSet(t.out) => m \in ToSet(u.out)
    BY <1>2, <1>3, <1>4, <1>5, <1>6
<1>8. x.role # "tool" /\ x.calls # <<>> => x \in ToSet(u.block) /\ u.open = ToSet(x.calls)
    BY <1>4, <1>6
<1>9. ASSUME x.role = "tool", m \in ToSet(t.block), t.open # {}
      PROVE  \/ m \in ToSet(u.out)
             \/ m \in ToSet(u.block) /\ u.open # {} /\ u.open = t.open \ {x.id}
    <2>1. CASE x.id \notin t.open
        BY <1>6, <1>9, <2>1
    <2>2. CASE t.open = {x.id}
        BY <1>2, <1>6, <1>9, <2>2
    <2>3. CASE x.id \in t.open /\ t.open # {x.id}
        BY <1>3, <1>6, <1>9, <2>3
    <2> QED BY <2>1, <2>2, <2>3
<1> QED BY <1>7, <1>8, <1>9 DEF u

(* The sanitizer lets a message through whose calls are all answered.      *)
LEMMA SanitizedHoldsClosed ==
    ASSUME NEW s \in Seq(Message), NEW m, Closed(s, m), m.calls # <<>>
    PROVE  m \in ToSet(Sanitized(s))
<1> DEFINE n == Len(s)
           U == UNION {ToSet(x.calls) : x \in Message}
<1> HIDE DEF Message
<1>1. PICK g : /\ g[0] = NothingTaken /\ Sanitized(s) = g[n].out
               /\ \A k \in 1..n : g[k] = SanitizerStep(g[k - 1], s[k])
    BY SanitizedFold
<1>2. n \in Nat /\ DOMAIN s = 1..n /\ \A k \in 1..n : s[k] \in Message
    BY ElementOfSeq, LenProperties
<1>3. PICK p \in 1..n : \E q \in p..n :
            /\ s[p] = m
            /\ \A j \in p + 1..q : s[j].role = "tool"
            /\ \A y \in ToSet(m.calls) : \E j \in p + 1..q : s[j].id = y
    BY <1>2 DEF Closed
<1>4. PICK q \in p..n :
            /\ s[p] = m
            /\ \A j \in p + 1..q : s[j].role = "tool"
            /\ \A y \in ToSet(m.calls) : \E j \in p + 1..q : s[j].id = y
    BY <1>3
<1> DEFINE Left(k) == {y \in ToSet(m.calls) : \A j \in p + 1..k : s[j].id # y}
           P == {k \in 0..n :
                    /\ g[k] \in SanitizerStates(Message, U)
                    /\ k >= p => \/ m \in ToSet(g[k].out)
                                 \/ /\ k <= q /\ m \in ToSet(g[k].block)
                                    /\ g[k].open # {} /\ g[k].open = Left(k)}
<1> HIDE DEF n
<1>5. p \in Nat \ {0} /\ q \in Nat \ {0} /\ p <= q /\ q <= n
    BY <1>2
<1>6. m \in Message /\ m.role # "tool" /\ ToSet(m.calls) # {} /\ Left(p) = ToSet(m.calls)
    <2>1. m \in Message /\ m.role # "tool" /\ m.calls \in Seq(Ids)
        BY <1>2, <1>4 DEF Message
    <2>2. 1 \in DOMAIN m.calls
        <3> HIDE DEF Ids
        <3> QED BY <2>1, EmptySeq, LenProperties
    <2>3. ToSet(m.calls) # {}
        BY <2>2 DEF ToSet
    <2>4. \A j \in p + 1..p : FALSE
        BY <1>5
    <2> QED BY <2>1, <2>3, <2>4
<1>7. Left(q) = {}
    BY <1>4
<1>8. 0 \in P
    <2>1. g[0] \in SanitizerStates(Message, U)
        BY <1>1 DEF NothingTaken, SanitizerStates
    <2>2. 0 \in 0..n /\ ~(0 >= p)
        BY <1>2, <1>5
    <2> QED BY <2>1, <2>2
<1>9. ASSUME NEW k \in 1..n, k - 1 \in P PROVE k \in P
    <2> DEFINE t == g[k - 1]
               x == s[k]
               u == SanitizerStep(t, x)
    <2>1. /\ k \in 0..n /\ x \in Message /\ g[k] = u /\ t \in SanitizerStates(Message, U)
          /\ k - 1 >= p => \/ m \in ToSet(t.out)
                           \/ /\ k - 1 <= q /\ m \in ToSet(t.block)
                              /\ t.open # {} /\ t.open = Left(k - 1)
        BY <1>1, <1>2, <1>9
    <2>2. ToSet(x.calls) \subseteq U
        BY <2>1
    <2> HIDE DEF U, P, Left, t, x
    <2>3. u \in SanitizerStates(Message, U)
        BY <2>1, <2>2, SanitizerStepTyped
    <2>4. /\ m \in ToSet(t.out) => m \in ToSet(u.out)
          /\ x.role # "tool" /\ x.calls # <<>> =>
                    x \in ToSet(u.block) /\ u.open = ToSet(x.calls)
          /\ x.role = "tool" /\ m \in ToSet(t.block) /\ t.open # {} =>
                    \/ m \in ToSet(u.out)
                    \/ m \in ToSet(u.block) /\ u.open # {} /\ u.open = t.open \ {x.id}
        BY <2>1, SanitizerStepKeeps
    <2> HIDE DEF u
    <2>5. ASSUME k >= p
          PROVE  \/ m \in ToSet(u.out)
                 \/ k <= q /\ m \in ToSet(u.block) /\ u.open # {} /\ u.open = Left(k)
        <3>1. CASE k = p
            <4>1. x = m
                BY <1>4, <3>1 DEF x
            <4> QED BY <1>5, <1>6, <2>4, <3>1, <4>1
        <3>2. CASE k # p /\ m \in ToSet(t.out)
            BY <2>4, <3>2
        <3>3. CASE k # p /\ m \notin ToSet(t.out)
            <4>1. /\ k - 1 <= q /\ m \in ToSet(t.block)
                  /\ t.open # {} /\ t.open = Left(k - 1)
                BY <1>5, <2>1, <2>5, <3>3
            <4>2. k - 1 # q
                BY <1>7, <4>1
            <4>3. k <= q /\ k \in p + 1..q
                BY <1>5, <2>5, <3>3, <4>1, <4>2
            <4>4. x.role = "tool"
                BY <1>4, <4>3 DEF x
            <4>5. Left(k) = Left(k - 1) \ {x.id}
                <5>1. p + 1..k = (p + 1..k - 1) \cup {k}
                    BY <1>5, <4>3
                <5> QED BY <5>1 DEF Left, x
            <4> QED BY <2>4, <4>1, <4>3, <4>4, <4>5
        <3> QED BY <3>1, <3>2, <3>3
    <2> QED BY <2>1, <2>3, <2>5 DEF P
<1>10. n \in P
    <2> HIDE DEF P
    <2>1. 0..n \subseteq P
        BY <1>2, <1>8, <1>9, UpTo
    <2> QED BY <1>2, <2>1
<1>11. m \in ToSet(g[n].out)
    <2>1. n >= p /\ (n <= q => n = q)
        BY <1>2, <1>5
    <2> HIDE DEF Left
    <2> QED BY <1>7, <1>10, <2>1
<1> QED BY <1>1, <1>11

-----------------------------------------------------------------------------
(* The calls of the turn b, and their answers from its first entry on, up  *)
(* to the k-th, are all in the transcript.                                 *)
FullyAnswered(es, b) ==
    LET c == es[b].calls
    IN /\ c # <<>> /\ b + Len(c) <= Len(es)
       /\ \A j \in DOMAIN c : es[b + j] = [AnswerEntry(c[j]) EXCEPT !.full = TRUE]

(* Only a turn asks for calls, and its answers are full.                   *)
LEMMA FullIsTurn ==
    ASSUME NEW es, Recorded(es), NEW b \in DOMAIN es, FullyAnswered(es, b)
    PROVE  LET c == es[b].calls
           IN  /\ es[b].role = "turn" /\ c \in Seq(Ids) /\ es[b].n \in Nat
               /\ \A k \in b + 1..b + Len(c) :
                    /\ k \in DOMAIN es /\ k - b \in DOMAIN c
                    /\ es[k].role = "answer" /\ es[k].full /\ es[k].of = c[k - b]
               /\ FullBetween(es, b, b + Len(c))
<1> DEFINE c == es[b].calls
<1>1. es \in Seq(Entries) /\ es[b] \in Entries
    BY ElementOfSeq, LenProperties DEF Recorded
<1>2. es[b].role = "turn" /\ c \in Seq(Ids) /\ es[b].n \in Nat
    BY <1>1 DEF Entries, FullyAnswered
<1> HIDE DEF Ids, Entries
<1>3. /\ Len(c) \in Nat /\ DOMAIN c = 1..Len(c) /\ DOMAIN es = 1..Len(es) /\ Len(es) \in Nat
      /\ b + Len(c) <= Len(es)
    BY <1>1, <1>2, LenProperties DEF FullyAnswered
<1>4. ASSUME NEW k \in b + 1..b + Len(c)
      PROVE  /\ k \in DOMAIN es /\ k - b \in DOMAIN c
             /\ es[k].role = "answer" /\ es[k].full /\ es[k].of = c[k - b]
    <2> HIDE DEF c
    <2>1. k \in DOMAIN es /\ k - b \in DOMAIN c /\ b + (k - b) = k
        BY <1>3
    <2>2. c[k - b] \in Ids
        BY <1>2, <2>1, ElementOfSeq
    <2>3. es[b + (k - b)] = [AnswerEntry(c[k - b]) EXCEPT !.full = TRUE]
        BY <2>1 DEF FullyAnswered, c
    <2>4. es[k] = [AnswerEntry(c[k - b]) EXCEPT !.full = TRUE]
        BY <2>1, <2>3
    <2>5. /\ AnswerEntry(c[k - b]) \in Entries /\ AnswerEntry(c[k - b]).role = "answer"
          /\ AnswerEntry(c[k - b]).of = c[k - b]
        BY <2>2, EntriesTyped
    <2>6. es[k].role = "answer" /\ es[k].full /\ es[k].of = c[k - b]
        BY <2>4, <2>5 DEF Entries
    <2> QED BY <2>1, <2>6
<1>5. FullBetween(es, b, b + Len(c))
    BY <1>4 DEF FullBetween
<1> QED BY <1>2, <1>4, <1>5

-----------------------------------------------------------------------------
(* The restoration adds one message for an entry, or two.                  *)
LEMMA RestoreStepAdds ==
    ASSUME NEW t \in RestoreStates, NEW e \in Entries
    PROVE  \E x \in Message :
                \/ RestoreStep(t, e).out = Append(t.out, x)
                \/ \E y \in Message : RestoreStep(t, e).out = Append(Append(t.out, x), y)
<1> DEFINE u == RestoreStep(t, e)
<1> HIDE DEF Ids, Message
<1>1. /\ t.out \in Seq(Message) /\ t.asked \in Seq(Ids) /\ e.n \in Nat /\ e.calls \in Seq(Ids)
      /\ e.of \in Ids /\ e.role \in {"user", "turn", "answer"}
    BY DEF RestoreStates, Entries
<1>2. CASE e.role = "user"
    <2>1. User(e.n) \in Message
        BY <1>1, ConstantMessagesAreOwn DEF Own
    <2>2. u.out = Append(t.out, User(e.n))
        BY <1>2 DEF RestoreStep, RestoreStates
    <2> QED BY <2>1, <2>2
<1>3. CASE e.role = "turn"
    <2>1. Answer(e.n, e.calls) \in Message
        BY <1>1, AnswerIsOwn DEF Own
    <2>2. u.out = Append(t.out, Answer(e.n, e.calls))
        BY <1>3 DEF RestoreStep, RestoreStates
    <2> QED BY <2>1, <2>2
<1>4. CASE e.role = "answer"
    <2> DEFINE claim  == Claimed(t, e.of[3])
               output == IF claim = NoCall THEN Text(e.of) ELSE Tool(claim, e.of)
    <2>1. claim \in Ids
        BY ClaimedTyped
    <2> HIDE DEF claim
    <2>2. output \in Message /\ Tool(e.of, e.of) \in Message
        BY <1>1, <2>1, TextIsOwn, ToolIsMessage DEF Own
    <2>3. u = IF e.full THEN [t EXCEPT !.out = t.out \o <<output, Tool(e.of, e.of)>>,
                                       !.used = t.used \cup {claim, e.of}]
              ELSE [t EXCEPT !.out = Append(t.out, output), !.used = t.used \cup {claim}]
        BY <1>4 DEF RestoreStep, AnswerParts, claim
    <2> HIDE DEF output, u
    <2>4. t.out \o <<output, Tool(e.of, e.of)>> = Append(Append(t.out, output), Tool(e.of, e.of))
        BY <1>1, <2>2
    <2>5. u.out = Append(Append(t.out, output), Tool(e.of, e.of)) \/ u.out = Append(t.out, output)
        BY <2>3, <2>4 DEF RestoreStates
    <2> QED BY <2>2, <2>5 DEF u
<1> QED BY <1>1, <1>2, <1>3, <1>4

(* The two parts of a full answer: the nameless output finds a call that   *)
(* is asked for, the result carries its own.                               *)
LEMMA FullAnswerOpens ==
    ASSUME NEW es, Recorded(es), NEW b \in DOMAIN es, FullyAnswered(es, b),
           NEW k \in b + 1..b + Len(es[b].calls), NEW t, Fits(es, k - 1, t),
           NEW m, NEW ids, Opened(t.out, m, ids)
    PROVE  Opened(RestoreStep(t, es[k]).out, m, ids \cup {es[b].calls[k - b]})
<1> DEFINE c     == es[b].calls
           of    == c[k - b]
           claim == Claimed(t, of[3])
           u     == RestoreStep(t, es[k])
<1>1. /\ es[b].role = "turn" /\ c \in Seq(Ids) /\ c # <<>>
      /\ k \in DOMAIN es /\ k - b \in DOMAIN c
      /\ es[k].role = "answer" /\ es[k].full /\ es[k].of = of
      /\ FullBetween(es, b, b + Len(c))
    <2>1. c # <<>>
        BY DEF FullyAnswered
    <2> QED BY <2>1, FullIsTurn
<1>2. /\ DOMAIN es = 1..Len(es) /\ Len(es) \in Nat /\ DOMAIN c = 1..Len(c) /\ Len(c) \in Nat
    BY <1>1, LenProperties DEF Recorded
<1>3. /\ t \in RestoreStates /\ t.out \in Seq(Message) /\ of \in Ids
      /\ t.asked \in Seq(Ids)
    <2>1. t \in RestoreStates
        BY DEF Fits
    <2> HIDE DEF Ids, Message
    <2> QED BY <1>1, <2>1 DEF RestoreStates
<1> HIDE DEF Ids, Message
<1>4. BlockHeld(c, k - b, t)
    <2>1. b \in 1..k - 1 /\ ((k - 1) - b) + 1 = k - b
        BY <1>2
    <2>2. \A j \in b + 1..k - 1 : j \in b + 1..b + Len(c)
        BY <1>2
    <2>3. FullBetween(es, b, k - 1)
        BY <1>1, <2>2 DEF FullBetween
    <2>4. BlockHeld(c, ((k - 1) - b) + 1, t)
        BY <1>1, <2>1, <2>3 DEF Fits, OpenBlock
    <2> QED BY <2>1, <2>4
<1>5. claim \in ToSet(t.asked)
    <2>1. PICK d \in Nat : /\ Len(t.asked) = d + Len(c)
                           /\ \A i \in DOMAIN c : t.asked[d + i] = c[i]
        BY <1>4 DEF BlockHeld
    <2>2. c[k - b] \notin t.used
        <3>1. ~(k - b < k - b)
            BY <1>2
        <3> QED BY <1>1, <1>4, <3>1 DEF BlockHeld
    <2> HIDE DEF c
    <2>3. DOMAIN t.asked = 1..Len(t.asked)
        BY <1>3, LenProperties
    <2>4. d + (k - b) \in DOMAIN t.asked
        BY <1>1, <1>2, <2>1, <2>3
    <2>5. t.asked[d + (k - b)] \notin t.used
        BY <1>1, <2>1, <2>2
    <2> QED BY <1>3, <2>4, <2>5, ClaimedTyped
<1>6. claim # NoCall /\ claim \in Ids
    <2> HIDE DEF claim
    <2>1. PICK a \in 1..k - 1 : es[a].role = "turn" /\ claim \in ToSet(es[a].calls)
        BY <1>5 DEF Fits, AskedBy
    <2>2. a \in DOMAIN es
        BY <1>1, <1>2
    <2>3. es[a].calls \in Seq(Ids)
        <3>1. es[a] \in Entries
            BY <2>2, ElementOfSeq, LenProperties DEF Recorded
        <3> QED BY <3>1 DEF Entries
    <2>4. PICK i \in DOMAIN es[a].calls : claim = es[a].calls[i]
        BY <2>1 DEF ToSet
    <2>5. claim[2] = i
        BY <2>1, <2>2, <2>4 DEF Recorded, CallsNumbered
    <2>6. i # 0
        BY <2>3, <2>4
    <2>7. NoCall[2] = 0
        BY DEF NoCall
    <2>8. claim \in Ids
        BY <2>3, <2>4
    <2> QED BY <2>5, <2>6, <2>7, <2>8
<1>7. u.out = Append(Append(t.out, Tool(claim, of)), Tool(of, of))
    <2>1. u = [t EXCEPT !.out = t.out \o <<Tool(claim, of), Tool(of, of)>>,
                        !.used = t.used \cup {claim, of}]
        BY <1>1, <1>6 DEF RestoreStep, AnswerParts
    <2> HIDE DEF claim, of, u
    <2>2. Tool(claim, of) \in Message /\ Tool(of, of) \in Message
        BY <1>3, <1>6, ToolIsMessage
    <2>3. t.out \o <<Tool(claim, of), Tool(of, of)>>
                = Append(Append(t.out, Tool(claim, of)), Tool(of, of))
        BY <1>3, <2>2
    <2> QED BY <1>3, <2>1, <2>3 DEF RestoreStates
<1> HIDE DEF claim, of
<1>8. /\ Tool(claim, of) \in Message /\ Tool(claim, of).role = "tool"
      /\ Tool(of, of) \in Message /\ Tool(of, of).role = "tool" /\ Tool(of, of).id = of
    <2>1. Tool(claim, of).role = "tool" /\ Tool(of, of).role = "tool"
        BY DEF Tool, Plain
    <2> QED BY <1>3, <1>6, <2>1, ToolIsMessage
<1>9. /\ Append(t.out, Tool(claim, of)) \in Seq(Message)
      /\ Opened(Append(t.out, Tool(claim, of)), m, ids \cup {Tool(claim, of).id})
    BY <1>3, <1>8, OpenedByTool, AppendProperties
<1>10. Opened(u.out, m, (ids \cup {Tool(claim, of).id}) \cup {of})
    <2> DEFINE s == Append(t.out, Tool(claim, of))
               h == ids \cup {Tool(claim, of).id}
    <2>1. s \in Seq(Message) /\ Opened(s, m, h)
        BY <1>9
    <2> HIDE DEF s, h, u
    <2>2. Opened(Append(s, Tool(of, of)), m, h \cup {Tool(of, of).id})
        BY <1>8, <2>1, OpenedByTool
    <2> QED BY <1>7, <1>8, <2>2 DEF s, h
<1>11. Opened(u.out, m, ids \cup {of})
    BY <1>10 DEF Opened
<1> QED BY <1>11 DEF of

-----------------------------------------------------------------------------
(* A turn whose answers are all written is in the restored history, with   *)
(* an answer to each of its calls behind it.                               *)
LEMMA FullIsRestored ==
    ASSUME NEW es, Recorded(es), NEW b \in DOMAIN es, FullyAnswered(es, b)
    PROVE  /\ Restored(es) \in Seq(Message)
           /\ Closed(Restored(es), Asked(es[b].n, es[b].calls))
<1> DEFINE n == Len(es)
           c == es[b].calls
           m == Asked(es[b].n, c)
           e == b + Len(c)
<1>1. es \in Seq(Entries) /\ n \in Nat /\ DOMAIN es = 1..n /\ \A k \in 1..n : es[k] \in Entries
    BY ElementOfSeq, LenProperties DEF Recorded
<1>2. PICK g : /\ g[0] = NothingRestored /\ Restored(es) = Deduped(g[n].out)
               /\ \A k \in 1..n : g[k] = RestoreStep(g[k - 1], es[k])
    BY <1>1, RestoredFold
<1>3. /\ es[b].role = "turn" /\ c \in Seq(Ids) /\ c # <<>> /\ es[b].n \in Nat
      /\ e <= n
    BY FullIsTurn DEF FullyAnswered
<1> HIDE DEF Ids, Message
<1>4. Len(c) \in Nat /\ DOMAIN c = 1..Len(c) /\ b \in Nat \ {0} /\ b <= e /\ e \in Nat
    <2> HIDE DEF c, n
    <2> QED BY <1>1, <1>3, LenProperties
<1>5. m = Answer(es[b].n, c) /\ m \in Message /\ m.calls = c
    <2>1. m = Answer(es[b].n, c)
        BY <1>3 DEF Answer
    <2> QED BY <1>3, <2>1, AnswerIsOwn DEF Own
<1> DEFINE Seen(k) == {c[i] : i \in 1..k - b}
           P == {k \in 0..n : /\ Fits(es, k, g[k])
                              /\ k \in b..e => Opened(g[k].out, m, Seen(k))
                              /\ k >= e => Closed(g[k].out, m)}
<1> HIDE DEF n, m
<1>6. ToSet(m.calls) \subseteq Seen(e)
    <2>1. e - b = Len(c)
        BY <1>4
    <2> QED BY <1>4, <1>5, <2>1 DEF ToSet
<1>7. 0 \in P
    <2>1. 0 \in 0..n /\ 0 \notin b..e /\ ~(0 >= e)
        BY <1>1, <1>4
    <2> QED BY <1>2, <2>1, FitsAtFirst
<1>8. ASSUME NEW k \in 1..n, k - 1 \in P PROVE k \in P
    <2> DEFINE t == g[k - 1]
               u == RestoreStep(t, es[k])
    <2>1. /\ k \in 0..n /\ es[k] \in Entries /\ g[k] = u /\ Fits(es, k - 1, t)
          /\ k - 1 \in b..e => Opened(t.out, m, Seen(k - 1))
          /\ k - 1 >= e => Closed(t.out, m)
        BY <1>1, <1>2, <1>8
    <2> HIDE DEF P, Seen, t, e
    <2>2. Fits(es, k, u)
        <3>1. es[k].role \in {"user", "turn", "answer"} /\ k \in 1..Len(es)
            BY <2>1 DEF Entries, n
        <3> QED BY <2>1, <3>1, UserFits, TurnFits, AnswerFits
    <2>3. /\ t \in RestoreStates /\ t.out \in Seq(Message)
          /\ u \in RestoreStates /\ u.out \in Seq(Message)
        <3>1. t \in RestoreStates /\ u \in RestoreStates
            BY <2>1, <2>2 DEF Fits
        <3> HIDE DEF u
        <3> QED BY <3>1 DEF RestoreStates
    <2>4. ASSUME k \in b..e PROVE Opened(u.out, m, Seen(k))
        <3>1. CASE k = b
            <4>1. u.out = Append(t.out, m)
                BY <1>3, <1>5, <2>3, <3>1 DEF RestoreStep, RestoreStates
            <4>2. u.out # <<>> /\ u.out[Len(u.out)] = m
                <5> HIDE DEF u
                <5> QED BY <1>5, <2>3, <4>1, AppendProperties
            <4>3. Seen(k) = {}
                BY <1>4, <3>1 DEF Seen
            <4> HIDE DEF u
            <4> QED BY <2>3, <4>2, <4>3, LastIsOpened
        <3>2. CASE k # b
            <4>1. k - 1 \in b..e /\ k \in b + 1..b + Len(c)
                BY <1>4, <2>4, <3>2 DEF e
            <4>2. Opened(t.out, m, Seen(k - 1))
                BY <2>1, <4>1
            <4>3. Opened(u.out, m, Seen(k - 1) \cup {c[k - b]})
                BY <2>1, <4>1, <4>2, FullAnswerOpens
            <4>4. Seen(k) = Seen(k - 1) \cup {c[k - b]}
                <5>1. 1..k - b = (1..(k - 1) - b) \cup {k - b}
                    BY <1>4, <4>1
                <5> QED BY <5>1 DEF Seen
            <4> QED BY <4>3, <4>4
        <3> QED BY <3>1, <3>2
    <2>5. ASSUME k >= e PROVE Closed(u.out, m)
        <3>1. CASE k = e
            <4>1. k \in b..e
                BY <1>4, <3>1
            <4> HIDE DEF u
            <4> QED BY <1>6, <2>3, <2>4, <3>1, <4>1, OpenedCloses
        <3>2. CASE k # e
            <4>1. k - 1 >= e
                BY <1>4, <2>5, <3>2
            <4>2. Closed(t.out, m)
                BY <2>1, <4>1
            <4>3. PICK x \in Message :
                        \/ u.out = Append(t.out, x)
                        \/ \E y \in Message : u.out = Append(Append(t.out, x), y)
                BY <2>1, <2>3, RestoreStepAdds
            <4> HIDE DEF u
            <4>4. Append(t.out, x) \in Seq(Message) /\ Closed(Append(t.out, x), m)
                BY <2>3, <4>2, ClosedStays, AppendProperties
            <4> QED BY <4>3, <4>4, ClosedStays
        <3> QED BY <3>1, <3>2
    <2> HIDE DEF u
    <2> QED BY <2>1, <2>2, <2>4, <2>5 DEF P
<1>9. n \in P
    <2> HIDE DEF P
    <2>1. 0..n \subseteq P
        BY <1>1, <1>7, <1>8, UpTo
    <2> QED BY <1>1, <2>1
<1>10. Closed(g[n].out, m) /\ g[n].out \in Seq(Message)
    <2>1. n >= e
        BY <1>1, <1>3, <1>4
    <2> QED BY <1>9, <2>1 DEF Fits, RestoreStates
<1>11. Restored(es) \in Seq(Message)
    BY <1>2, <1>10, DedupedIsSeq
<1>12. Closed(Restored(es), m)
    BY <1>2, <1>3, <1>5, <1>10, DedupedIsClosed
<1> QED BY <1>11, <1>12 DEF m

(* Whatever else a transcript holds, half-written blocks before and behind *)
(* them included, the calls whose results are all in it are in the history *)
(* of a resumed turn.                                                      *)
THEOREM AnsweredBlocksStay ==
    Spec => []AnsweredBlocksSurviveResume
<1>1. Init => AnswersInv
    BY AnswersInvInit
<1>2. AnswersInv /\ [Next]_vars => AnswersInv'
    BY AnswersInvNext
<1>3. AnswersInv => AnsweredBlocksSurviveResume
    <2> SUFFICES ASSUME AnswersInv, NEW k \in DOMAIN transcript, WrittenInFull(k)
                 PROVE  Asked(transcript[k].n, transcript[k].calls)
                            \in ToSet(Resumable(transcript))
        BY DEF AnsweredBlocksSurviveResume
    <2>1. Recorded(transcript) /\ FullyAnswered(transcript, k)
        BY DEF AnswersInv, TranscriptInv, WrittenInFull, FullyAnswered
    <2>2. /\ Restored(transcript) \in Seq(Message)
          /\ Closed(Restored(transcript), Asked(transcript[k].n, transcript[k].calls))
        BY <2>1, FullIsRestored
    <2>3. Asked(transcript[k].n, transcript[k].calls).calls # <<>>
        BY <2>1 DEF FullyAnswered, Asked, Said, Plain
    <2> QED BY <2>2, <2>3, SanitizedHoldsClosed DEF Resumable
<1> QED BY <1>1, <1>2, <1>3, PTL DEF Spec

-----------------------------------------------------------------------------
(* Which calls wait for an answer, message by message.  With the calls O   *)
(* waiting m may come, and then P wait: a message that asks or says        *)
(* something comes when none waits, an answer to one that does.            *)
Awaits(O, m, P) ==
    IF m.role = "tool" THEN m.id \in O /\ P = O \ {m.id} ELSE O = {} /\ P = ToSet(m.calls)

(* From the n-th message of s on, before which nothing is asked, o[k] are  *)
(* the calls that wait behind the k-th.                                    *)
Follows(s, n, o) ==
    /\ \A k \in 1..n : s[k].calls = <<>>
    /\ o[n] = {}
    /\ \A k \in n + 1..Len(s) : Awaits(o[k - 1], s[k], o[k])

(* A history at whose end the calls O wait; and one that may begin with    *)
(* answers whose calls have been cut off.                                  *)
Standing(s, O) == \E o : Follows(s, 0, o) /\ o[Len(s)] = O
Beheaded(s)    == \E n \in 0..Len(s) : \E o : Follows(s, n, o) /\ o[Len(s)] = {}

(* In the empty history no call waits.                                     *)
LEMMA NothingStands == Standing(<<>>, {})
<1> DEFINE s == <<>>
           o == [k \in {0} |-> {}]
<1>1. Len(s) = 0 /\ o[0] = {}
    OBVIOUS
<1> HIDE DEF s, o
<1>2. 1..0 = {} /\ 0 + 1..Len(s) = {}
    BY <1>1
<1>3. Follows(s, 0, o) /\ o[Len(s)] = {}
    BY <1>1, <1>2 DEF Follows
<1>4. Standing(s, {})
    BY <1>3 DEF Standing
<1> QED BY <1>4 DEF s

(* One message more, where it may come.                                    *)
LEMMA FollowsGrows ==
    ASSUME NEW s \in Seq(Message), NEW n \in 0..Len(s), NEW o, Follows(s, n, o),
           NEW m \in Message, NEW P, Awaits(o[Len(s)], m, P)
    PROVE  \E p : Follows(Append(s, m), n, p) /\ p[Len(Append(s, m))] = P
<1> DEFINE r == Append(s, m)
           l == Len(s)
           p == [k \in 0..l + 1 |-> IF k = l + 1 THEN P ELSE o[k]]
<1> SUFFICES \E q : Follows(r, n, q) /\ q[Len(r)] = P
    OBVIOUS
<1> HIDE DEF Message
<1>1. /\ l \in Nat /\ Len(r) = l + 1 /\ r[l + 1] = m /\ \A j \in 1..l : r[j] = s[j]
    BY AppendProperties, LenProperties
<1>2. /\ p[l + 1] = P
      /\ \A k \in 0..l : p[k] = o[k]
    BY <1>1
<1> HIDE DEF r, p
<1>3. /\ \A k \in 1..n : k \in 1..l
      /\ n \in 0..l
      /\ \A k \in n + 1..l + 1 : k - 1 \in 0..l /\ (k = l + 1 \/ k \in n + 1..l)
      /\ \A k \in n + 1..l : k \in 1..l /\ k \in 0..l
    BY <1>1
<1>4. ASSUME NEW k \in n + 1..l + 1 PROVE Awaits(p[k - 1], r[k], p[k])
    <2>1. CASE k = l + 1
        <3>1. k - 1 = l /\ l \in 0..l
            BY <1>1, <2>1
        <3>2. p[k - 1] = o[Len(s)] /\ r[k] = m /\ p[k] = P
            BY <1>1, <1>2, <2>1, <3>1 DEF l
        <3> QED BY <3>2
    <2>2. CASE k # l + 1
        <3>1. k \in n + 1..l
            BY <1>3, <2>2
        <3>2. p[k - 1] = o[k - 1] /\ r[k] = s[k] /\ p[k] = o[k]
            BY <1>1, <1>2, <1>3, <3>1
        <3>3. Awaits(o[k - 1], s[k], o[k])
            BY <3>1 DEF Follows, l
        <3> QED BY <3>2, <3>3
    <2> QED BY <2>1, <2>2
<1>5. (\A k \in 1..n : r[k].calls = <<>>) /\ p[n] = {}
    BY <1>1, <1>2, <1>3 DEF Follows
<1> HIDE DEF l
<1>6. Follows(r, n, p)
    BY <1>1, <1>4, <1>5 DEF Follows
<1> QED BY <1>1, <1>2, <1>6

LEMMA StandingGrows ==
    ASSUME NEW s \in Seq(Message), NEW O, Standing(s, O), NEW m \in Message, NEW P, Awaits(O, m, P)
    PROVE  Standing(Append(s, m), P)
<1>1. PICK o : Follows(s, 0, o) /\ o[Len(s)] = O
    BY DEF Standing
<1>2. 0 \in 0..Len(s) /\ Awaits(o[Len(s)], m, P)
    <2> HIDE DEF Message
    <2> QED BY <1>1, LenProperties
<1>3. \E p : Follows(Append(s, m), 0, p) /\ p[Len(Append(s, m))] = P
    <2> HIDE DEF Message
    <2> QED BY <1>1, <1>2, FollowsGrows
<1> QED BY <1>3 DEF Standing

(* A message that neither asks nor answers.                                *)
Silent(m) == m.role # "tool" /\ m.calls = <<>>

LEMMA SilentAwaits ==
    ASSUME NEW m, Silent(m) PROVE Awaits({}, m, {})
BY DEF Silent, Awaits, ToSet

(* A history behind another one in which no call waits.                    *)
LEMMA StandingJoins ==
    ASSUME NEW a \in Seq(Message), NEW c \in Seq(Message), Standing(a, {}), NEW O, Standing(c, O)
    PROVE  Standing(a \o c, O)
<1> DEFINE r == a \o c
           n == Len(a)
<1> HIDE DEF Message
<1>1. /\ n \in Nat /\ Len(c) \in Nat /\ Len(r) = n + Len(c)
      /\ \A j \in 1..n : r[j] = a[j]
      /\ \A i \in 1..Len(c) : r[n + i] = c[i]
    BY JoinParts, LenProperties
<1>2. PICK u : Follows(a, 0, u) /\ u[n] = {}
    BY DEF Standing
<1>3. PICK v : Follows(c, 0, v) /\ v[Len(c)] = O
    BY DEF Standing
<1> DEFINE o == [k \in 0..n + Len(c) |-> IF k <= n THEN u[k] ELSE v[k - n]]
<1>4. (\A k \in 0..n : o[k] = u[k]) /\ \A i \in 0..Len(c) : o[n + i] = v[i]
    <2>1. \A k \in 0..n : k \in 0..n + Len(c) /\ k <= n
        BY <1>1
    <2>2. \A k \in 0..n : o[k] = u[k]
        BY <2>1
    <2>3. ASSUME NEW i \in 0..Len(c) PROVE o[n + i] = v[i]
        <3>1. CASE i = 0
            <4>1. n + i = n /\ n \in 0..n
                BY <1>1, <3>1
            <4>2. v[0] = {}
                BY <1>3 DEF Follows
            <4> HIDE DEF o, n
            <4> QED BY <1>2, <2>2, <3>1, <4>1, <4>2
        <3>2. CASE i # 0
            <4>1. n + i \in 0..n + Len(c) /\ ~(n + i <= n) /\ (n + i) - n = i
                BY <1>1, <3>2
            <4> HIDE DEF n
            <4> QED BY <4>1
        <3> QED BY <3>1, <3>2
    <2> QED BY <2>2, <2>3
<1> HIDE DEF r, o
<1>5. ASSUME NEW k \in 0 + 1..Len(r) PROVE Awaits(o[k - 1], r[k], o[k])
    <2>1. CASE k <= n
        <3>1. k \in 0 + 1..n /\ k \in 0..n /\ k - 1 \in 0..n /\ k \in 1..n
            BY <1>1, <2>1
        <3>2. Awaits(u[k - 1], a[k], u[k])
            BY <1>2, <3>1 DEF Follows, n
        <3> QED BY <1>1, <1>4, <3>1, <3>2
    <2>2. CASE ~(k <= n)
        <3> DEFINE i == k - n
        <3>1. /\ i \in 0 + 1..Len(c) /\ i \in 0..Len(c) /\ i - 1 \in 0..Len(c) /\ i \in 1..Len(c)
              /\ k = n + i /\ k - 1 = n + (i - 1)
            BY <1>1, <2>2
        <3> HIDE DEF i
        <3>2. Awaits(v[i - 1], c[i], v[i])
            BY <1>3, <3>1 DEF Follows
        <3>3. r[k] = c[i] /\ o[k] = v[i] /\ o[k - 1] = v[i - 1]
            BY <1>1, <1>4, <3>1
        <3> QED BY <3>2, <3>3
    <2> QED BY <2>1, <2>2
<1>6. o[0] = {} /\ o[Len(r)] = O
    <2>1. 0 \in 0..n /\ Len(c) \in 0..Len(c)
        BY <1>1
    <2>2. u[0] = {}
        BY <1>2 DEF Follows
    <2> QED BY <1>1, <1>3, <1>4, <2>1, <2>2
<1>7. \A k \in 1..0 : r[k].calls = <<>>
    OBVIOUS
<1>8. Follows(r, 0, o)
    BY <1>5, <1>6, <1>7 DEF Follows
<1>9. Standing(r, O)
    BY <1>6, <1>8 DEF Standing
<1> QED BY <1>9 DEF r
-----------------------------------------------------------------------------
(* A call that waits was asked for, and has not been answered since.       *)
LEMMA WaitingWasAsked ==
    ASSUME NEW s \in Seq(Message), NEW n \in 0..Len(s), NEW o, Follows(s, n, o),
           NEW k \in n..Len(s), NEW x \in o[k]
    PROVE  \E b \in n + 1..k : /\ x \in ToSet(s[b].calls) /\ Behind(s, b, k)
                               /\ \A j \in b + 1..k : s[j].id # x
<1> DEFINE l == Len(s)
           Asks(b, i) == /\ x \in ToSet(s[b].calls) /\ Behind(s, b, i)
                         /\ \A j \in b + 1..i : s[j].id # x
           P == {i \in 0..l : n <= i /\ x \in o[i] => \E b \in n + 1..i : Asks(b, i)}
<1>1. l \in Nat
    <2> HIDE DEF Message
    <2> QED BY LenProperties
<1>2. ASSUME NEW i \in 0..l, n = i PROVE i \in P
    BY <1>2 DEF Follows
<1>3. 0 \in P
    <2>1. CASE n = 0
        <3>1. 0 \in 0..l
            BY <1>1
        <3> HIDE DEF P
        <3> QED BY <1>2, <2>1, <3>1
    <2>2. CASE n # 0
        <3>1. 0 \in 0..l /\ ~(n <= 0)
            BY <1>1, <2>2
        <3> QED BY <3>1
    <2> QED BY <2>1, <2>2
<1>4. ASSUME NEW i \in 1..l, i - 1 \in P PROVE i \in P
    <2>1. i \in 0..l
        BY <1>1
    <2>2. CASE n = i
        <3> HIDE DEF P
        <3> QED BY <1>2, <2>1, <2>2
    <2>3. CASE n # i
        <3> SUFFICES ASSUME n <= i, x \in o[i] PROVE \E b \in n + 1..i : Asks(b, i)
            BY <2>1
        <3>1. i \in n + 1..l /\ n <= i - 1
            BY <1>1, <2>3
        <3>2. Awaits(o[i - 1], s[i], o[i])
            BY <3>1 DEF Follows
        <3>3. CASE s[i].role = "tool"
            <4>1. x \in o[i - 1] /\ x # s[i].id
                BY <3>2, <3>3 DEF Awaits
            <4>2. PICK b \in n + 1..i - 1 : Asks(b, i - 1)
                BY <1>4, <3>1, <4>1
            <4>3. /\ b \in n + 1..i
                  /\ \A j \in b + 1..i : j = i \/ j \in b + 1..i - 1
                BY <1>1
            <4>4. Asks(b, i)
                BY <3>3, <4>1, <4>2, <4>3 DEF Behind
            <4> QED BY <4>3, <4>4
        <3>4. CASE s[i].role # "tool"
            <4>1. x \in ToSet(s[i].calls)
                BY <3>2, <3>4 DEF Awaits
            <4>2. i + 1..i = {} /\ i \in n + 1..i
                BY <1>1, <3>1
            <4>3. Asks(i, i)
                BY <4>1, <4>2 DEF Behind
            <4> QED BY <4>2, <4>3
        <3> QED BY <3>3, <3>4
    <2> QED BY <2>2, <2>3
<1>5. 0..l \subseteq P
    <2> HIDE DEF P, l
    <2> QED BY <1>1, <1>3, <1>4, UpTo
<1>6. k \in 0..l /\ n <= k
    BY <1>1
<1> HIDE DEF l
<1>7. \E b \in n + 1..k : Asks(b, k)
    BY <1>5, <1>6
<1> QED BY <1>7

(* A call that waits, and at the end does not, is answered behind the      *)
(* message that asks for it.                                               *)
LEMMA WaitingIsAnswered ==
    ASSUME NEW s \in Seq(Message), NEW o, Follows(s, 0, o), o[Len(s)] = {},
           NEW b \in 1..Len(s), NEW x \in o[b]
    PROVE  \E k \in b + 1..Len(s) : Behind(s, b, k) /\ s[k].id = x
<1> DEFINE l == Len(s)
           K == {k \in b + 1..l : x \notin o[k]}
<1>1. l \in Nat
    <2> HIDE DEF Message
    <2> QED BY LenProperties
<1>2. l \in K
    <2>1. b # l
        OBVIOUS
    <2>2. l \in b + 1..l
        BY <1>1, <2>1
    <2> QED BY <2>2
<1>3. Min(K) \in K /\ \A j \in K : Min(K) <= j
    <2>1. K \in SUBSET Nat /\ K # {}
        BY <1>1, <1>2
    <2> HIDE DEF K
    <2> QED BY <2>1, MinIsMember
<1> DEFINE k == Min(K)
<1>4. k \in b + 1..l /\ x \notin o[k]
    BY <1>3
<1>5. ASSUME NEW j \in b..k - 1 PROVE x \in o[j]
    <2>1. CASE j = b
        BY <2>1
    <2>2. CASE j # b
        <3>1. j \in b + 1..l /\ ~(k <= j)
            BY <1>1, <1>4, <2>2
        <3> QED BY <1>3, <3>1
    <2> QED BY <2>1, <2>2
<1> HIDE DEF k
<1>6. ASSUME NEW j \in b + 1..k PROVE Awaits(o[j - 1], s[j], o[j]) /\ x \in o[j - 1]
    <2>1. j \in 0 + 1..l /\ j - 1 \in b..k - 1
        BY <1>1, <1>4
    <2>2. Awaits(o[j - 1], s[j], o[j])
        BY <2>1 DEF Follows
    <2> QED BY <1>5, <2>1, <2>2
<1>7. Behind(s, b, k)
    BY <1>6 DEF Behind, Awaits
<1>8. k \in b + 1..k
    BY <1>1, <1>4
<1>9. s[k].id = x
    BY <1>4, <1>6, <1>7, <1>8 DEF Awaits, Behind
<1> QED BY <1>4, <1>7, <1>9

(* A history in which no call waits at the end is one a provider accepts.  *)
LEMMA StandingIsWellFormed ==
    ASSUME NEW s \in Seq(Message), Standing(s, {}) PROVE WellFormed(s)
<1>1. PICK o : Follows(s, 0, o) /\ o[Len(s)] = {}
    BY DEF Standing
<1>2. Len(s) \in Nat /\ DOMAIN s = 1..Len(s) /\ \A k \in 1..Len(s) : s[k] \in Message
    <2> HIDE DEF Message
    <2> QED BY ElementOfSeq, LenProperties
<1>3. ASSUME NEW k \in 1..Len(s) PROVE Awaits(o[k - 1], s[k], o[k])
    <2>1. k \in 0 + 1..Len(s)
        BY <1>2
    <2> QED BY <1>1, <2>1 DEF Follows
<1>4. ASSUME NEW b \in 1..Len(s), NEW c \in ToSet(s[b].calls)
      PROVE  \E k \in b + 1..Len(s) : Behind(s, b, k) /\ s[k].id = c
    <2>1. s[b].role # "tool"
        <3>1. ToSet(<<>>) = {}
            BY DEF ToSet
        <3> QED BY <1>2, <1>4, <3>1 DEF Message
    <2>2. c \in o[b]
        BY <1>3, <1>4, <2>1 DEF Awaits
    <2> HIDE DEF Message
    <2> QED BY <1>1, <2>2, WaitingIsAnswered
<1>5. ASSUME NEW k \in 1..Len(s), s[k].role = "tool"
      PROVE  \E b \in 1..k - 1 : Answering(s, b, k)
    <2>1. s[k].id \in o[k - 1]
        BY <1>3, <1>5 DEF Awaits
    <2>2. k - 1 \in 0..Len(s) /\ 0 \in 0..Len(s)
        BY <1>2
    <2>3. PICK b \in 0 + 1..k - 1 : /\ s[k].id \in ToSet(s[b].calls) /\ Behind(s, b, k - 1)
                                    /\ \A j \in b + 1..k - 1 : s[j].id # s[k].id
        <3> HIDE DEF Message
        <3> QED BY <1>1, <2>1, <2>2, WaitingWasAsked
    <2>4. b \in 1..k - 1 /\ \A j \in b + 1..k : j = k \/ j \in b + 1..k - 1
        BY <1>2
    <2>5. Behind(s, b, k)
        BY <1>5, <2>3, <2>4 DEF Behind
    <2> QED BY <2>3, <2>4, <2>5 DEF Answering
<1> QED BY <1>2, <1>4, <1>5 DEF WellFormed

-----------------------------------------------------------------------------
(* Around a silent message no call waits.                                  *)
LEMMA SilentClears ==
    ASSUME NEW s, NEW n \in Nat, NEW o, Follows(s, n, o), NEW k \in n + 1..Len(s), Silent(s[k])
    PROVE  o[k - 1] = {} /\ o[k] = {}
BY DEF Follows, Awaits, Silent, ToSet

(* t is s with m behind its p-th message.                                  *)
IsInserted(s, p, m, t) ==
    /\ Len(t) = Len(s) + 1 /\ t[p + 1] = m
    /\ \A k \in 1..p : t[k] = s[k]
    /\ \A k \in p + 1..Len(s) : t[k + 1] = s[k]

(* A silent message may be put where no call waits.                        *)
LEMMA FollowsInserted ==
    ASSUME NEW s \in Seq(Message), NEW t, NEW p \in 0..Len(s), NEW m, Silent(m),
           IsInserted(s, p, m, t),
           NEW n \in 0..Len(s), NEW o, Follows(s, n, o), p < n \/ o[p] = {}
    PROVE  \E q : /\ Follows(t, IF p < n THEN n + 1 ELSE n, q)
                  /\ q[Len(t)] = o[Len(s)]
<1> DEFINE l == Len(s)
           N == IF p < n THEN n + 1 ELSE n
           q == [k \in 0..l + 1 |-> IF k <= p THEN o[k] ELSE o[k - 1]]
<1>1. l \in Nat /\ p \in 0..l /\ n \in 0..l /\ N \in 0..l + 1
    <2> HIDE DEF Message
    <2>1. l \in Nat
        BY LenProperties
    <2> QED BY <2>1
<1>2. (\A k \in 0..p : q[k] = o[k]) /\ \A k \in p..l : q[k + 1] = o[k]
    <2>1. \A k \in 0..p : k \in 0..l + 1 /\ k <= p
        BY <1>1
    <2>2. \A k \in p..l : k + 1 \in 0..l + 1 /\ ~(k + 1 <= p) /\ (k + 1) - 1 = k
        BY <1>1
    <2> QED BY <2>1, <2>2
<1> HIDE DEF q
<1>3. /\ Len(t) = l + 1 /\ t[p + 1] = m
      /\ \A k \in 1..p : t[k] = s[k]
      /\ \A k \in p + 1..l : t[k + 1] = s[k]
    BY DEF IsInserted
<1>4. ASSUME NEW k \in N + 1..l + 1 PROVE Awaits(q[k - 1], t[k], q[k])
    <2>1. CASE k <= p
        <3>1. k \in n + 1..l /\ k \in 0..p /\ k - 1 \in 0..p /\ k \in 1..p
            BY <1>1, <2>1
        <3>2. Awaits(o[k - 1], s[k], o[k])
            BY <3>1 DEF Follows
        <3> QED BY <1>2, <1>3, <3>1, <3>2
    <2>2. CASE k = p + 1
        <3>1. ~(p < n) /\ p \in 0..p /\ p \in p..l /\ k - 1 = p
            BY <1>1, <2>2
        <3>2. q[k - 1] = {} /\ q[k] = {} /\ t[k] = m
            BY <1>2, <1>3, <2>2, <3>1
        <3> QED BY <3>2, SilentAwaits
    <2>3. CASE k > p + 1
        <3> DEFINE j == k - 1
        <3>1. /\ j \in n + 1..l /\ j \in p + 1..l /\ j \in p..l /\ j - 1 \in p..l
              /\ k = j + 1 /\ k - 1 = (j - 1) + 1
            BY <1>1, <2>3
        <3> HIDE DEF j
        <3>2. Awaits(o[j - 1], s[j], o[j])
            BY <3>1 DEF Follows
        <3>3. q[k] = o[j] /\ q[k - 1] = o[j - 1] /\ t[k] = s[j]
            BY <1>2, <1>3, <3>1
        <3> QED BY <3>2, <3>3
    <2> QED BY <1>1, <2>1, <2>2, <2>3
<1>5. ASSUME NEW k \in 1..N PROVE t[k].calls = <<>>
    <2>1. CASE k <= p
        <3>1. k \in 1..n /\ k \in 1..p
            BY <1>1, <2>1
        <3> QED BY <1>3, <3>1 DEF Follows
    <2>2. CASE k = p + 1
        BY <1>3, <2>2 DEF Silent
    <2>3. CASE k > p + 1
        <3> DEFINE j == k - 1
        <3>1. j \in 1..n /\ j \in p + 1..l /\ k = j + 1
            BY <1>1, <2>3
        <3> HIDE DEF j
        <3> QED BY <1>3, <3>1 DEF Follows
    <2> QED BY <1>1, <2>1, <2>2, <2>3
<1>6. q[N] = {}
    <2>1. CASE p < n
        <3>1. N = n + 1 /\ n \in p..l
            BY <1>1, <2>1
        <3> QED BY <1>2, <3>1 DEF Follows
    <2>2. CASE ~(p < n)
        <3>1. N = n /\ n \in 0..p
            BY <1>1, <2>2
        <3> QED BY <1>2, <3>1 DEF Follows
    <2> QED BY <2>1, <2>2
<1>7. q[Len(t)] = o[l]
    <2>1. l \in p..l
        BY <1>1
    <2> QED BY <1>2, <1>3, <2>1
<1>8. Follows(t, N, q)
    <2> HIDE DEF N, l
    <2> QED BY <1>3, <1>4, <1>5, <1>6 DEF Follows
<1> QED BY <1>7, <1>8

(* Behind a silent message in particular.                                  *)
LEMMA InsertedStands ==
    ASSUME NEW s \in Seq(Message), NEW t, NEW p \in 1..Len(s), Silent(s[p]), NEW m, Silent(m),
           IsInserted(s, p, m, t)
    PROVE  /\ Standing(s, {}) => Standing(t, {})
           /\ Beheaded(s) => Beheaded(t)
<1>1. Len(s) \in Nat /\ p \in 0..Len(s) /\ 0 \in 0..Len(s)
    <2> HIDE DEF Message
    <2>1. Len(s) \in Nat
        BY LenProperties
    <2> QED BY <2>1
<1>2. Len(t) = Len(s) + 1
    BY DEF IsInserted
<1>3. ASSUME NEW n \in 0..Len(s), NEW o, Follows(s, n, o) PROVE p < n \/ o[p] = {}
    <2>1. CASE p < n
        BY <2>1
    <2>2. CASE p = n
        BY <1>3, <2>2 DEF Follows
    <2>3. CASE p > n
        <3>1. p \in n + 1..Len(s) /\ n \in Nat
            BY <1>1, <2>3
        <3> QED BY <1>3, <3>1, SilentClears
    <2> QED BY <1>1, <2>1, <2>2, <2>3
<1>4. ASSUME Standing(s, {}) PROVE Standing(t, {})
    <2>1. PICK o : Follows(s, 0, o) /\ o[Len(s)] = {}
        BY <1>4 DEF Standing
    <2>2. ~(p < 0) /\ (p < 0 \/ o[p] = {})
        BY <1>1, <1>3, <2>1
    <2>3. \E q : Follows(t, IF p < 0 THEN 0 + 1 ELSE 0, q) /\ q[Len(t)] = o[Len(s)]
        <3> HIDE DEF Message
        <3> QED BY <1>1, <2>1, <2>2, FollowsInserted
    <2> QED BY <2>1, <2>2, <2>3 DEF Standing
<1>5. ASSUME Beheaded(s) PROVE Beheaded(t)
    <2>1. PICK n \in 0..Len(s) : \E o : Follows(s, n, o) /\ o[Len(s)] = {}
        BY <1>5 DEF Beheaded
    <2>2. PICK o : Follows(s, n, o) /\ o[Len(s)] = {}
        BY <2>1
    <2>3. p < n \/ o[p] = {}
        BY <1>3, <2>2
    <2> DEFINE N == IF p < n THEN n + 1 ELSE n
    <2>4. \E q : Follows(t, N, q) /\ q[Len(t)] = o[Len(s)]
        <3> HIDE DEF Message
        <3> QED BY <1>1, <2>2, <2>3, FollowsInserted
    <2>5. N \in 0..Len(t)
        BY <1>1, <1>2
    <2> HIDE DEF N
    <2> QED BY <2>2, <2>4, <2>5 DEF Beheaded
<1> QED BY <1>4, <1>5

(* Two parts of a history and a message between them.                      *)
LEMMA ThreeParts ==
    ASSUME NEW a \in Seq(Message), NEW m \in Message, NEW c \in Seq(Message)
    PROVE  LET r == a \o <<m>> \o c
           IN  /\ r \in Seq(Message) /\ Len(r) = Len(a) + 1 + Len(c)
               /\ r[Len(a) + 1] = m
               /\ \A k \in 1..Len(a) : r[k] = a[k]
               /\ \A i \in 1..Len(c) : r[Len(a) + 1 + i] = c[i]
<1> DEFINE w == <<m>>
           d == a \o w
           r == d \o c
<1> SUFFICES /\ r \in Seq(Message) /\ Len(r) = Len(a) + 1 + Len(c)
             /\ r[Len(a) + 1] = m
             /\ \A k \in 1..Len(a) : r[k] = a[k]
             /\ \A i \in 1..Len(c) : r[Len(a) + 1 + i] = c[i]
    OBVIOUS
<1> HIDE DEF Message
<1>1. w \in Seq(Message) /\ Len(w) = 1 /\ w[1] = m
    OBVIOUS
<1> HIDE DEF w
<1>2. /\ d \in Seq(Message) /\ Len(d) = Len(a) + 1
      /\ d[Len(a) + 1] = m /\ \A k \in 1..Len(a) : d[k] = a[k]
    <2>1. /\ d \in Seq(Message) /\ Len(d) = Len(a) + Len(w)
          /\ \A i \in 1..Len(a) + Len(w) : d[i] = IF i <= Len(a) THEN a[i] ELSE w[i - Len(a)]
        BY <1>1, ConcatProperties
    <2>2. /\ Len(a) \in Nat /\ Len(a) + 1 \in 1..Len(a) + 1 /\ ~(Len(a) + 1 <= Len(a))
          /\ (Len(a) + 1) - Len(a) = 1 /\ \A k \in 1..Len(a) : k \in 1..Len(a) + 1 /\ k <= Len(a)
        BY LenProperties
    <2> HIDE DEF d
    <2> QED BY <1>1, <2>1, <2>2
<1> HIDE DEF d
<1>3. /\ r \in Seq(Message) /\ Len(r) = Len(d) + Len(c)
      /\ \A k \in 1..Len(d) : r[k] = d[k]
      /\ \A i \in 1..Len(c) : r[Len(d) + i] = c[i]
    <2>1. r \in Seq(Message) /\ Len(r) = Len(d) + Len(c)
        BY <1>2, ConcatProperties
    <2>2. /\ \A k \in 1..Len(d) : r[k] = d[k]
          /\ \A i \in 1..Len(c) : r[Len(d) + i] = c[i]
        BY <1>2, JoinParts
    <2> QED BY <2>1, <2>2
<1> HIDE DEF r
<1>4. /\ Len(a) \in Nat /\ Len(c) \in Nat /\ Len(a) + 1 \in 1..Len(d)
      /\ \A k \in 1..Len(a) : k \in 1..Len(d)
    BY <1>1, <1>2, LenProperties
<1> QED BY <1>1, <1>2, <1>3, <1>4

(* A part of a history, message by message.                                *)
LEMMA PartHolds ==
    ASSUME NEW s \in Seq(Message), NEW a \in 1..Len(s) + 1, NEW b \in a - 1..Len(s)
    PROVE  /\ SubSeq(s, a, b) \in Seq(Message) /\ Len(SubSeq(s, a, b)) = b + 1 - a
           /\ \A i \in 1..b + 1 - a : SubSeq(s, a, b)[i] = s[a + i - 1]
<1> HIDE DEF Message
<1>1. Len(s) \in Nat
    BY LenProperties
<1>2. \A i \in a..b : s[i] \in Message
    <2> TAKE i \in a..b
    <2>1. i \in 1..Len(s)
        BY <1>1
    <2> QED BY <2>1, ElementOfSeq
<1>3. a \in Int /\ b \in Int /\ b - a + 1 = b + 1 - a
      /\ (IF a <= b THEN b - a + 1 ELSE 0) = b + 1 - a
    BY <1>1
<1>4. /\ SubSeq(s, a, b) \in Seq(Message)
      /\ Len(SubSeq(s, a, b)) = IF a <= b THEN b - a + 1 ELSE 0
      /\ \A i \in 1..b - a + 1 : SubSeq(s, a, b)[i] = s[a + i - 1]
    BY <1>2, <1>3, SubSeqProperties
<1> QED BY <1>3, <1>4

(* A message put behind the p-th.                                          *)
LEMMA PutBehind ==
    ASSUME NEW s \in Seq(Message), NEW p \in 0..Len(s), NEW m \in Message
    PROVE  LET t == UpToLen(s, p) \o <<m>> \o SubSeq(s, p + 1, Len(s))
           IN  t \in Seq(Message) /\ IsInserted(s, p, m, t)
<1> DEFINE l == Len(s)
           a == UpToLen(s, p)
           c == SubSeq(s, p + 1, l)
           t == a \o <<m>> \o c
<1> SUFFICES t \in Seq(Message) /\ IsInserted(s, p, m, t)
    OBVIOUS
<1> HIDE DEF Message
<1>1. l \in Nat
    BY LenProperties
<1>2. /\ 1 \in 1..l + 1 /\ p \in 1 - 1..l /\ p + 1 - 1 = p
      /\ p + 1 \in 1..l + 1 /\ l \in (p + 1) - 1..l /\ l + 1 - (p + 1) = l - p
    BY <1>1
<1>3. a = SubSeq(s, 1, p)
    BY <1>1 DEF UpToLen
<1>4. /\ a \in Seq(Message) /\ Len(a) = p
      /\ \A i \in 1..p : a[i] = s[1 + i - 1]
    BY <1>2, <1>3, PartHolds
<1>5. /\ c \in Seq(Message) /\ Len(c) = l - p
      /\ \A i \in 1..l - p : c[i] = s[p + 1 + i - 1]
    BY <1>2, PartHolds
<1> HIDE DEF a, c
<1>6. /\ t \in Seq(Message) /\ Len(t) = p + 1 + (l - p) /\ t[p + 1] = m
      /\ \A k \in 1..p : t[k] = a[k]
      /\ \A i \in 1..l - p : t[p + 1 + i] = c[i]
    <2>1. /\ t \in Seq(Message) /\ Len(t) = Len(a) + 1 + Len(c) /\ t[Len(a) + 1] = m
          /\ \A k \in 1..Len(a) : t[k] = a[k]
          /\ \A i \in 1..Len(c) : t[Len(a) + 1 + i] = c[i]
        <3>1. a \in Seq(Message) /\ c \in Seq(Message)
            BY <1>4, <1>5
        <3>2. LET r == a \o <<m>> \o c
              IN  /\ r \in Seq(Message) /\ Len(r) = Len(a) + 1 + Len(c) /\ r[Len(a) + 1] = m
                  /\ \A k \in 1..Len(a) : r[k] = a[k]
                  /\ \A i \in 1..Len(c) : r[Len(a) + 1 + i] = c[i]
            BY ONLY <3>1, m \in Message, ThreeParts
        <3> QED BY ONLY <3>2 DEF t
    <2> HIDE DEF t
    <2> QED BY <1>4, <1>5, <2>1
<1> HIDE DEF t
<1>7. Len(t) = l + 1
    BY <1>1, <1>6
<1>8. ASSUME NEW k \in 1..p PROVE t[k] = s[k]
    <2>1. 1 + k - 1 = k
        OBVIOUS
    <2> QED BY <1>4, <1>6, <2>1
<1>9. ASSUME NEW k \in p + 1..l PROVE t[k + 1] = s[k]
    <2> DEFINE i == k - p
    <2>1. i \in 1..l - p /\ p + 1 + i = k + 1 /\ p + 1 + i - 1 = k
        BY <1>1
    <2> HIDE DEF i
    <2> QED BY <1>5, <1>6, <2>1
<1> QED BY <1>6, <1>7, <1>8, <1>9 DEF IsInserted

-----------------------------------------------------------------------------
(* A history that begins with the prompt, and whose first b messages are   *)
(* silent.                                                                 *)
Headed(s)         == s # <<>> /\ s[1] = System
PlainPrefix(s, b) == \A k \in 1..b : k \in DOMAIN s => Silent(s[k])

(* What the loop itself says is silent.                                    *)
LEMMA NotesAreSilent ==
    /\ Silent(System) /\ Silent(Context) /\ Silent(Memory) /\ Silent(Artifact)
    /\ \A tag : Silent(Note(tag))
    /\ \A n : Silent(User(n))
BY DEF Silent, System, Context, Memory, Artifact, Note, User, Plain

LEMMA NotesAreMessages ==
    /\ System \in Message /\ Context \in Message /\ Memory \in Message /\ Artifact \in Message
    /\ \A tag \in Tags : Note(tag) \in Message
    /\ \A n \in Nat : User(n) \in Message
BY ConstantMessagesAreOwn DEF Own

(* The length and the messages of a history that begins with the prompt.   *)
LEMMA HeadedHolds ==
    ASSUME NEW s \in Seq(Message), Headed(s)
    PROVE  /\ Len(s) \in Nat /\ Len(s) # 0 /\ 1 \in 1..Len(s) /\ DOMAIN s = 1..Len(s)
           /\ Silent(s[1])
<1>1. Len(s) \in Nat /\ Len(s) # 0 /\ DOMAIN s = 1..Len(s)
    <2> HIDE DEF Message
    <2> QED BY EmptySeq, LenProperties DEF Headed
<1> QED BY <1>1, NotesAreSilent DEF Headed

(* A prefetch puts its note into the prefix, which stays plain.            *)
LEMMA PrefetchedStands ==
    ASSUME NEW s \in Seq(Message), Headed(s), Standing(s, {}), NEW b \in Nat, b >= 2,
           PlainPrefix(s, b)
    PROVE  LET t == Prefetched(s, b)
           IN  /\ t \in Seq(Message) /\ Headed(t) /\ Standing(t, {})
               /\ PlainPrefix(t, b + 1)
<1> DEFINE l == Len(s)
           p == IF b - 1 < l THEN b - 1 ELSE l
           m == Note("prefetch")
           t == Prefetched(s, b)
           u == UpToLen(s, p) \o <<m>> \o SubSeq(s, p + 1, l)
<1> SUFFICES t \in Seq(Message) /\ Headed(t) /\ Standing(t, {}) /\ PlainPrefix(t, b + 1)
    OBVIOUS
<1>1. l \in Nat /\ l # 0 /\ 1 \in 1..l /\ DOMAIN s = 1..l
    BY HeadedHolds
<1>2. p \in 1..l /\ p \in 0..l /\ p <= b
    BY <1>1
<1>3. t = u
    <2>1. UpToLen(s, b - 1) = UpToLen(s, p)
        BY <1>1 DEF UpToLen
    <2>2. SubSeq(s, b, l) = SubSeq(s, p + 1, l)
        <3>1. CASE b - 1 < l
            <4>1. p + 1 = b
                BY <3>1
            <4> QED BY <4>1
        <3>2. CASE ~(b - 1 < l)
            <4>1. p + 1 = l + 1 /\ l + 1 \in Int /\ l \in Int /\ b \in Int /\ l < b /\ l < l + 1
                BY <1>1, <3>2
            <4>2. SubSeq(s, b, l) = <<>> /\ SubSeq(s, l + 1, l) = <<>>
                BY ONLY <4>1, SubSeqEmpty
            <4> QED BY ONLY <4>1, <4>2
        <3> QED BY <3>1, <3>2
    <2> HIDE DEF p
    <2> QED BY <2>1, <2>2 DEF Prefetched
<1>4. m \in Message /\ Silent(m)
    BY NotesAreSilent, NotesAreMessages DEF Tags
<1> HIDE DEF p, m
<1>5. u \in Seq(Message) /\ IsInserted(s, p, m, u)
    <2> HIDE DEF Message
    <2> QED BY <1>2, <1>4, PutBehind
<1> HIDE DEF u, t
<1>6. Silent(s[p])
    BY <1>1, <1>2 DEF PlainPrefix
<1>7. Standing(t, {})
    BY <1>2, <1>3, <1>4, <1>5, <1>6, InsertedStands
<1>8. /\ Len(t) = l + 1 /\ t[p + 1] = m
      /\ \A k \in 1..p : t[k] = s[k]
      /\ \A k \in p + 1..l : t[k + 1] = s[k]
    BY <1>3, <1>5 DEF IsInserted
<1>9. Headed(t)
    <2>1. t[1] = System
        <3>1. 1 \in 1..p
            BY <1>2
        <3> QED BY <1>8, <3>1 DEF Headed
    <2>2. Len(t) # 0
        BY <1>1, <1>8
    <2>3. t # <<>>
        BY <2>2
    <2> QED BY <2>1, <2>3 DEF Headed
<1>10. ASSUME NEW k \in 1..b + 1, k \in DOMAIN t PROVE Silent(t[k])
    <2>1. k \in 1..l + 1
        <3> HIDE DEF Message
        <3>1. DOMAIN t = 1..Len(t)
            BY <1>3, <1>5, LenProperties
        <3> QED BY <1>8, <1>10, <3>1
    <2>2. CASE k <= p
        <3>1. k \in 1..p /\ k \in 1..b /\ k \in DOMAIN s
            BY <1>1, <1>2, <2>2
        <3> QED BY <1>8, <3>1 DEF PlainPrefix
    <2>3. CASE k = p + 1
        BY <1>4, <1>8, <2>3
    <2>4. CASE k > p + 1
        <3> DEFINE j == k - 1
        <3>1. j \in p + 1..l /\ j \in 1..b /\ j \in DOMAIN s /\ k = j + 1
            BY <1>1, <1>2, <2>1, <2>4
        <3> HIDE DEF j
        <3> QED BY <1>8, <3>1 DEF PlainPrefix
    <2> QED BY <1>2, <2>2, <2>3, <2>4
<1> QED BY <1>3, <1>5, <1>7, <1>9, <1>10 DEF PlainPrefix

(* The snip may cut a block, but leaves nothing of it that asks.           *)
LEMMA SnippedIsBeheaded ==
    ASSUME NEW s \in Seq(Message), Headed(s), Standing(s, {}), NEW b \in Nat, b >= 2,
           PlainPrefix(s, b)
    PROVE  LET t == Snipped(s, b)
           IN  t \in Seq(Message) /\ Headed(t) /\ Beheaded(t)
<1> DEFINE l == Len(s)
           f == l - SnipTail
           m == Note("snip")
           a == UpToLen(s, b)
           c == SubSeq(s, f + 1, l)
           t == a \o <<m>> \o c
<1>1. l \in Nat /\ l # 0 /\ 1 \in 1..l /\ DOMAIN s = 1..l /\ SnipTail \in Nat
    BY HeadedHolds, TurnAssumption
<1>2. PICK o : Follows(s, 0, o) /\ o[l] = {}
    BY DEF Standing
<1>3. CASE l <= SnipTrigger \/ l <= b + SnipTail
    <2>1. Snipped(s, b) = s
        BY <1>3 DEF Snipped
    <2>2. 0 \in 0..l
        BY <1>1
    <2> HIDE DEF l
    <2>3. Beheaded(s)
        BY <1>2, <2>2 DEF Beheaded, l
    <2> QED BY <2>1, <2>3
<1>4. CASE ~(l <= SnipTrigger \/ l <= b + SnipTail)
    <2>1. Snipped(s, b) = t
        BY <1>4 DEF Snipped
    <2>2. l > b + SnipTail
        BY <1>1, <1>4
    <2>3. /\ f \in Nat /\ b < f /\ f <= l /\ f + 1 \in 1..l + 1 /\ l \in (f + 1) - 1..l
          /\ 1 \in 1..l + 1 /\ b \in 1 - 1..l /\ b + 1 - 1 = b /\ l + 1 - (f + 1) = l - f
        BY <1>1, <2>2
    <2> HIDE DEF f
    <2>4. a = SubSeq(s, 1, b)
        <3>1. b < l
            BY <1>1, <2>3
        <3> QED BY <3>1 DEF UpToLen
    <2>5. a \in Seq(Message) /\ Len(a) = b /\ \A i \in 1..b : a[i] = s[1 + i - 1]
        BY <2>3, <2>4, PartHolds
    <2>6. /\ c \in Seq(Message) /\ Len(c) = l - f
          /\ \A i \in 1..l - f : c[i] = s[f + 1 + i - 1]
        BY <2>3, PartHolds
    <2>7. m \in Message /\ Silent(m)
        BY NotesAreSilent, NotesAreMessages DEF Tags
    <2> HIDE DEF a, c, m
    <2>8. /\ t \in Seq(Message) /\ Len(t) = Len(a) + 1 + Len(c) /\ t[Len(a) + 1] = m
          /\ \A k \in 1..Len(a) : t[k] = a[k]
          /\ \A i \in 1..Len(c) : t[Len(a) + 1 + i] = c[i]
        <3>1. a \in Seq(Message) /\ c \in Seq(Message) /\ m \in Message
            BY <2>5, <2>6, <2>7
        <3>2. LET r == a \o <<m>> \o c
              IN  /\ r \in Seq(Message) /\ Len(r) = Len(a) + 1 + Len(c) /\ r[Len(a) + 1] = m
                  /\ \A k \in 1..Len(a) : r[k] = a[k]
                  /\ \A i \in 1..Len(c) : r[Len(a) + 1 + i] = c[i]
            BY ONLY <3>1, ThreeParts
        <3> QED BY ONLY <3>2 DEF t
    <2> HIDE DEF t
    <2>9. /\ Len(t) = b + 1 + (l - f) /\ t[b + 1] = m
          /\ \A k \in 1..b : t[k] = s[k]
          /\ \A i \in 1..l - f : t[b + 1 + i] = s[f + i]
        <3>1. \A k \in 1..b : 1 + k - 1 = k
            OBVIOUS
        <3>2. \A i \in 1..l - f : f + 1 + i - 1 = f + i
            BY <1>1, <2>3
        <3> QED BY <2>5, <2>6, <2>8, <3>1, <3>2
    <2> DEFINE K == {k \in f..l : o[k] = {}}
    <2>10. Min(K) \in K /\ \A k \in K : Min(K) <= k
        <3>1. K \in SUBSET Nat /\ l \in K
            BY <1>1, <1>2, <2>3
        <3>2. K # {}
            BY <3>1
        <3> HIDE DEF K
        <3> QED BY <3>1, <3>2, MinIsMember
    <2> DEFINE q == Min(K)
    <2>11. q \in f..l /\ o[q] = {} /\ \A k \in f..q - 1 : o[k] # {}
        <3>1. q \in f..l /\ o[q] = {}
            BY <2>10
        <3>2. ASSUME NEW k \in f..q - 1 PROVE o[k] # {}
            <4>1. k \in f..l /\ ~(q <= k)
                BY <1>1, <2>3, <3>1
            <4> QED BY <2>10, <4>1
        <3> QED BY <3>1, <3>2
    <2> HIDE DEF q
    <2> DEFINE N == b + 1 + (q - f)
               u == [k \in 0..Len(t) |-> o[k + f - (b + 1)]]
    <2>12. /\ N \in 0..Len(t) /\ q - f \in 0..l - f
           /\ \A i \in 0..l - f : b + 1 + i \in 0..Len(t) /\ (b + 1 + i) + f - (b + 1) = f + i
        BY <1>1, <2>3, <2>9, <2>11
    <2>13. \A i \in 0..l - f : u[b + 1 + i] = o[f + i]
        BY <2>12
    <2> HIDE DEF u
    <2>14. u[N] = {} /\ u[Len(t)] = {}
        <3>1. f + (q - f) = q /\ f + (l - f) = l /\ l - f \in 0..l - f
            BY <1>1, <2>3, <2>11
        <3> QED BY <1>2, <2>9, <2>11, <2>12, <2>13, <3>1
    <2>15. ASSUME NEW k \in N + 1..Len(t) PROVE Awaits(u[k - 1], t[k], u[k])
        <3> DEFINE i == k - (b + 1)
        <3>1. /\ i \in 1..l - f /\ i \in 0..l - f /\ i - 1 \in 0..l - f
              /\ k = b + 1 + i /\ k - 1 = b + 1 + (i - 1)
              /\ f + i \in 0 + 1..l /\ f + (i - 1) = (f + i) - 1
            BY <1>1, <2>3, <2>9, <2>11
        <3> HIDE DEF i
        <3>2. Awaits(o[(f + i) - 1], s[f + i], o[f + i])
            BY <1>2, <3>1 DEF Follows
        <3>3. u[k - 1] = o[(f + i) - 1] /\ t[k] = s[f + i] /\ u[k] = o[f + i]
            BY <2>9, <2>13, <3>1
        <3> QED BY <3>2, <3>3
    <2>16. ASSUME NEW k \in 1..N PROVE t[k].calls = <<>>
        <3>1. CASE k <= b
            <4>1. k \in 1..b /\ k \in DOMAIN s
                BY <1>1, <2>3, <3>1
            <4> QED BY <2>9, <4>1 DEF PlainPrefix, Silent
        <3>2. CASE k = b + 1
            BY <2>7, <2>9, <3>2 DEF Silent
        <3>3. CASE k > b + 1
            <4> DEFINE i == k - (b + 1)
            <4>1. /\ i \in 1..l - f /\ k = b + 1 + i /\ f + i \in 0 + 1..l /\ f + i \in 1..l
                  /\ (f + i) - 1 \in f..q - 1
                BY <1>1, <2>3, <2>11, <3>3
            <4> HIDE DEF i, N
            <4>2. t[k] = s[f + i] /\ o[(f + i) - 1] # {}
                BY <2>9, <2>11, <4>1
            <4>3. Awaits(o[(f + i) - 1], s[f + i], o[f + i])
                BY <1>2, <4>1 DEF Follows
            <4>4. s[f + i].role = "tool" /\ s[f + i] \in Message
                <5> HIDE DEF Message
                <5> QED BY <4>1, <4>2, <4>3, ElementOfSeq DEF Awaits
            <4> QED BY <4>2, <4>4 DEF Message
        <3> QED BY <2>3, <2>12, <3>1, <3>2, <3>3
    <2>17. Follows(t, N, u)
        <3> HIDE DEF N
        <3> QED BY <2>14, <2>15, <2>16 DEF Follows
    <2>18. Headed(t)
        <3>1. 1 \in 1..b /\ Len(t) # 0
            BY <2>3, <2>9, <1>1
        <3>2. t # <<>>
            BY <3>1
        <3> QED BY <2>9, <3>1, <3>2 DEF Headed
    <2> HIDE DEF N
    <2>19. Beheaded(t)
        BY <2>12, <2>14, <2>17 DEF Beheaded
    <2> QED BY <2>1, <2>8, <2>18, <2>19
<1> QED BY <1>3, <1>4

-----------------------------------------------------------------------------
(* The memory goes behind the prompt, or is there.                         *)
LEMMA RemindedIsBeheaded ==
    ASSUME NEW s \in Seq(Message), Headed(s), Beheaded(s), NEW mem
    PROVE  LET t == Reminded(s, mem)
           IN  t \in Seq(Message) /\ Headed(t) /\ Beheaded(t)
<1> DEFINE l == Len(s)
           t == Reminded(s, mem)
           w == <<s[1], Memory>>
           f == IF l > 1 /\ s[2] = Memory THEN 3 ELSE 2
           c == SubSeq(s, f, l)
           r == w \o c
<1>1. l \in Nat /\ l # 0 /\ 1 \in 1..l /\ Silent(s[1])
    BY HeadedHolds
<1>2. CASE ~mem
    BY <1>2 DEF Reminded
<1>3. CASE mem
    <2>1. t = r
        BY <1>3 DEF Reminded
    <2>2. w \in Seq(Message) /\ Len(w) = 2 /\ w[1] = s[1] /\ w[2] = Memory
        <3>1. s[1] \in Message /\ Memory \in Message
            BY <1>1, ElementOfSeq, NotesAreMessages
        <3> HIDE DEF Message
        <3> QED BY <3>1
    <2>3. f \in 1..l + 1 /\ l \in f - 1..l /\ l + 1 - f \in Nat
        BY <1>1
    <2>4. c \in Seq(Message) /\ Len(c) = l + 1 - f /\ \A i \in 1..l + 1 - f : c[i] = s[f + i - 1]
        <3> HIDE DEF f
        <3> QED BY <2>3, PartHolds
    <2>5. /\ r \in Seq(Message) /\ Len(r) = Len(w) + Len(c)
          /\ \A i \in 1..Len(w) + Len(c) : r[i] = IF i <= Len(w) THEN w[i] ELSE c[i - Len(w)]
        <3> HIDE DEF w, c
        <3> QED BY <2>2, <2>4, ConcatProperties
    <2> HIDE DEF r, w, c, t
    <2>6. /\ Len(r) = l + 3 - f /\ r[1] = s[1] /\ r[2] = Memory
          /\ \A k \in 3..l + 3 - f : r[k] = s[k + f - 3]
        <3>1. Len(r) = l + 3 - f /\ 1 \in 1..l + 3 - f /\ 2 \in 1..l + 3 - f
            BY <1>1, <2>2, <2>3, <2>4, <2>5
        <3>2. r[1] = s[1] /\ r[2] = Memory
            BY <2>2, <2>5, <3>1
        <3>3. ASSUME NEW k \in 3..l + 3 - f PROVE r[k] = s[k + f - 3]
            <4>1. k \in 1..l + 3 - f /\ ~(k <= 2) /\ k - 2 \in 1..l + 1 - f
                  /\ f + (k - 2) - 1 = k + f - 3
                BY <1>1, <2>3
            <4> HIDE DEF f
            <4>2. r[k] = c[k - 2]
                BY <2>2, <2>5, <3>1, <4>1
            <4> QED BY <2>4, <4>1, <4>2
        <3> QED BY <3>1, <3>2, <3>3
    <2>7. Headed(r)
        <3>1. Len(r) # 0
            BY <1>1, <2>3, <2>6
        <3>2. r # <<>>
            BY <3>1
        <3> QED BY <2>6, <3>2 DEF Headed
    <2>8. Beheaded(r)
        <3>1. CASE l > 1 /\ s[2] = Memory
            <4>1. f = 3
                BY <3>1
            <4> HIDE DEF f
            <4>2. Len(r) = l /\ \A k \in 3..l : r[k] = s[k]
                <5>1. l + 3 - f = l /\ \A k \in 3..l : k + f - 3 = k
                    BY <1>1, <4>1
                <5> QED BY <2>6, <5>1
            <4>3. \A k \in 1..l : r[k] = s[k]
                <5>1. \A k \in 1..l : k = 1 \/ k = 2 \/ k \in 3..l
                    BY <1>1
                <5> QED BY <2>6, <3>1, <4>2, <5>1
            <4>4. r = s
                <5> HIDE DEF Message
                <5> QED BY <2>5, <4>2, <4>3, SeqEqual
            <4> QED BY <4>4
        <3>2. CASE ~(l > 1 /\ s[2] = Memory)
            <4>1. f = 2
                BY <3>2
            <4> HIDE DEF f
            <4>2. IsInserted(s, 1, Memory, r)
                <5>1. l + 3 - f = l + 1 /\ 1 + 1 = 2
                    BY <1>1, <4>1
                <5>2. ASSUME NEW k \in 1 + 1..l PROVE r[k + 1] = s[k]
                    <6>1. k + 1 \in 3..l + 3 - f /\ (k + 1) + f - 3 = k
                        BY <1>1, <4>1
                    <6> QED BY <2>6, <6>1
                <5>3. \A k \in 1..1 : r[k] = s[k]
                    BY <2>6
                <5> QED BY <2>6, <5>1, <5>2, <5>3 DEF IsInserted
            <4> QED BY <1>1, <4>2, InsertedStands, NotesAreSilent
        <3> QED BY <3>1, <3>2
    <2> QED BY <2>1, <2>5, <2>7, <2>8 DEF t
<1> HIDE DEF t
<1>4. t \in Seq(Message) /\ Headed(t) /\ Beheaded(t)
    BY <1>2, <1>3 DEF t
<1> QED BY <1>4 DEF t

-----------------------------------------------------------------------------
(* What lets messages through one by one, and holds back only silent ones  *)
(* and repetitions, lets blocks through as they are.                       *)
Lets(s, g) ==
    /\ g[0] = <<>>
    /\ \A k \in 1..Len(s) :
          \/ g[k] = Append(g[k - 1], s[k])
          \/ g[k] = g[k - 1] /\ (Silent(s[k]) \/ (k > 1 /\ s[k] = s[k - 1]))

(* Behind its n-th message a history repeats only silent ones.             *)
LEMMA RepeatedIsSilent ==
    ASSUME NEW s \in Seq(Message), NEW n \in Nat, NEW o, Follows(s, n, o),
           NEW k \in n + 1..Len(s), k > 1, s[k] = s[k - 1]
    PROVE  Silent(s[k])
<1>1. Awaits(o[k - 1], s[k], o[k])
    BY DEF Follows
<1>2. CASE k - 1 = n
    <2>1. o[k - 1] = {} /\ k - 1 \in 1..n
        BY <1>2 DEF Follows
    <2>2. s[k - 1].calls = <<>>
        BY <2>1 DEF Follows
    <2> QED BY <1>1, <2>1, <2>2 DEF Awaits, Silent
<1>3. CASE k - 1 # n
    <2>1. k - 1 \in n + 1..Len(s) /\ k - 1 \in 1..Len(s)
        <3>1. Len(s) \in Nat
            <4> HIDE DEF Message
            <4> QED BY LenProperties
        <3> QED BY <1>3, <3>1
    <2>2. Awaits(o[k - 1 - 1], s[k - 1], o[k - 1])
        BY <2>1 DEF Follows
    <2>3. s[k].role # "tool" /\ ToSet(s[k].calls) = {}
        BY <1>1, <2>2 DEF Awaits
    <2>4. s[k - 1] \in Message
        <3> HIDE DEF Message
        <3> QED BY <2>1, ElementOfSeq
    <2>5. s[k].calls \in Seq(Ids)
        BY <2>4 DEF Message
    <2>6. s[k].calls = <<>>
        <3> DEFINE q == s[k].calls
        <3> SUFFICES ASSUME q # <<>> PROVE FALSE
            OBVIOUS
        <3>1. q \in Seq(Ids)
            BY <2>5
        <3> HIDE DEF q, Ids
        <3>2. Len(q) \in Nat \ {0} /\ DOMAIN q = 1..Len(q)
            BY <3>1, EmptySeq, LenProperties
        <3>3. q[1] \in ToSet(q)
            BY <3>2 DEF ToSet
        <3> QED BY <2>3, <3>3 DEF q
    <2> QED BY <2>3, <2>6 DEF Silent
<1> QED BY <1>2, <1>3

LEMMA LetsBeheaded ==
    ASSUME NEW s \in Seq(Message), Beheaded(s), NEW g, Lets(s, g)
    PROVE  g[Len(s)] \in Seq(Message) /\ Beheaded(g[Len(s)])
<1> DEFINE l == Len(s)
           Whole(t, e) == \E N \in 0..Len(t) : \E q : Follows(t, N, q) /\ q[Len(t)] = e
           Mute(t) == \A j \in 1..Len(t) : t[j].calls = <<>>
<1>1. PICK n \in 0..l : \E o : Follows(s, n, o) /\ o[l] = {}
    BY DEF Beheaded
<1>2. PICK o : Follows(s, n, o) /\ o[l] = {}
    BY <1>1
<1>3. l \in Nat /\ \A k \in 1..l : s[k] \in Message
    <2> HIDE DEF Message
    <2> QED BY ElementOfSeq, LenProperties
<1> DEFINE P == {k \in 0..l : /\ g[k] \in Seq(Message)
                              /\ k <= n => Mute(g[k])
                              /\ k >= n => Whole(g[k], o[k])}
<1>4. ASSUME NEW t \in Seq(Message), Mute(t) PROVE Whole(t, {})
    <2> DEFINE e == Len(t)
               q == [k \in {e} |-> {}]
    <2>1. e \in Nat
        <3> HIDE DEF Message
        <3> QED BY LenProperties
    <2>2. q[e] = {} /\ e \in 0..e /\ e + 1..e = {}
        BY <2>1
    <2> HIDE DEF q
    <2>3. Follows(t, e, q)
        <3> HIDE DEF e
        <3> QED BY <1>4, <2>2 DEF Follows, e
    <2> QED BY <2>2, <2>3
<1>5. ASSUME NEW t \in Seq(Message), NEW m \in Message
      PROVE  /\ Append(t, m) \in Seq(Message)
             /\ Mute(t) /\ m.calls = <<>> => Mute(Append(t, m))
             /\ \A e, f : Whole(t, e) /\ Awaits(e, m, f) => Whole(Append(t, m), f)
    <2> DEFINE r == Append(t, m)
    <2> HIDE DEF Message
    <2>1. /\ r \in Seq(Message) /\ Len(t) \in Nat /\ Len(r) = Len(t) + 1
          /\ r[Len(t) + 1] = m /\ \A j \in 1..Len(t) : r[j] = t[j]
        BY AppendProperties, LenProperties
    <2> HIDE DEF r
    <2>2. Mute(t) /\ m.calls = <<>> => Mute(r)
        <3>1. \A j \in 1..Len(r) : j = Len(t) + 1 \/ j \in 1..Len(t)
            BY <2>1
        <3> QED BY <2>1, <3>1
    <2>3. ASSUME NEW e, NEW f, Whole(t, e), Awaits(e, m, f) PROVE Whole(r, f)
        <3>1. PICK N \in 0..Len(t) : \E q : Follows(t, N, q) /\ q[Len(t)] = e
            BY <2>3
        <3>2. PICK q : Follows(t, N, q) /\ q[Len(t)] = e
            BY <3>1
        <3>3. \E p : Follows(r, N, p) /\ p[Len(r)] = f
            BY <2>3, <3>2, FollowsGrows DEF r
        <3>4. N \in 0..Len(r)
            BY <2>1
        <3> QED BY <3>3, <3>4
    <2> HIDE DEF Mute, Whole
    <2>4. /\ r \in Seq(Message)
          /\ Mute(t) /\ m.calls = <<>> => Mute(r)
          /\ \A e, f : Whole(t, e) /\ Awaits(e, m, f) => Whole(r, f)
        BY <2>1, <2>2, <2>3
    <2> QED BY <2>4 DEF r
<1>6. 0 \in P
    <2>1. 0 \in 0..l /\ g[0] = <<>> /\ Len(<<>>) = 0 /\ <<>> \in Seq(Message)
        <3> HIDE DEF Message
        <3> QED BY <1>3 DEF Lets
    <2>2. Mute(<<>>)
        BY <2>1
    <2>3. Whole(<<>>, {})
        <3> HIDE DEF Message, Mute, Whole
        <3> QED BY <1>4, <2>1, <2>2
    <2>4. 0 >= n => o[0] = {}
        BY <1>2 DEF Follows
    <2> HIDE DEF Message, Mute, Whole
    <2> QED BY <2>1, <2>2, <2>3, <2>4
<1>7. ASSUME NEW k \in 1..l, k - 1 \in P PROVE k \in P
    <2> DEFINE t == g[k - 1]
               m == s[k]
    <2> HIDE DEF Mute, Whole
    <2>1. /\ t \in Seq(Message) /\ m \in Message /\ k \in 0..l
          /\ k - 1 <= n => Mute(t)
          /\ k - 1 >= n => Whole(t, o[k - 1])
        BY <1>3, <1>7
    <2>2. \/ g[k] = Append(t, m)
          \/ g[k] = t /\ (Silent(m) \/ (k > 1 /\ m = s[k - 1]))
        BY DEF Lets
    <2> HIDE DEF Message
    <2>3. g[k] \in Seq(Message)
        BY <1>5, <2>1, <2>2
    <2>4. ASSUME k <= n PROVE Mute(g[k])
        <3>1. k \in 1..n /\ k - 1 <= n
            BY <1>3, <2>4
        <3>2. m.calls = <<>>
            BY <1>2, <3>1 DEF Follows
        <3> QED BY <1>5, <2>1, <2>2, <3>1, <3>2
    <2>5. ASSUME k >= n PROVE Whole(g[k], o[k])
        <3>1. CASE k = n
            <4>1. Mute(g[k]) /\ o[k] = {}
                BY <1>2, <2>4, <3>1 DEF Follows
            <4> QED BY <1>4, <2>3, <4>1
        <3>2. CASE k # n
            <4>1. k \in n + 1..l /\ k - 1 >= n /\ n \in Nat
                BY <1>3, <2>5, <3>2
            <4>2. Awaits(o[k - 1], m, o[k])
                BY <1>2, <4>1 DEF Follows
            <4>3. CASE g[k] = Append(t, m)
                BY <1>5, <2>1, <4>1, <4>2, <4>3
            <4>4. CASE g[k] # Append(t, m)
                <5>1. Silent(m)
                    BY <1>2, <2>2, <4>1, <4>4, RepeatedIsSilent
                <5>2. o[k - 1] = o[k]
                    BY <1>2, <4>1, <5>1, SilentClears
                <5> QED BY <2>1, <2>2, <4>1, <4>4, <5>2
            <4> QED BY <4>3, <4>4
        <3> QED BY <3>1, <3>2
    <2> HIDE DEF t, m
    <2> QED BY <2>1, <2>3, <2>4, <2>5
<1>8. 0..l \subseteq P
    <2> HIDE DEF P, l
    <2> QED BY <1>3, <1>6, <1>7, UpTo
<1>9. g[l] \in Seq(Message) /\ Whole(g[l], {})
    <2>1. l \in 0..l /\ l >= n
        BY <1>3
    <2> HIDE DEF Whole, Mute, l, Message
    <2> QED BY <1>2, <1>8, <2>1
<1> QED BY <1>9 DEF Beheaded

(* And the prompt stays in front.                                          *)
LEMMA LetsHeaded ==
    ASSUME NEW s \in Seq(Message), Headed(s), NEW g, Lets(s, g), g[1] = Append(g[0], s[1])
    PROVE  Headed(g[Len(s)])
<1> DEFINE l == Len(s)
           X == {t \in Seq(Message) : Headed(t)}
           h == [k \in 0..l |-> IF k = 0 THEN g[1] ELSE g[k]]
<1>1. l \in Nat /\ l # 0 /\ 1 \in 1..l /\ s[1] = System /\ \A k \in 1..l : s[k] \in Message
    <2> HIDE DEF Message
    <2> QED BY HeadedHolds, ElementOfSeq DEF Headed
<1> HIDE DEF Message
<1>2. g[1] \in X
    <2> DEFINE e == <<>>
               t == Append(e, System)
    <2>1. e \in Seq(Message) /\ System \in Message /\ Len(e) = 0
        BY NotesAreMessages
    <2> HIDE DEF e
    <2>2. t \in Seq(Message) /\ t # <<>> /\ t[Len(e) + 1] = System
        BY <2>1, AppendProperties
    <2>3. 0 + 1 = 1
        OBVIOUS
    <2>4. g[1] = t
        BY <1>1 DEF Lets, e
    <2> HIDE DEF t
    <2> QED BY <2>1, <2>2, <2>3, <2>4 DEF Headed
<1>3. ASSUME NEW t \in X, NEW m \in Message PROVE Append(t, m) \in X
    <2>1. 1 \in 1..Len(t)
        BY HeadedHolds
    <2>2. Append(t, m) \in Seq(Message) /\ Append(t, m) # <<>> /\ Append(t, m)[1] = t[1]
        BY <2>1, AppendProperties
    <2> QED BY <2>2 DEF Headed
<1>4. ASSUME NEW k \in 1..l, h[k - 1] \in X PROVE h[k] \in X
    <2>1. h[k] = g[k]
        BY <1>1
    <2>2. CASE k = 1
        BY <1>2, <2>1, <2>2
    <2>3. CASE k # 1
        <3>1. h[k - 1] = g[k - 1]
            BY <1>1, <2>3
        <3>2. g[k] = Append(g[k - 1], s[k]) \/ g[k] = g[k - 1]
            BY DEF Lets
        <3>3. s[k] \in Message
            BY <1>1
        <3> HIDE DEF X, h
        <3> QED BY <1>3, <1>4, <2>1, <3>1, <3>2, <3>3
    <2> QED BY <2>2, <2>3
<1>5. h[0] \in X
    <2>1. h[0] = g[1]
        BY <1>1
    <2> HIDE DEF X, h
    <2> QED BY <1>2, <2>1
<1>6. \A k \in 0..l : h[k] \in X
    <2> HIDE DEF X, h, l
    <2> QED BY <1>1, <1>4, <1>5, FoldStays
<1>7. h[l] = g[l] /\ l \in 0..l
    BY <1>1
<1>8. g[l] \in X
    <2> HIDE DEF X, h, l
    <2> QED BY <1>6, <1>7
<1> QED BY <1>8

-----------------------------------------------------------------------------
(* The dedupe.                                                             *)
LEMMA DedupedIsBeheaded ==
    ASSUME NEW s \in Seq(Message), Headed(s), Beheaded(s)
    PROVE  LET t == Deduped(s) IN t \in Seq(Message) /\ Headed(t) /\ Beheaded(t)
<1>1. PICK g : /\ g[0] = <<>> /\ Deduped(s) = g[Len(s)]
               /\ \A k \in 1..Len(s) :
                     g[k] = IF k > 1 /\ s[k] = s[k - 1] THEN g[k - 1]
                            ELSE Append(g[k - 1], s[k])
    <2> HIDE DEF Message
    <2> QED BY DedupedFold
<1>2. Lets(s, g)
    BY <1>1 DEF Lets
<1>3. 1 \in 1..Len(s)
    BY HeadedHolds
<1>4. g[1] = Append(g[0], s[1])
    <2>1. ~(1 > 1) /\ 1 - 1 = 0
        OBVIOUS
    <2> HIDE DEF Message
    <2> QED BY <1>1, <1>3, <2>1
<1> QED BY <1>1, <1>2, <1>4, LetsBeheaded, LetsHeaded

(* What is kept of a history, message by message.                          *)
Keeps(s, S, g) ==
    /\ g[0] = <<>> /\ Kept(s, S) = g[Len(s)]
    /\ \A k \in 1..Len(s) : g[k] = IF s[k] \in S THEN Append(g[k - 1], s[k]) ELSE g[k - 1]

(* Keeping the messages of a set is reading them one after the other.     *)
LEMMA MessagesKept ==
    ASSUME NEW s \in Seq(Message), NEW S
    PROVE  \E g \in [0..Len(s) -> Seq(Message)] : Keeps(s, S, g)
<1>1. \E g \in [0..Len(s) -> Seq(Message)] :
            /\ g[0] = <<>> /\ Kept(s, S) = g[Len(s)]
            /\ \A k \in 1..Len(s) :
                  g[k] = IF s[k] \in S THEN Append(g[k - 1], s[k]) ELSE g[k - 1]
    <2> HIDE DEF Message
    <2> QED BY KeptFold
<1> QED BY <1>1 DEF Keeps

(* The artifact, which is silent, is taken out and put behind the leading  *)
(* system messages, which are silent too.                                  *)
LEMMA RearmedIsBeheaded ==
    ASSUME NEW s \in Seq(Message), Headed(s), Beheaded(s)
    PROVE  LET t == Rearmed(s) IN t \in Seq(Message) /\ Headed(t) /\ Beheaded(t)
<1> DEFINE S    == ToSet(s) \ {Artifact}
           bare == Kept(s, S)
           l    == Len(bare)
           K    == {k \in 1..l + 1 : k >= l \/ bare[k + 1].role # "system"}
           p    == Min(K)
           t    == Rearmed(s)
<1> SUFFICES t \in Seq(Message) /\ Headed(t) /\ Beheaded(t)
    OBVIOUS
<1>0. PICK g \in [0..Len(s) -> Seq(Message)] : Keeps(s, S, g)
    <2> HIDE DEF Message, S
    <2> QED BY MessagesKept
<1>1. /\ g[0] = <<>> /\ bare = g[Len(s)]
      /\ \A k \in 1..Len(s) :
            g[k] = IF s[k] \in S THEN Append(g[k - 1], s[k]) ELSE g[k - 1]
    BY <1>0 DEF Keeps
<1>2. DOMAIN s = 1..Len(s) /\ 1 \in 1..Len(s) /\ s[1] = System
    BY HeadedHolds DEF Headed
<1>3. \A k \in 1..Len(s) : s[k] \notin S => Silent(s[k])
    <2> TAKE k \in 1..Len(s)
    <2>1. s[k] \in ToSet(s)
        BY <1>2 DEF ToSet
    <2> QED BY <2>1, NotesAreSilent
<1>4. s[1] \in S
    <2>1. s[1] \in ToSet(s)
        BY <1>2 DEF ToSet
    <2>2. System # Artifact
        BY DEF System, Artifact, Plain
    <2> QED BY <1>2, <2>1, <2>2
<1> HIDE DEF S
<1>5. Lets(s, g) /\ g[1] = Append(g[0], s[1])
    <2>1. g[1] = Append(g[1 - 1], s[1])
        BY <1>1, <1>2, <1>4
    <2>2. Lets(s, g)
        BY <1>1, <1>3 DEF Lets
    <2> QED BY <2>1, <2>2
<1>6. bare \in Seq(Message) /\ Headed(bare) /\ Beheaded(bare)
    BY <1>1, <1>5, LetsBeheaded, LetsHeaded
<1>7. t = UpToLen(bare, p) \o <<Artifact>> \o SubSeq(bare, p + 1, l)
    BY DEF Rearmed, S
<1> HIDE DEF bare
<1>8. l \in Nat /\ l # 0 /\ 1 \in 1..l /\ DOMAIN bare = 1..l /\ Silent(bare[1])
    BY <1>6, HeadedHolds
<1>9. p \in K /\ \A k \in K : p <= k
    <2>1. K \in SUBSET Nat /\ l \in K
        BY <1>8
    <2>2. K # {}
        BY <2>1
    <2> HIDE DEF K
    <2> QED BY <2>1, <2>2, MinIsMember
<1>10. p \in 1..l /\ p \in 0..l
    <2>1. l \in K
        BY <1>8
    <2>2. p <= l /\ p \in 1..l + 1
        BY <1>9, <2>1
    <2> HIDE DEF p, K
    <2> QED BY <1>8, <2>2
<1>11. Silent(bare[p])
    <2>1. CASE p = 1
        BY <1>8, <2>1
    <2>2. CASE p # 1
        <3> DEFINE k == p - 1
        <3>1. k \in 1..l + 1 /\ k + 1 = p /\ ~(k >= l) /\ ~(p <= k)
            <4> HIDE DEF p
            <4> QED BY <1>8, <1>10, <2>2
        <3>2. k \notin K
            BY <1>9, <3>1
        <3>3. bare[p].role = "system"
            <4> HIDE DEF p, k
            <4> QED BY <3>1, <3>2
        <3> HIDE DEF p, k, K
        <3>4. bare[p] \in Message
            <4> HIDE DEF Message
            <4> QED BY <1>6, <1>10, ElementOfSeq
        <3> QED BY <3>3, <3>4 DEF Message, Silent
    <2> QED BY <2>1, <2>2
<1> HIDE DEF p
<1> DEFINE u == UpToLen(bare, p) \o <<Artifact>> \o SubSeq(bare, p + 1, l)
<1>12. u \in Seq(Message) /\ IsInserted(bare, p, Artifact, u)
    <2>1. Artifact \in Message
        BY NotesAreMessages
    <2> HIDE DEF Message
    <2> QED BY <1>6, <1>10, <2>1, PutBehind
<1>13. t = u
    BY <1>7
<1> HIDE DEF u, t
<1>14. Beheaded(u)
    BY <1>6, <1>10, <1>11, <1>12, InsertedStands, NotesAreSilent
<1>15. Headed(u)
    <2>1. u[1] = bare[1] /\ Len(u) # 0
        <3>1. 1 \in 1..p
            BY <1>10
        <3> QED BY <1>8, <1>12, <3>1 DEF IsInserted
    <2>2. u # <<>>
        BY <2>1
    <2> QED BY <1>6, <2>1, <2>2 DEF Headed
<1> QED BY <1>12, <1>13, <1>14, <1>15

-----------------------------------------------------------------------------
(* An answer that became text is silent.                                   *)
LEMMA TextIsSilent ==
    ASSUME NEW of \in Ids PROVE Text(of) \in Message /\ Silent(Text(of))
<1> DEFINE p == Plain("assistant", "downgraded", 0)
<1>1. p \in Message /\ p.role = "assistant" /\ p.calls = <<>>
    <2>1. p \in Own
        BY PlainIsOwn DEF Roles, Tags
    <2> QED BY <2>1 DEF Own, Plain
<1>2. Text(of) = [p EXCEPT !.of = of]
    BY DEF Text
<1>3. Text(of) \in Own
    BY TextIsOwn
<1>4. Text(of).role = "assistant" /\ Text(of).calls = <<>>
    <2> HIDE DEF p
    <2>1. p \in [role : Roles, tag : Tags, n : Nat, calls : Seq(Ids), id : Ids, of : Ids]
        BY <1>1 DEF Message
    <2> QED BY <1>1, <1>2, <2>1
<1> QED BY <1>3, <1>4 DEF Own, Silent

(* Answers whose calls are cut off become text, and no others.             *)
LEMMA DowngradedStands ==
    ASSUME NEW s \in Seq(Message), Headed(s), Beheaded(s)
    PROVE  LET t == Downgraded(s) IN t \in Seq(Message) /\ Headed(t) /\ Standing(t, {})
<1> DEFINE l == Len(s)
           t == Downgraded(s)
           Lost(k) == /\ s[k].role = "tool"
                      /\ \A j \in 1..(k - 1) : ~Contains(s[j].calls, s[k].id)
<1> SUFFICES t \in Seq(Message) /\ Headed(t) /\ Standing(t, {})
    OBVIOUS
<1>1. /\ l \in Nat /\ l # 0 /\ 1 \in 1..l /\ DOMAIN s = 1..l /\ s[1] = System
      /\ \A k \in 1..l : s[k] \in Message
    <2>1. \A k \in 1..l : s[k] \in Message
        <3> HIDE DEF Message
        <3> QED BY ElementOfSeq
    <2> QED BY <2>1, HeadedHolds DEF Headed
<1>2. \A k \in 1..l : t[k] = IF Lost(k) THEN Text(s[k].of) ELSE s[k]
    BY <1>1 DEF Downgraded
<1>3. t \in Seq(Message) /\ Len(t) = l
    <2>1. t = [k \in 1..l |-> IF Lost(k) THEN Text(s[k].of) ELSE s[k]]
        BY <1>1 DEF Downgraded
    <2>2. \A k \in 1..l : (IF Lost(k) THEN Text(s[k].of) ELSE s[k]) \in Message
        <3> TAKE k \in 1..l
        <3>1. s[k].of \in Ids
            BY <1>1 DEF Message
        <3> HIDE DEF Message, Ids
        <3> QED BY <1>1, <3>1, TextIsSilent
    <2> HIDE DEF Message, Lost, t, l
    <2> QED BY <1>1, <2>1, <2>2
<1>4. PICK n \in 0..l : \E o : Follows(s, n, o) /\ o[l] = {}
    BY DEF Beheaded
<1>5. PICK o : Follows(s, n, o) /\ o[l] = {}
    BY <1>4
<1>6. ASSUME NEW q, NEW x PROVE Contains(q, x) <=> x \in ToSet(q)
    BY DEF Contains, ToSet
<1>7. ASSUME NEW k \in 1..n PROVE Silent(t[k])
    <2>1. k \in 1..l /\ \A j \in 1..k - 1 : j \in 1..n
        BY <1>1
    <2>2. s[k].calls = <<>> /\ \A j \in 1..k - 1 : s[j].calls = <<>>
        BY <1>5, <2>1 DEF Follows
    <2>3. ASSUME s[k].role = "tool" PROVE Lost(k)
        <3>1. ToSet(<<>>) = {}
            BY DEF ToSet
        <3>2. \A j \in 1..k - 1 : ~Contains(s[j].calls, s[k].id)
            BY <1>6, <2>2, <3>1
        <3> QED BY <2>3, <3>2
    <2>4. s[k].of \in Ids
        BY <1>1, <2>1 DEF Message
    <2> HIDE DEF t, Lost
    <2> QED BY <1>2, <2>1, <2>2, <2>3, <2>4, TextIsSilent DEF Silent
<1>8. ASSUME NEW k \in n + 1..l PROVE t[k] = s[k]
    <2>1. k \in 1..l /\ k - 1 \in n..l
        BY <1>1
    <2>2. ASSUME s[k].role = "tool" PROVE ~Lost(k)
        <3>1. s[k].id \in o[k - 1]
            BY <1>5, <2>2 DEF Follows, Awaits
        <3>2. PICK b \in n + 1..k - 1 : s[k].id \in ToSet(s[b].calls)
            <4> HIDE DEF Message
            <4> QED BY <1>4, <1>5, <2>1, <3>1, WaitingWasAsked
        <3>3. b \in 1..(k - 1) /\ Contains(s[b].calls, s[k].id)
            BY <1>1, <1>6, <3>2
        <3> QED BY <3>3
    <2> HIDE DEF t
    <2> QED BY <1>2, <2>1, <2>2
<1> HIDE DEF t
<1> DEFINE u == [k \in 0..l |-> IF k <= n THEN {} ELSE o[k]]
<1>9. (\A k \in 0..n : u[k] = {}) /\ \A k \in n..l : u[k] = o[k]
    <2>1. \A k \in 0..n : k \in 0..l
        BY <1>1
    <2>2. \A k \in n..l : k \in 0..l /\ (k = n \/ ~(k <= n))
        BY <1>1
    <2>3. o[n] = {}
        BY <1>5 DEF Follows
    <2> QED BY <2>1, <2>2, <2>3
<1> HIDE DEF u
<1>10. ASSUME NEW k \in 0 + 1..l PROVE Awaits(u[k - 1], t[k], u[k])
    <2>1. CASE k <= n
        <3>1. k \in 1..n /\ k \in 0..n /\ k - 1 \in 0..n
            BY <1>1, <2>1
        <3> QED BY <1>7, <1>9, <3>1, SilentAwaits
    <2>2. CASE ~(k <= n)
        <3>1. k \in n + 1..l /\ k \in n..l /\ k - 1 \in n..l
            BY <1>1, <2>2
        <3>2. Awaits(o[k - 1], s[k], o[k])
            BY <1>5, <3>1 DEF Follows
        <3> QED BY <1>8, <1>9, <3>1, <3>2
    <2> QED BY <2>1, <2>2
<1>11. u[0] = {} /\ u[l] = {} /\ 1..0 = {}
    <2>1. 0 \in 0..n /\ l \in n..l
        BY <1>1
    <2> QED BY <1>5, <1>9, <2>1
<1>12. Standing(t, {})
    <2>1. Follows(t, 0, u)
        <3> HIDE DEF l
        <3> QED BY <1>3, <1>10, <1>11 DEF Follows
    <2> QED BY <1>3, <1>11, <2>1 DEF Standing
<1>13. Headed(t)
    <2>1. ~Lost(1)
        BY <1>1 DEF System, Plain
    <2>2. t[1] = System /\ Len(t) # 0
        BY <1>1, <1>2, <1>3, <2>1
    <2>3. t # <<>>
        BY <2>2
    <2> QED BY <2>2, <2>3 DEF Headed
<1> QED BY <1>3, <1>12, <1>13

(* The whole pipeline.                                                     *)
LEMMA PipelineStands ==
    ASSUME NEW s \in Seq(Message), Headed(s), Standing(s, {}), NEW b \in Nat, b >= 2,
           PlainPrefix(s, b), NEW mem, NEW pressed
    PROVE  LET t == Pipeline(s, b, mem, pressed) IN Headed(t) /\ Standing(t, {})
<1> DEFINE u == IF pressed THEN Snipped(s, b) ELSE s
           v == Reminded(u, mem)
           w == Rearmed(v)
           x == Deduped(w)
<1>1. u \in Seq(Message) /\ Headed(u) /\ Beheaded(u)
    <2>1. Beheaded(s)
        <3>1. 0 \in 0..Len(s)
            BY HeadedHolds
        <3> QED BY <3>1 DEF Standing, Beheaded
    <2> QED BY <2>1, SnippedIsBeheaded
<1> HIDE DEF u
<1>2. v \in Seq(Message) /\ Headed(v) /\ Beheaded(v)
    BY <1>1, RemindedIsBeheaded
<1> HIDE DEF v
<1>3. w \in Seq(Message) /\ Headed(w) /\ Beheaded(w)
    BY <1>2, RearmedIsBeheaded
<1> HIDE DEF w
<1>4. x \in Seq(Message) /\ Headed(x) /\ Beheaded(x)
    BY <1>3, DedupedIsBeheaded
<1> HIDE DEF x
<1>5. Headed(Downgraded(x)) /\ Standing(Downgraded(x), {})
    BY <1>4, DowngradedStands
<1> QED BY <1>5 DEF Pipeline, x, w, v, u

-----------------------------------------------------------------------------
(* What the sanitizer has let through, and the block it holds back behind  *)
(* it: as many calls wait as it has open.                                  *)
HoldsBlock(t) == Standing(t.out, {}) /\ Standing(t.out \o t.block, t.open)

(* One message keeps it so.                                                *)
LEMMA SanitizerStepStands ==
    ASSUME NEW U, NEW t \in SanitizerStates(Message, U), HoldsBlock(t), NEW m \in Message
    PROVE  LET u == SanitizerStep(t, m)
           IN  HoldsBlock(u) /\ (Headed(t.out) => Headed(u.out))
<1> DEFINE a    == t.out
           b    == Append(t.block, m)
           c    == a \o t.block
           done == [out |-> a \o b, block |-> <<>>, open |-> {}]
           more == [t EXCEPT !.block = b, !.open = @ \ {m.id}]
           ask  == [t EXCEPT !.block = <<m>>, !.open = ToSet(m.calls)]
           keep == [out |-> Append(a, m), block |-> <<>>, open |-> {}]
           u    == SanitizerStep(t, m)
<1> SUFFICES HoldsBlock(u) /\ (Headed(a) => Headed(u.out))
    OBVIOUS
<1>1. a \in Seq(Message) /\ t.block \in Seq(Message) /\ Standing(a, {}) /\ Standing(c, t.open)
    BY DEF SanitizerStates, HoldsBlock
<1>2. /\ m.role # "tool" /\ m.calls # <<>> => u = ask
      /\ m.role # "tool" /\ m.calls = <<>> => u = keep
      /\ m.role = "tool" /\ m.id \notin t.open => u = t
      /\ m.role = "tool" /\ t.open = {m.id} => u = done
      /\ m.role = "tool" /\ m.id \in t.open /\ t.open # {m.id} => u = more
    BY DEF SanitizerStep
<1>3. b \in Seq(Message) /\ c \in Seq(Message) /\ a \o b = Append(c, m) /\ Append(c, m) \in Seq(Message)
    <2> DEFINE w == <<m>>
    <2> HIDE DEF Message
    <2>1. w \in Seq(Message)
        OBVIOUS
    <2>2. b = t.block \o w
        BY <1>1, AppendIsConcat
    <2>3. c \in Seq(Message)
        BY <1>1, ConcatProperties
    <2>4. b \in Seq(Message)
        BY <1>1, AppendProperties
    <2> DEFINE d == t.block
    <2>5. d \in Seq(Message)
        BY <1>1
    <2> HIDE DEF w, a, d
    <2>6. (a \o d) \o w = a \o (d \o w)
        BY <1>1, <2>1, <2>5, ConcatAssociative
    <2>7. a \o b = c \o w
        BY <2>2, <2>6 DEF d
    <2> HIDE DEF c
    <2>8. Append(c, m) = c \o w /\ Append(c, m) \in Seq(Message)
        BY <2>3, AppendIsConcat, AppendProperties DEF w
    <2> QED BY <2>3, <2>4, <2>7, <2>8
<1>4. ASSUME NEW x \in Seq(Message) PROVE x \o <<>> = x
    BY <1>4, ConcatEmptySeq
<1>5. ASSUME NEW x \in Seq(Message), Headed(a) PROVE Headed(a \o x)
    <2> DEFINE r == a \o x
    <2>1. 1 \in 1..Len(a) /\ Len(a) \in Nat
        BY <1>1, <1>5, HeadedHolds
    <2> HIDE DEF Message, a
    <2>2. r \in Seq(Message) /\ Len(r) = Len(a) + Len(x) /\ Len(x) \in Nat
          /\ \A i \in 1..Len(a) + Len(x) : r[i] = IF i <= Len(a) THEN a[i] ELSE x[i - Len(a)]
        BY <1>1, ConcatProperties, LenProperties
    <2> HIDE DEF r
    <2>3. 1 \in 1..Len(a) + Len(x) /\ 1 <= Len(a) /\ Len(r) # 0
        BY <2>1, <2>2
    <2>4. r[1] = a[1] /\ r # <<>>
        BY <2>2, <2>3
    <2>5. Headed(r)
        BY <1>5, <2>4 DEF Headed
    <2> QED BY <2>5 DEF r
<1>6. CASE m.role = "tool" /\ m.id \notin t.open
    BY <1>2, <1>6
<1>7. CASE m.role = "tool" /\ m.id \in t.open
    <2>1. Awaits(t.open, m, t.open \ {m.id})
        BY <1>7 DEF Awaits
    <2>2. Standing(a \o b, t.open \ {m.id})
        <3> HIDE DEF Message, b, a, c
        <3> QED BY <1>1, <1>3, <2>1, StandingGrows
    <2>3. CASE t.open = {m.id}
        <3>1. u = done /\ done.out = a \o b /\ done.block = <<>> /\ done.open = {}
            BY <1>2, <1>7, <2>3
        <3>2. t.open \ {m.id} = {} /\ (a \o b) \o <<>> = a \o b
            BY <1>3, <1>4, <2>3
        <3>3. Headed(a) => Headed(a \o b)
            BY <1>3, <1>5
        <3> HIDE DEF done, u, a, b, c
        <3> QED BY <2>2, <3>1, <3>2, <3>3 DEF HoldsBlock
    <2>4. CASE t.open # {m.id}
        <3>1. u = more /\ more.out = a /\ more.block = b /\ more.open = t.open \ {m.id}
            BY <1>2, <1>7, <2>4 DEF SanitizerStates
        <3> HIDE DEF more, u, a, b, c
        <3> QED BY <1>1, <2>2, <3>1 DEF HoldsBlock
    <2> QED BY <2>3, <2>4
<1>8. CASE m.role # "tool"
    <2>1. Awaits({}, m, ToSet(m.calls))
        BY <1>8 DEF Awaits
    <2>2. Standing(Append(a, m), ToSet(m.calls)) /\ Append(a, m) = a \o <<m>>
          /\ Append(a, m) \in Seq(Message) /\ <<m>> \in Seq(Message)
        <3>1. Append(a, m) = a \o <<m>> /\ Append(a, m) \in Seq(Message) /\ <<m>> \in Seq(Message)
            <4> HIDE DEF Message, a
            <4> QED BY <1>1, AppendIsConcat, AppendProperties
        <3> HIDE DEF Message, a
        <3> QED BY <1>1, <2>1, <3>1, StandingGrows
    <2>3. CASE m.calls # <<>>
        <3>1. u = ask /\ ask.out = a /\ ask.block = <<m>> /\ ask.open = ToSet(m.calls)
            BY <1>2, <1>8, <2>3 DEF SanitizerStates
        <3> HIDE DEF ask, u, a, b, c
        <3> QED BY <1>1, <2>2, <3>1 DEF HoldsBlock
    <2>4. CASE m.calls = <<>>
        <3>1. u = keep /\ keep.out = Append(a, m) /\ keep.block = <<>> /\ keep.open = {}
            BY <1>2, <1>8, <2>4
        <3>2. ToSet(m.calls) = {}
            BY <2>4 DEF ToSet
        <3>3. Append(a, m) \o <<>> = Append(a, m)
            BY <1>4, <2>2
        <3>4. Headed(a) => Headed(Append(a, m))
            BY <1>5, <2>2
        <3> HIDE DEF keep, u, a, b, c
        <3> QED BY <2>2, <3>1, <3>2, <3>3, <3>4 DEF HoldsBlock
    <2> QED BY <2>3, <2>4
<1> HIDE DEF u
<1> QED BY <1>6, <1>7, <1>8

(* Whatever the history, the sanitizer leaves one in which no call waits,  *)
(* and the prompt in front.                                                *)
LEMMA SanitizedStands ==
    ASSUME NEW s \in Seq(Message)
    PROVE  LET t == Sanitized(s)
           IN  t \in Seq(Message) /\ Standing(t, {}) /\ (Headed(s) => Headed(t))
<1> DEFINE n == Len(s)
           U == UNION {ToSet(x.calls) : x \in Message}
           X == {t \in SanitizerStates(Message, U) : HoldsBlock(t)}
           Y == {t \in X : Headed(t.out)}
<1>1. PICK g : /\ g[0] = NothingTaken /\ Sanitized(s) = g[n].out
               /\ \A k \in 1..n : g[k] = SanitizerStep(g[k - 1], s[k])
    <2> HIDE DEF Message
    <2> QED BY SanitizedFold
<1> HIDE DEF Message
<1>2. n \in Nat /\ \A k \in 1..n : s[k] \in Message
    BY ElementOfSeq, LenProperties
<1>3. g[0] \in X
    <2>1. NothingTaken \in SanitizerStates(Message, U)
        BY DEF NothingTaken, SanitizerStates
    <2>2. NothingTaken.out = <<>> /\ NothingTaken.block = <<>> /\ NothingTaken.open = {}
          /\ <<>> \o <<>> = <<>>
        BY DEF NothingTaken
    <2> HIDE DEF U
    <2> QED BY <1>1, <2>1, <2>2, NothingStands DEF HoldsBlock
<1>4. ASSUME NEW k \in 1..n, g[k - 1] \in X
      PROVE  g[k] \in X /\ (g[k - 1] \in Y => g[k] \in Y)
    <2> DEFINE t == g[k - 1]
               x == s[k]
               u == SanitizerStep(t, x)
    <2>1. /\ x \in Message /\ g[k] = u /\ t \in SanitizerStates(Message, U)
          /\ HoldsBlock(t)
        BY <1>1, <1>2, <1>4
    <2>2. ToSet(x.calls) \subseteq U
        BY <2>1
    <2> HIDE DEF U, t, x
    <2>3. u \in SanitizerStates(Message, U)
        BY <2>1, <2>2, SanitizerStepTyped
    <2>4. HoldsBlock(u) /\ (Headed(t.out) => Headed(u.out))
        BY <2>1, SanitizerStepStands
    <2> HIDE DEF u
    <2> QED BY <2>1, <2>3, <2>4 DEF t
<1>5. \A k \in 0..n : g[k] \in X
    <2> HIDE DEF X, Y, n
    <2> QED BY <1>2, <1>3, <1>4, FoldStays
<1>6. n \in 0..n
    BY <1>2
<1>7. Sanitized(s) \in Seq(Message) /\ Standing(Sanitized(s), {})
    BY <1>1, <1>5, <1>6 DEF HoldsBlock, SanitizerStates
<1>8. ASSUME Headed(s) PROVE Headed(Sanitized(s))
    <2> DEFINE h == [k \in 0..n |-> IF k = 0 THEN g[1] ELSE g[k]]
    <2>1. n # 0 /\ 1 \in 1..n /\ s[1] = System
        <3> USE DEF Message
        <3> QED BY <1>8, HeadedHolds DEF Headed
    <2>2. g[1] \in Y
        <3> DEFINE e == <<>>
                   t == Append(e, System)
        <3>1. g[1] = SanitizerStep(NothingTaken, System)
            <4>1. g[1] = SanitizerStep(g[1 - 1], s[1])
                BY <1>1, <2>1
            <4> QED BY <1>1, <2>1, <4>1
        <3>2. g[1].out = t
            <4>1. System.role # "tool" /\ System.calls = <<>>
                BY DEF System, Plain
            <4> HIDE DEF t
            <4>2. SanitizerStep(NothingTaken, System)
                    = [out |-> Append(NothingTaken.out, System), block |-> <<>>, open |-> {}]
                BY <4>1 DEF SanitizerStep
            <4>3. NothingTaken.out = e
                BY DEF NothingTaken
            <4> QED BY <3>1, <4>2, <4>3 DEF t
        <3>3. e \in Seq(Message) /\ System \in Message /\ Len(e) = 0
            BY NotesAreMessages
        <3> HIDE DEF e
        <3>4. t # <<>> /\ t[Len(e) + 1] = System /\ Len(e) + 1 = 1
            BY <3>3, AppendProperties
        <3> HIDE DEF t, X
        <3>5. g[1] \in X
            <4>1. 1 \in 0..n
                BY <2>1
            <4> QED BY <1>5, <4>1
        <3> QED BY <3>2, <3>4, <3>5 DEF Headed
    <2>3. ASSUME NEW k \in 1..n, h[k - 1] \in Y PROVE h[k] \in Y
        <3>1. h[k] = g[k]
            BY <1>2
        <3>2. CASE k = 1
            <4> HIDE DEF Y, h
            <4> QED BY <2>2, <3>1, <3>2
        <3>3. CASE k # 1
            <4>1. h[k - 1] = g[k - 1] /\ k - 1 \in 0..n
                BY <1>2, <3>3
            <4> HIDE DEF Y, X, h, n
            <4> QED BY <1>4, <1>5, <2>3, <3>1, <4>1
        <3> QED BY <3>2, <3>3
    <2>4. h[0] \in Y
        <3>1. h[0] = g[1]
            BY <1>2
        <3> HIDE DEF Y, h
        <3> QED BY <2>2, <3>1
    <2>5. \A k \in 0..n : h[k] \in Y
        <3> HIDE DEF Y, X, h, n
        <3> QED BY <1>2, <2>3, <2>4, FoldStays
    <2>6. h[n] = g[n]
        BY <1>2, <2>1
    <2>7. g[n] \in Y
        <3> HIDE DEF Y, h, n
        <3> QED BY <1>6, <2>5, <2>6
    <2> QED BY <1>1, <2>7
<1> QED BY <1>7, <1>8

(* The last user message, if there is one, is behind the prompt.           *)
LEMMA TruncatedStands ==
    ASSUME messages \in Seq(Message), Headed(messages), base \in Nat, Truncated # <<>>
    PROVE  Truncated \in Seq(Message) /\ Headed(Truncated) /\ Standing(Truncated, {})
<1> DEFINE l     == Len(messages)
           users == {k \in base + 1..l : messages[k].role = "user"}
           q     == Max(users)
           s     == SubSeq(messages, 1, q)
<1>1. l \in Nat /\ l # 0
    BY HeadedHolds
<1>2. users # {} /\ Truncated = Sanitized(s)
    BY DEF Truncated
<1>3. q \in users
    <2>1. users \in SUBSET (1..l)
        BY <1>1
    <2> HIDE DEF users
    <2> QED BY <1>1, <1>2, <2>1, MaxIsMember
<1>4. q \in 1..l /\ q \in 1 - 1..l /\ 1 \in 1..l + 1 /\ q + 1 - 1 = q /\ 1 \in 1..q
    BY <1>1, <1>3
<1> HIDE DEF q
<1>5. s \in Seq(Message) /\ Len(s) = q /\ \A i \in 1..q : s[i] = messages[1 + i - 1]
    BY <1>4, PartHolds
<1> HIDE DEF s
<1>6. Headed(s)
    <2>1. s[1] = messages[1] /\ Len(s) # 0
        <3>1. 1 + 1 - 1 = 1
            OBVIOUS
        <3> QED BY <1>4, <1>5, <3>1
    <2>2. s # <<>>
        BY <2>1
    <2> QED BY <2>1, <2>2 DEF Headed
<1> QED BY <1>2, <1>5, <1>6, SanitizedStands

(* Every resumed history, and every one cut back after an error, is a      *)
(* sequence a provider accepts, whatever the transcript holds of its       *)
(* answers and wherever the history had been cut before.                   *)
THEOREM RepairsStayWellFormed ==
    Spec => []RepairsAreWellFormed
<1>1. Init => AnswersInv
    BY AnswersInvInit
<1>2. AnswersInv /\ [Next]_vars => AnswersInv'
    BY AnswersInvNext
<1>3. AnswersInv => RepairsAreWellFormed
    <2> SUFFICES ASSUME AnswersInv PROVE RepairsAreWellFormed
        OBVIOUS
    <2>1. Restored(transcript) \in Seq(Message)
        BY RestoredIsShadowed DEF AnswersInv, TranscriptInv
    <2>2. WellFormed(Resumable(transcript))
        BY <2>1, SanitizedStands, StandingIsWellFormed DEF Resumable
    <2>3. Truncated = <<>> \/ \E s \in Seq(Own) : Truncated = Sanitized(s)
        BY TruncatedIsSanitized DEF AnswersInv, HistoryInv, TurnInv, Counts
    <2>4. \A s \in Seq(Own) : WellFormed(Sanitized(s))
        BY OwnIsShadowed, SanitizedStands, StandingIsWellFormed
    <2>5. WellFormed(<<>>)
        BY NothingStands, StandingIsWellFormed, EmptySeq
    <2>6. WellFormed(Truncated)
        BY <2>3, <2>4, <2>5
    <2> QED BY <2>2, <2>6 DEF RepairsAreWellFormed
<1> QED BY <1>1, <1>2, <1>3, PTL DEF Spec

-----------------------------------------------------------------------------
(* The calls from the k-th on.                                             *)
Unanswered(k) == {Id(i) : i \in k..Len(calls)}

(* No call waits when the loop asks the model, all of them while they are  *)
(* executed, and then those whose results are not recorded yet.            *)
RequestInv ==
    /\ pc \in {"head", "stream"} => Standing(messages, {})
    /\ pc \in {"say", "collect", "batch"} => Standing(messages, Unanswered(1))
    /\ pc = "answer" => Standing(messages, Unanswered(at))
    /\ pc = "result" => Standing(messages, Unanswered(at + 1))
    /\ pc \notin {"boot"} \cup Ended => Headed(messages) /\ base >= 2

(* The history is one of messages, and the counts are numbers.             *)
LEMMA RequestTypes ==
    ASSUME AnswersInv
    PROVE  /\ messages \in Seq(Message) /\ base \in Nat /\ answer \in Nat /\ resumes \in Nat
           /\ calls \in Seq(Kinds) /\ Len(calls) \in Nat /\ DOMAIN calls = 1..Len(calls)
           /\ at \in Nat
<1>1. messages \in Seq(Own) /\ Counts /\ Types
    BY DEF AnswersInv, HistoryInv, TurnInv, RunInv
<1>2. messages \in Seq(Message)
    BY <1>1, OwnIsShadowed
<1> QED BY <1>1, <1>2, CallsTyped DEF Counts, Types

(* At the end of a turn nothing is asked any more.                         *)
LEMMA RequestEnds ==
    ASSUME NEW how \in Ended, End(how) PROVE RequestInv'
BY DEF RequestInv, End, Ended

(* An iteration starts over from a history in which no call waits.         *)
LEMMA RequestStartsOver ==
    ASSUME base >= 2, NEW msgs, Headed(msgs), Standing(msgs, {}), StartOver(msgs)
    PROVE  RequestInv'
BY DEF RequestInv, StartOver

(* The answer's calls wait.                                                *)
LEMMA RequestReceives ==
    ASSUME Counts, Types', base >= 2, NEW msgs \in Seq(Message), Headed(msgs),
           Standing(msgs, {}), Received(msgs)
    PROVE  RequestInv'
<1> DEFINE ids == [i \in DOMAIN calls' |-> <<answer', i, calls'[i]>>]
           m   == Answer(answer', ids)
<1>1. messages' = Append(msgs, m) /\ base' = base /\ pc' = "say" /\ answer' \in Nat
    BY DEF Received, Id, Counts
<1>2. calls' \in Seq(Kinds) /\ Len(calls') \in Nat /\ DOMAIN calls' = 1..Len(calls')
    BY DEF Types
<1>3. ids \in Seq(Ids) /\ ToSet(ids) = {<<answer', i, calls'[i]>> : i \in 1..Len(calls')}
    <2>1. \A i \in 1..Len(calls') : <<answer', i, calls'[i]>> \in Ids
        BY <1>1, <1>2, IdsTyped
    <2>2. DOMAIN ids = 1..Len(calls') /\ \A i \in 1..Len(calls') : ids[i] = <<answer', i, calls'[i]>>
        BY <1>2
    <2>3. ids \in Seq(Ids)
        <3> HIDE DEF Ids
        <3> QED BY <1>2, <2>1
    <2> HIDE DEF ids
    <2> QED BY <2>2, <2>3 DEF ToSet
<1>4. Unanswered(1)' = ToSet(ids)
    BY <1>2, <1>3 DEF Unanswered, Id
<1>5. m \in Message /\ m.role # "tool" /\ m.calls = ids
    <2>1. m.role = "assistant"
        BY DEF Answer, Asked, Said, Plain
    <2> HIDE DEF ids, m
    <2>2. Answer(answer', ids) \in Own /\ Answer(answer', ids).calls = ids
        BY <1>1, <1>3, AnswerIsOwn
    <2> QED BY <2>1, <2>2 DEF m, Own
<1> HIDE DEF ids, m
<1>6. Awaits({}, m, Unanswered(1)')
    BY <1>4, <1>5 DEF Awaits
<1>7. Standing(messages', Unanswered(1)')
    <2> HIDE DEF Message
    <2> QED BY <1>1, <1>5, <1>6, StandingGrows
<1>8. Headed(messages')
    <2>1. 1 \in 1..Len(msgs)
        BY HeadedHolds
    <2>2. Append(msgs, m) # <<>> /\ Append(msgs, m)[1] = msgs[1]
        <3> HIDE DEF Message
        <3> QED BY <1>5, <2>1, AppendProperties
    <2> QED BY <1>1, <2>2 DEF Headed
<1> QED BY <1>1, <1>7, <1>8 DEF RequestInv, Ended

(* A silent message behind a history in which no call waits.               *)
LEMMA SilentGrows ==
    ASSUME NEW s \in Seq(Message), Headed(s), Standing(s, {}), NEW m \in Message, Silent(m)
    PROVE  LET t == Append(s, m)
           IN  /\ t \in Seq(Message) /\ Headed(t) /\ Standing(t, {})
               /\ \A b \in Nat : PlainPrefix(s, b) => PlainPrefix(t, b)
<1> DEFINE t == Append(s, m)
<1> SUFFICES /\ t \in Seq(Message) /\ Headed(t) /\ Standing(t, {})
             /\ \A b \in Nat : PlainPrefix(s, b) => PlainPrefix(t, b)
    OBVIOUS
<1>1. Awaits({}, m, {})
    BY SilentAwaits
<1>2. 1 \in 1..Len(s) /\ Len(s) \in Nat /\ DOMAIN s = 1..Len(s)
    BY HeadedHolds
<1> HIDE DEF Message
<1>3. Standing(t, {})
    BY <1>1, StandingGrows
<1>4. /\ t \in Seq(Message) /\ t # <<>> /\ Len(t) = Len(s) + 1
      /\ (\A i \in 1..Len(s) : t[i] = s[i]) /\ t[Len(s) + 1] = m
    BY AppendProperties
<1> HIDE DEF t
<1>5. Headed(t)
    BY <1>2, <1>4 DEF Headed
<1>6. ASSUME NEW b \in Nat, PlainPrefix(s, b), NEW k \in 1..b, k \in DOMAIN t
      PROVE  Silent(t[k])
    <2>1. DOMAIN t = 1..Len(s) + 1
        BY <1>4, LenProperties
    <2>2. k \in 1..Len(s) + 1
        BY <1>6, <2>1
    <2>3. CASE k = Len(s) + 1
        BY <1>4, <2>3
    <2>4. CASE k # Len(s) + 1
        <3>1. k \in 1..Len(s)
            BY <1>2, <2>2, <2>4
        <3>2. t[k] = s[k] /\ k \in DOMAIN s
            BY <1>2, <1>4, <3>1
        <3>3. Silent(s[k])
            BY <1>6, <3>2 DEF PlainPrefix
        <3> QED BY <3>2, <3>3
    <2> QED BY <2>3, <2>4
<1> QED BY <1>3, <1>4, <1>5, <1>6 DEF PlainPrefix

-----------------------------------------------------------------------------
(* A turn begins with the prompt, the repaired history and the task.       *)
LEMMA BootKeepsRequests ==
    ASSUME AnswersInv, Boot PROVE RequestInv'
<1> DEFINE restored == Resumable(transcript)
           e == <<>>
           f == Append(e, System)
           prefix == Append(f, Context)
<1>1. Recorded(transcript) /\ resumes \in Nat
    BY RequestTypes DEF AnswersInv, TranscriptInv
<1>2. restored \in Seq(Message) /\ Standing(restored, {})
    BY <1>1, RestoredIsShadowed, SanitizedStands DEF Resumable
<1>3. /\ System \in Message /\ Context \in Message /\ Silent(System) /\ Silent(Context)
      /\ \A n \in Nat : User(n) \in Message /\ Silent(User(n))
    BY NotesAreSilent, NotesAreMessages
<1>4. /\ prefix \in Seq(Message) /\ Headed(prefix) /\ Standing(prefix, {}) /\ Len(prefix) = 2
    <2>1. e \in Seq(Message) /\ Standing(e, {}) /\ Len(e) = 0
        BY NothingStands
    <2> HIDE DEF e
    <2>2. /\ f \in Seq(Message) /\ f # <<>> /\ f[Len(e) + 1] = System /\ Len(f) = Len(e) + 1
          /\ Standing(f, {})
        <3> HIDE DEF Message
        <3> QED BY <1>3, <2>1, AppendProperties, StandingGrows, SilentAwaits
    <2> HIDE DEF f
    <2>3. Headed(f) /\ Len(f) = 1
        BY <2>1, <2>2 DEF Headed
    <2>4. Len(prefix) = Len(f) + 1
        <3> HIDE DEF Message
        <3> QED BY <1>3, <2>2, AppendProperties
    <2> HIDE DEF prefix
    <2>5. prefix \in Seq(Message) /\ Headed(prefix) /\ Standing(prefix, {})
        BY <1>3, <2>2, <2>3, SilentGrows DEF prefix
    <2> QED BY <2>3, <2>4, <2>5
<1>5. <<System, Context>> = prefix
    OBVIOUS
<1>6. PICK n \in {0, resumes}, again \in BOOLEAN, said \in BOOLEAN :
        /\ messages' = IF ~again THEN Append(prefix, User(n))
                       ELSE prefix \o restored \o (IF said THEN <<>> ELSE <<User(n)>>)
        /\ base' = IF again THEN Len(prefix) ELSE Len(prefix) + 1
    <2>1. PICK n \in {0, resumes} :
            LET p     == <<System, Context>>
                again == resumes > 0 /\ transcript # <<>>
                said  == restored # <<>> /\ Last(restored) = User(n)
            IN /\ messages' = IF ~again THEN Append(p, User(n))
                              ELSE p \o restored \o (IF said THEN <<>> ELSE <<User(n)>>)
               /\ base' = IF again THEN Len(p) ELSE Len(p) + 1
        BY DEF Boot
    <2> HIDE DEF prefix, restored
    <2> QED BY <1>5, <2>1
<1> HIDE DEF prefix, restored
<1>7. pc' = "head" /\ base' >= 2
    BY <1>4, <1>6 DEF Boot
<1>8. User(n) \in Message /\ Silent(User(n))
    BY <1>1, <1>3
<1>9. Headed(messages') /\ Standing(messages', {})
    <2>1. CASE ~again
        <3>1. messages' = Append(prefix, User(n))
            BY <1>6, <2>1
        <3> QED BY <1>4, <1>8, <3>1, SilentGrows
    <2>2. CASE again
        <3> DEFINE a == prefix \o restored
                   w == <<User(n)>>
        <3>1. a \in Seq(Message) /\ Standing(a, {})
            <4>1. a \in Seq(Message)
                <5> HIDE DEF Message
                <5> QED BY <1>2, <1>4, ConcatProperties
            <4> HIDE DEF Message
            <4> QED BY <1>2, <1>4, <4>1, StandingJoins
        <3>2. Headed(a)
            <4>1. 1 \in 1..Len(prefix) /\ Len(restored) \in Nat
                <5> HIDE DEF Message
                <5> QED BY <1>2, <1>4, LenProperties
            <4>2. /\ Len(a) = Len(prefix) + Len(restored)
                  /\ \A i \in 1..Len(prefix) + Len(restored) :
                        a[i] = IF i <= Len(prefix) THEN prefix[i] ELSE restored[i - Len(prefix)]
                <5> HIDE DEF Message
                <5> QED BY <1>2, <1>4, ConcatProperties
            <4> HIDE DEF a
            <4>5. 1 \in 1..Len(prefix) + Len(restored) /\ 1 <= Len(prefix)
                BY <1>4, <4>1
            <4>6. a[1] = prefix[1]
                BY <4>2, <4>5
            <4>3. Len(a) # 0
                BY <1>4, <4>1, <4>2
            <4>4. a # <<>>
                BY <4>3
            <4> QED BY <1>4, <4>4, <4>6 DEF Headed
        <3>3. a \o <<>> = a /\ a \o w = Append(a, User(n))
            <4> HIDE DEF Message, a
            <4> QED BY <1>8, <3>1, ConcatEmptySeq, AppendIsConcat
        <3>4. messages' = a \/ messages' = Append(a, User(n))
            <4>1. messages' = a \o (IF said THEN <<>> ELSE w)
                BY <1>6, <2>2
            <4> HIDE DEF a, w
            <4> QED BY <3>3, <4>1
        <3> HIDE DEF a, w
        <3> QED BY <1>8, <3>1, <3>2, <3>4, SilentGrows
    <2> QED BY <2>1, <2>2
<1> QED BY <1>7, <1>9 DEF RequestInv, Ended

(* The head of an iteration adds notes, and the pipeline is applied.       *)
LEMMA BeginKeepsRequests ==
    ASSUME AnswersInv, RequestInv, PrefixIsPlain, Begin PROVE RequestInv'
<1>1. PICK prefetch, mail, pressed \in BOOLEAN :
        LET b == IF prefetch THEN base + 1 ELSE base
            p == IF prefetch THEN Prefetched(messages, base) ELSE messages
            m == IF mail THEN Append(p, Note("mail")) ELSE p
        IN base' = b /\ messages' = Pipeline(m, b, memory, pressed)
    BY DEF Begin
<1> DEFINE b == IF prefetch THEN base + 1 ELSE base
           p == IF prefetch THEN Prefetched(messages, base) ELSE messages
           m == IF mail THEN Append(p, Note("mail")) ELSE p
<1>2. base' = b /\ messages' = Pipeline(m, b, memory, pressed) /\ pc' = "stream"
    BY <1>1 DEF Begin
<1>3. messages \in Seq(Message) /\ base \in Nat /\ base >= 2
      /\ Headed(messages) /\ Standing(messages, {}) /\ PlainPrefix(messages, base)
    <2>1. pc = "head"
        BY DEF Begin
    <2> QED BY <2>1, RequestTypes DEF RequestInv, PrefixIsPlain, PlainPrefix, Silent, Ended
<1>4. b \in Nat /\ b >= 2
    BY <1>3
<1>5. p \in Seq(Message) /\ Headed(p) /\ Standing(p, {}) /\ PlainPrefix(p, b)
    BY <1>3, PrefetchedStands
<1> HIDE DEF b, p
<1>6. Note("mail") \in Message /\ Silent(Note("mail"))
    BY NotesAreSilent, NotesAreMessages DEF Tags
<1>7. m \in Seq(Message) /\ Headed(m) /\ Standing(m, {}) /\ PlainPrefix(m, b)
    BY <1>4, <1>5, <1>6, SilentGrows
<1> HIDE DEF m
<1>8. Headed(messages') /\ Standing(messages', {})
    BY <1>2, <1>4, <1>7, PipelineStands
<1> QED BY <1>2, <1>4, <1>8 DEF RequestInv, Ended

(* The errors of a stream cut the history, clean it or note themselves.    *)
LEMMA StreamKeepsRequests ==
    ASSUME AnswersInv, RequestInv, PrefixIsPlain, RunInv',
           NextCall \/ MoreArguments \/ StreamEnds \/ Overflow
           \/ ProtocolRecovered \/ ProtocolFailed \/ StreamFailed
    PROVE  RequestInv'
<1>1. pc = "stream" /\ Counts /\ Types'
    BY DEF AnswersInv, TurnInv, RunInv, NextCall, MoreArguments, StreamEnds, Overflow,
       ProtocolRecovered, ProtocolFailed, StreamFailed
<1>2. messages \in Seq(Message) /\ base \in Nat /\ base >= 2
      /\ Headed(messages) /\ Standing(messages, {}) /\ PlainPrefix(messages, base)
    BY <1>1, RequestTypes DEF RequestInv, PrefixIsPlain, PlainPrefix, Silent, Ended
<1>3. /\ Note("error") \in Message /\ Silent(Note("error"))
      /\ Note("clean") \in Message /\ Silent(Note("clean"))
    BY NotesAreSilent, NotesAreMessages DEF Tags
<1>4. CASE NextCall \/ MoreArguments
    <2>1. UNCHANGED <<messages, base, pc>>
        BY <1>4 DEF NextCall, MoreArguments, history
    <2> QED BY <1>1, <1>2, <2>1 DEF RequestInv
<1>5. CASE StreamEnds
    BY <1>1, <1>2, <1>5, RequestReceives DEF StreamEnds
<1>6. CASE Overflow
    <2>1. Headed(Pipeline(messages, base, memory, TRUE))
          /\ Standing(Pipeline(messages, base, memory, TRUE), {})
        BY <1>2, PipelineStands
    <2> QED BY <1>2, <1>6, <2>1, RequestStartsOver DEF Overflow
<1>7. CASE ProtocolRecovered
    <2>1. PICK cleaned \in {Sanitized(messages),
                    Append(Sanitized(UpToLen(messages, base)), Note("clean"))} :
            Received(cleaned)
        BY <1>7 DEF ProtocolRecovered
    <2> DEFINE u == UpToLen(messages, base)
    <2>2. u \in Seq(Message) /\ Headed(u)
        <3> DEFINE n == IF base < Len(messages) THEN base ELSE Len(messages)
        <3>1. Len(messages) \in Nat /\ Len(messages) # 0
            BY <1>2, HeadedHolds
        <3>2. n \in 1 - 1..Len(messages) /\ 1 \in 1..n /\ n + 1 - 1 = n
              /\ 1 \in 1..Len(messages) + 1 /\ n # 0 /\ 1 + 1 - 1 = 1
            BY <1>2, <3>1
        <3>3. u = SubSeq(messages, 1, n)
            BY DEF UpToLen
        <3> HIDE DEF u, n
        <3>4. u \in Seq(Message) /\ Len(u) = n /\ u[1] = messages[1]
            BY <1>2, <3>2, <3>3, PartHolds
        <3>5. u # <<>>
            BY <3>2, <3>4
        <3> QED BY <1>2, <3>4, <3>5 DEF Headed
    <2> HIDE DEF u
    <2> DEFINE v == Sanitized(u)
    <2>3. v \in Seq(Message) /\ Headed(v) /\ Standing(v, {})
        BY <2>2, SanitizedStands
    <2> HIDE DEF v
    <2>4. cleaned \in Seq(Message) /\ Headed(cleaned) /\ Standing(cleaned, {})
        <3>1. CASE cleaned = Sanitized(messages)
            BY <1>2, <3>1, SanitizedStands
        <3>2. CASE cleaned = Append(v, Note("clean"))
            BY <1>3, <2>3, <3>2, SilentGrows
        <3> QED BY <2>1, <3>1, <3>2 DEF u, v
    <2> QED BY <1>1, <1>2, <2>1, <2>4, RequestReceives
<1>8. CASE ProtocolFailed
    <2>1. CASE Len(Truncated) > base
        <3>1. Truncated # <<>>
            BY <1>2, <2>1
        <3> QED BY <1>2, <1>8, <2>1, <3>1, TruncatedStands, RequestStartsOver DEF ProtocolFailed
    <2>2. CASE ~(Len(Truncated) > base)
        BY <1>8, <2>2, RequestEnds DEF ProtocolFailed, Ended
    <2> QED BY <2>1, <2>2
<1>9. CASE StreamFailed
    <2>1. CASE End("failed")
        BY <2>1, RequestEnds DEF Ended
    <2>2. CASE StartOver(Append(messages, Note("error")))
        BY <1>2, <1>3, <2>2, SilentGrows, RequestStartsOver
    <2>3. CASE base < Len(Truncated) /\ StartOver(Append(Truncated, Note("error")))
        <3>1. Truncated # <<>>
            BY <1>2, <2>3
        <3> QED BY <1>2, <1>3, <2>3, <3>1, TruncatedStands, SilentGrows, RequestStartsOver
    <2> QED BY <1>9, <2>1, <2>2, <2>3 DEF StreamFailed
<1> QED BY <1>4, <1>5, <1>6, <1>7, <1>8, <1>9

(* The rest of the loop: each call waits until its result is recorded.     *)
LEMMA OthersKeepRequests ==
    ASSUME AnswersInv, RequestInv,
           \/ OutOfIterations \/ SayTurn \/ SayCall \/ Remember \/ Finish
           \/ AwaitEarly \/ AwaitCancelled \/ LeaveForLater \/ Collected
           \/ NextBatch \/ Enter \/ ToolEnds \/ Pause \/ Executed
           \/ RecordOutput \/ RecordResult \/ Stop \/ Resume \/ Rest
    PROVE  RequestInv'
<1>0. Types /\ Marks /\ Counts
    BY DEF AnswersInv, TurnInv, RunInv
<1>1. CASE OutOfIterations \/ Finish \/ AwaitCancelled \/ Pause \/ Stop
    <2>1. \E how \in Ended : End(how)
        BY <1>1 DEF OutOfIterations, Finish, AwaitCancelled, Pause, Stop, Ended
    <2> QED BY <2>1, RequestEnds
<1>2. CASE \/ SayTurn \/ SayCall \/ Remember \/ AwaitEarly \/ LeaveForLater \/ Collected
           \/ NextBatch \/ Enter
    <2>1. UNCHANGED <<messages, base, calls, answer>>
        BY <1>2 DEF SayTurn, SayCall, Remember, AwaitEarly, LeaveForLater, Collected,
           NextBatch, Enter, history, count, exec
    <2>2. {pc, pc'} \subseteq {"say", "collect", "batch"}
        BY <1>2 DEF SayTurn, SayCall, Remember, AwaitEarly, LeaveForLater, Collected,
           NextBatch, Enter
    <2>3. Unanswered(1)' = Unanswered(1)
        BY <2>1 DEF Unanswered, Id
    <2> QED BY <2>1, <2>2, <2>3 DEF RequestInv, Ended
<1>3. CASE ToolEnds \/ Rest
    <2>1. UNCHANGED <<messages, base, calls, answer, pc, at>>
        BY <1>3 DEF ToolEnds, Rest, vars, history, count, exec
    <2> QED BY <2>1 DEF RequestInv, Unanswered, Id
<1>4. CASE Resume
    BY <1>4 DEF Resume, RequestInv
<1>5. CASE Executed
    <2>1. UNCHANGED <<messages, base, calls, answer>> /\ pc = "batch" /\ pc' = "answer" /\ at' = 1
        BY <1>5 DEF Executed, AllSettled, history, count
    <2>2. Unanswered(at)' = Unanswered(1)
        BY <2>1 DEF Unanswered, Id
    <2> QED BY <2>1, <2>2 DEF RequestInv, Ended
<1>6. CASE RecordOutput
    <2>1. at \in DOMAIN calls /\ pc = "answer" /\ pc' = "result"
          /\ UNCHANGED <<base, calls, answer, at>>
        BY <1>0, <1>6 DEF Marks, RecordOutput, exec, count
    <2>2. Id(at) \in Ids
        <3>1. calls[at] \in Kinds /\ at \in Nat /\ answer \in Nat
            BY <1>0, <2>1 DEF Types, Counts
        <3> QED BY <3>1, IdsTyped DEF Id
    <2> DEFINE m == Tool(Id(at), Id(at))
    <2>3. m \in Message /\ m.id = Id(at) /\ m.role = "tool"
        <3>1. m.role = "tool"
            BY DEF Tool, Plain
        <3> HIDE DEF Message, Ids
        <3> QED BY <2>2, <3>1, ToolIsMessage
    <2> HIDE DEF m
    <2>4. messages' = Append(messages, m)
        BY <1>6 DEF RecordOutput, m
    <2>5. Headed(messages) /\ base >= 2 /\ Standing(messages, Unanswered(at))
          /\ messages \in Seq(Message)
        BY <2>1, RequestTypes DEF RequestInv, Ended
    <2>6. Id(at) \in Unanswered(at) /\ Unanswered(at) \ {Id(at)} = Unanswered(at + 1)
        <3>1. at \in at..Len(calls) /\ at \in Nat /\ Len(calls) \in Nat
            BY <2>1, RequestTypes
        <3>2. \A i \in at..Len(calls) : i = at \/ i \in at + 1..Len(calls)
            BY <3>1
        <3>3. \A i \in at + 1..Len(calls) : i \in at..Len(calls) /\ i # at
            BY <3>1
        <3>4. \A i, j \in Nat : Id(i) = Id(j) => i = j
            BY DEF Id
        <3>5. ASSUME NEW i \in at + 1..Len(calls) PROVE Id(i) # Id(at)
            <4>1. i \in Nat
                BY <3>1
            <4> QED BY <3>1, <3>3, <3>4, <4>1
        <3> HIDE DEF Id
        <3> QED BY <3>1, <3>2, <3>3, <3>5 DEF Unanswered
    <2>7. Awaits(Unanswered(at), m, Unanswered(at + 1))
        BY <2>3, <2>6 DEF Awaits
    <2>8. Standing(messages', Unanswered(at + 1))
        <3> HIDE DEF Message
        <3> QED BY <2>3, <2>4, <2>5, <2>7, StandingGrows
    <2>9. Headed(messages')
        <3>1. 1 \in 1..Len(messages)
            BY <2>5, HeadedHolds
        <3> HIDE DEF Message
        <3>2. Append(messages, m) # <<>> /\ Append(messages, m)[1] = messages[1]
            BY <2>3, <2>5, <3>1, AppendProperties
        <3> QED BY <2>4, <2>5, <3>2 DEF Headed
    <2>10. Unanswered(at + 1)' = Unanswered(at + 1)
        BY <2>1 DEF Unanswered, Id
    <2> QED BY <2>1, <2>5, <2>8, <2>9, <2>10 DEF RequestInv, Ended
<1>7. CASE RecordResult
    <2>1. /\ at \in DOMAIN calls /\ pc = "result" /\ UNCHANGED <<messages, base, answer>>
          /\ Headed(messages) /\ base >= 2 /\ Standing(messages, Unanswered(at + 1))
        BY <1>0, <1>7 DEF Marks, RecordResult, count, RequestInv, Ended
    <2>2. CASE at < Len(calls)
        <3>1. pc' = "answer" /\ at' = at + 1 /\ calls' = calls
            BY <1>7, <2>2 DEF RecordResult
        <3>2. Unanswered(at)' = Unanswered(at + 1)
            BY <2>1, <3>1 DEF Unanswered, Id
        <3> QED BY <2>1, <3>1, <3>2 DEF RequestInv, Ended
    <2>3. CASE ~(at < Len(calls))
        <3>1. pc' = "head"
            BY <1>7, <2>3 DEF RecordResult
        <3>2. at + 1..Len(calls) = {}
            BY <2>1, <2>3, RequestTypes
        <3>3. Unanswered(at + 1) = {}
            BY <3>2 DEF Unanswered
        <3> QED BY <2>1, <3>1, <3>3 DEF RequestInv, Ended
    <2> QED BY <2>2, <2>3
<1> QED BY <1>1, <1>2, <1>3, <1>4, <1>5, <1>6, <1>7

(* Every step keeps the waiting calls, while the prefix is plain.          *)
LEMMA RequestInvNext ==
    AnswersInv /\ RequestInv /\ PrefixIsPlain /\ [Next]_vars => RequestInv'
<1> SUFFICES ASSUME AnswersInv, RequestInv, PrefixIsPlain, [Next]_vars PROVE RequestInv'
    OBVIOUS
<1>1. RunInv'
    BY RunInvNext DEF AnswersInv, TurnInv
<1>2. CASE UNCHANGED vars
    BY <1>2, OthersKeepRequests DEF Rest, vars, exec, history, count, RequestInv, Unanswered, Id
<1>3. CASE Boot
    BY <1>3, BootKeepsRequests
<1>4. CASE Begin
    BY <1>4, BeginKeepsRequests
<1>5. CASE NextCall \/ MoreArguments \/ StreamEnds \/ Overflow
           \/ ProtocolRecovered \/ ProtocolFailed \/ StreamFailed
    BY <1>1, <1>5, StreamKeepsRequests
<1>6. CASE \/ OutOfIterations \/ SayTurn \/ SayCall \/ Remember \/ Finish
           \/ AwaitEarly \/ AwaitCancelled \/ LeaveForLater \/ Collected
           \/ NextBatch \/ Enter \/ ToolEnds \/ Pause \/ Executed
           \/ RecordOutput \/ RecordResult \/ Stop \/ Resume \/ Rest
    BY <1>6, OthersKeepRequests
<1> QED BY <1>2, <1>3, <1>4, <1>5, <1>6 DEF Next, Loop

(* As long as no block has come into the prefix, every request is one a    *)
(* provider accepts: whatever has been resumed, snipped, deduplicated,     *)
(* cleaned or fed back.                                                    *)
THEOREM RequestsStayWellFormed ==
    Spec /\ []PrefixIsPlain => []RequestsAreWellFormed
<1>1. Init => AnswersInv /\ RequestInv
    BY AnswersInvInit DEF Init, RequestInv
<1>2. AnswersInv /\ [Next]_vars => AnswersInv'
    BY AnswersInvNext
<1>3. AnswersInv /\ RequestInv /\ PrefixIsPlain /\ [Next]_vars => RequestInv'
    BY RequestInvNext
<1>4. AnswersInv /\ RequestInv => RequestsAreWellFormed
    <2> SUFFICES ASSUME AnswersInv, RequestInv, pc = "stream" PROVE WellFormed(messages)
        BY DEF RequestsAreWellFormed
    <2>1. messages \in Seq(Message) /\ Standing(messages, {})
        BY RequestTypes DEF RequestInv
    <2> QED BY <2>1, StandingIsWellFormed
<1> QED BY <1>1, <1>2, <1>3, <1>4, PTL DEF Spec

-----------------------------------------------------------------------------
(* s is how t begins.                                                      *)
Begins(s, t) == Len(s) <= Len(t) /\ \A k \in 1..Len(s) : t[k] = s[k]

(* What a list begins with it begins with for as long as it only grows.    *)
LEMMA GrowsOn ==
    ASSUME NEW l \in Nat, NEW g, \A k \in 0..l : Len(g[k]) \in Nat,
           \A k \in 1..l : Begins(g[k - 1], g[k]), NEW j \in 0..l
    PROVE  Begins(g[j], g[l])
<1> DEFINE P == {k \in 0..l : k < j \/ Begins(g[j], g[k])}
<1>1. 0 \in P
    <2>1. j = 0 \/ 0 < j
        OBVIOUS
    <2>2. Begins(g[0], g[0])
        BY DEF Begins
    <2> QED BY <2>1, <2>2
<1>2. ASSUME NEW k \in 1..l, k - 1 \in P PROVE k \in P
    <2>1. k \in 0..l /\ k - 1 \in 0..l
        OBVIOUS
    <2>2. CASE k < j
        BY <2>1, <2>2
    <2>3. CASE k = j
        BY <2>1, <2>3 DEF Begins
    <2>4. CASE k > j
        <3>1. Begins(g[j], g[k - 1]) /\ Begins(g[k - 1], g[k])
            BY <1>2, <2>4
        <3>2. Len(g[j]) \in Nat /\ Len(g[k - 1]) \in Nat /\ Len(g[k]) \in Nat
            BY <2>1
        <3>3. Len(g[j]) <= Len(g[k])
            BY <3>1, <3>2 DEF Begins
        <3>4. ASSUME NEW i \in 1..Len(g[j]) PROVE g[k][i] = g[j][i]
            <4>1. i \in 1..Len(g[k - 1])
                BY <3>1, <3>2 DEF Begins
            <4> QED BY <3>1, <4>1 DEF Begins
        <3>5. Begins(g[j], g[k])
            BY <3>3, <3>4 DEF Begins
        <3> QED BY <2>1, <3>5
    <2> QED BY <2>1, <2>2, <2>3, <2>4
<1>3. 0..l \subseteq P
    <2> HIDE DEF P
    <2> QED BY <1>1, <1>2, UpTo
<1>4. l \in P /\ ~(l < j)
    BY <1>3
<1> QED BY <1>4

(* A message more is an added end.                                         *)
LEMMA AppendBegins ==
    ASSUME NEW s \in Seq(Message), NEW m \in Message
    PROVE  /\ Append(s, m) \in Seq(Message) /\ Len(Append(s, m)) = Len(s) + 1
           /\ Begins(s, Append(s, m)) /\ Append(s, m)[Len(s) + 1] = m /\ Len(s) \in Nat
<1> HIDE DEF Message
<1>1. Len(s) \in Nat
    BY LenProperties
<1>2. /\ Append(s, m) \in Seq(Message) /\ Len(Append(s, m)) = Len(s) + 1
      /\ (\A k \in 1..Len(s) : Append(s, m)[k] = s[k]) /\ Append(s, m)[Len(s) + 1] = m
    BY AppendProperties
<1> QED BY <1>1, <1>2 DEF Begins

(* The note of a prefetch, and the system messages a history opens with.   *)
Fetched    == Note("prefetch")
Leading(m) == m.role = "system" /\ m \notin {System, Artifact}

(* A history opens with the prompt, and behind it with system messages of  *)
(* which no two neighbours are equal, as far as a prefix of four is        *)
(* concerned; the rest of that prefix is silent.                           *)
Opening(s, b) ==
    /\ Len(s) >= 2 /\ s[1] = System /\ Leading(s[2])
    /\ b < 3 => s[2] # Fetched
    /\ b >= 3 => /\ Len(s) >= 3 /\ Silent(s[3])
                 /\ b = 3 /\ s[2] = Fetched => Leading(s[3]) /\ s[3] # Fetched
    /\ b >= 4 => Len(s) >= 4 /\ Leading(s[3]) /\ s[3] # s[2] /\ Silent(s[4])

(* It does so still when notes that are equal may stand side by side.      *)
Firm(s, b) ==
    /\ Len(s) >= 2 /\ s[1] = System /\ Leading(s[2])
    /\ b < 3 => s[2] # Fetched
    /\ b = 3 /\ s[2] = Fetched => Len(s) >= 3 /\ Leading(s[3]) /\ s[3] # Fetched
    /\ b >= 4 => /\ Len(s) >= 3 /\ Leading(s[3])
                 /\ s[3] = s[2] => Len(s) >= 4 /\ Leading(s[4]) /\ s[4] # s[3]

(* As many messages of the prefix count.                                   *)
Counting(b) == IF b <= 4 THEN b ELSE 4

(* What is said of the opening is said of these messages.                  *)
LEMMA OpeningCopies ==
    ASSUME NEW s \in Seq(Message), NEW b \in Nat, b >= 2, Opening(s, b), NEW t,
           Len(t) \in Nat, Len(t) >= Counting(b), \A k \in 1..Counting(b) : t[k] = s[k]
    PROVE  Opening(t, b)
<1>1. 1 \in 1..Counting(b) /\ 2 \in 1..Counting(b) /\ Len(t) >= 2
    BY DEF Counting
<1>2. b >= 3 => 3 \in 1..Counting(b) /\ Len(t) >= 3
    BY DEF Counting
<1>3. b >= 4 => 4 \in 1..Counting(b) /\ Len(t) >= 4
    BY DEF Counting
<1>4. b = 3 => b >= 3
    OBVIOUS
<1>5. b >= 4 => b >= 3
    OBVIOUS
<1>6. t[1] = s[1] /\ t[2] = s[2] /\ (b >= 3 => t[3] = s[3]) /\ (b >= 4 => t[4] = s[4])
    BY <1>1, <1>2, <1>3
<1> QED BY <1>1, <1>2, <1>3, <1>4, <1>5, <1>6 DEF Opening

(* The same when equal notes may stand side by side.                       *)
LEMMA FirmCopies ==
    ASSUME NEW s \in Seq(Message), NEW b \in Nat, b >= 2, Firm(s, b), NEW t,
           Len(t) \in Nat, Len(t) >= b, \A k \in 1..b : t[k] = s[k]
    PROVE  Firm(t, b)
<1>1. 1 \in 1..b /\ 2 \in 1..b /\ Len(t) >= 2
    OBVIOUS
<1>2. b >= 3 => 3 \in 1..b /\ Len(t) >= 3
    OBVIOUS
<1>3. b >= 4 => 4 \in 1..b /\ Len(t) >= 4
    OBVIOUS
<1>4. (b = 3 => b >= 3) /\ (b >= 4 => b >= 3)
    OBVIOUS
<1>6. t[1] = s[1] /\ t[2] = s[2] /\ (b >= 3 => t[3] = s[3]) /\ (b >= 4 => t[4] = s[4])
    BY <1>1, <1>2, <1>3
<1> QED BY <1>1, <1>2, <1>3, <1>4, <1>6 DEF Firm

(* A leading message is silent, and the opening is.                        *)
LEMMA LeadingIsSilent ==
    ASSUME NEW m \in Message, m.role = "system" PROVE Silent(m)
BY DEF Message, Silent

(* Every message of the opening is silent, and there is one for each.      *)
LEMMA OpeningIsSilent ==
    ASSUME NEW s \in Seq(Message), NEW b \in Nat, b >= 2, Opening(s, b)
    PROVE  /\ Firm(s, b) /\ Counting(b) \in 1..Len(s) /\ Len(s) \in Nat
           /\ \A k \in 1..Counting(b) : Silent(s[k])
<1>1. Len(s) \in Nat /\ \A k \in 1..Len(s) : s[k] \in Message
    <2> HIDE DEF Message
    <2> QED BY ElementOfSeq, LenProperties
<1>2. Firm(s, b)
    <2>1. b = 3 => b >= 3
        OBVIOUS
    <2> QED BY <2>1, <1>1 DEF Opening, Firm
<1>3. Len(s) >= 2 /\ (b >= 3 => Len(s) >= 3) /\ (b >= 4 => Len(s) >= 4)
    BY DEF Opening
<1>4. Counting(b) \in 1..Len(s)
    BY <1>1, <1>3 DEF Counting
<1>5. Silent(s[1]) /\ Silent(s[2])
    <2>1. 2 \in 1..Len(s)
        BY <1>1, <1>3
    <2>2. s[2].role = "system" /\ s[1] = System
        BY DEF Opening, Leading
    <2> HIDE DEF Message
    <2> QED BY <1>1, <2>1, <2>2, LeadingIsSilent, NotesAreSilent
<1>6. (b >= 3 => Silent(s[3])) /\ (b >= 4 => Silent(s[4]))
    BY DEF Opening
<1>7. \A k \in 1..Counting(b) : k = 1 \/ k = 2 \/ (k = 3 /\ b >= 3) \/ (k = 4 /\ b >= 4)
    BY DEF Counting
<1> QED BY <1>1, <1>2, <1>4, <1>5, <1>6, <1>7

-----------------------------------------------------------------------------
(* Firmness is seen from a number of leading messages.                     *)
LEMMA FirmReach ==
    ASSUME NEW s \in Seq(Message), NEW b \in Nat, b >= 2, Firm(s, b)
    PROVE  \E n \in 2..Len(s) :
              /\ \A k \in 2..n : Leading(s[k])
              /\ \A t : Len(t) \in Nat /\ Len(t) >= n /\ (\A k \in 1..n : t[k] = s[k]) => Firm(t, b)
<1> DEFINE R(n) == /\ \A k \in 2..n : Leading(s[k])
                   /\ \A t : Len(t) \in Nat /\ Len(t) >= n /\ (\A k \in 1..n : t[k] = s[k])
                                => Firm(t, b)
<1>1. Len(s) \in Nat
    <2> HIDE DEF Message
    <2> QED BY LenProperties
<1>2. Len(s) >= 2 /\ s[1] = System /\ Leading(s[2])
    BY DEF Firm
<1>3. \A k \in 2..2 : k = 2
    OBVIOUS
<1>4. \A k \in 2..3 : k = 2 \/ k = 3
    OBVIOUS
<1>5. \A k \in 2..4 : k = 2 \/ k = 3 \/ k = 4
    OBVIOUS
<1>6. CASE b < 3
    <2>1. s[2] # Fetched /\ ~(b = 3) /\ ~(b >= 4)
        BY <1>6 DEF Firm
    <2>2. ASSUME NEW t, Len(t) \in Nat, Len(t) >= 2, \A k \in 1..2 : t[k] = s[k]
          PROVE  Firm(t, b)
        <3>1. t[1] = s[1] /\ t[2] = s[2]
            BY <2>2
        <3> QED BY <1>2, <2>1, <2>2, <3>1 DEF Firm
    <2>3. R(2)
        BY <1>2, <1>3, <2>2
    <2>4. 2 \in 2..Len(s)
        BY <1>1, <1>2
    <2> QED BY <2>3, <2>4
<1>7. CASE b = 3 /\ s[2] # Fetched
    <2>1. ~(b < 3) /\ ~(b >= 4)
        BY <1>7
    <2>2. ASSUME NEW t, Len(t) \in Nat, Len(t) >= 2, \A k \in 1..2 : t[k] = s[k]
          PROVE  Firm(t, b)
        <3>1. t[1] = s[1] /\ t[2] = s[2]
            BY <2>2
        <3> QED BY <1>2, <1>7, <2>1, <2>2, <3>1 DEF Firm
    <2>3. R(2)
        BY <1>2, <1>3, <2>2
    <2>4. 2 \in 2..Len(s)
        BY <1>1, <1>2
    <2> QED BY <2>3, <2>4
<1>8. CASE b = 3 /\ s[2] = Fetched
    <2>1. ~(b < 3) /\ ~(b >= 4) /\ Len(s) >= 3 /\ Leading(s[3]) /\ s[3] # Fetched
        BY <1>8 DEF Firm
    <2>2. ASSUME NEW t, Len(t) \in Nat, Len(t) >= 3, \A k \in 1..3 : t[k] = s[k]
          PROVE  Firm(t, b)
        <3>1. t[1] = s[1] /\ t[2] = s[2] /\ t[3] = s[3] /\ Len(t) >= 2
            BY <2>2
        <3> QED BY <1>2, <2>1, <2>2, <3>1 DEF Firm
    <2>3. R(3)
        BY <1>2, <1>4, <2>1, <2>2
    <2>4. 3 \in 2..Len(s)
        BY <1>1, <2>1
    <2> QED BY <2>3, <2>4
<1>9. CASE b >= 4 /\ s[3] # s[2]
    <2>1. ~(b < 3) /\ ~(b = 3) /\ Len(s) >= 3 /\ Leading(s[3])
        BY <1>9 DEF Firm
    <2>2. ASSUME NEW t, Len(t) \in Nat, Len(t) >= 3, \A k \in 1..3 : t[k] = s[k]
          PROVE  Firm(t, b)
        <3>1. t[1] = s[1] /\ t[2] = s[2] /\ t[3] = s[3] /\ Len(t) >= 2
            BY <2>2
        <3> QED BY <1>2, <1>9, <2>1, <2>2, <3>1 DEF Firm
    <2>3. R(3)
        BY <1>2, <1>4, <2>1, <2>2
    <2>4. 3 \in 2..Len(s)
        BY <1>1, <2>1
    <2> QED BY <2>3, <2>4
<1>10. CASE b >= 4 /\ s[3] = s[2]
    <2>1. ~(b < 3) /\ ~(b = 3) /\ Leading(s[3]) /\ Len(s) >= 4 /\ Leading(s[4]) /\ s[4] # s[3]
        BY <1>10 DEF Firm
    <2>2. ASSUME NEW t, Len(t) \in Nat, Len(t) >= 4, \A k \in 1..4 : t[k] = s[k]
          PROVE  Firm(t, b)
        <3>1. t[1] = s[1] /\ t[2] = s[2] /\ t[3] = s[3] /\ t[4] = s[4] /\ Len(t) >= 2 /\ Len(t) >= 3
            BY <2>2
        <3> QED BY <1>2, <2>1, <2>2, <3>1 DEF Firm
    <2>3. R(4)
        BY <1>2, <1>5, <2>1, <2>2
    <2>4. 4 \in 2..Len(s)
        BY <1>1, <2>1
    <2> QED BY <2>3, <2>4
<1>11. b < 3 \/ b = 3 \/ b >= 4
    OBVIOUS
<1> QED BY <1>6, <1>7, <1>8, <1>9, <1>10, <1>11

(* Taking the artifact out leaves what stands before it.                   *)
LEMMA KeptBegins ==
    ASSUME NEW s \in Seq(Message), NEW n \in 0..Len(s), \A k \in 1..n : s[k] # Artifact
    PROVE  LET t == Kept(s, ToSet(s) \ {Artifact})
           IN  /\ t \in Seq(Message) /\ Len(t) >= n
               /\ \A k \in 1..n : t[k] = s[k]
               /\ \A k \in 1..Len(t) : t[k] # Artifact
<1> DEFINE l == Len(s)
           S == ToSet(s) \ {Artifact}
           t == Kept(s, S)
           X == {q \in Seq(Message) : \A k \in 1..Len(q) : q[k] # Artifact}
<1> SUFFICES /\ t \in Seq(Message) /\ Len(t) >= n
             /\ \A k \in 1..n : t[k] = s[k]
             /\ \A k \in 1..Len(t) : t[k] # Artifact
    OBVIOUS
<1>0. PICK g \in [0..Len(s) -> Seq(Message)] : Keeps(s, S, g)
    <2> HIDE DEF Message, S
    <2> QED BY MessagesKept
<1>1. /\ g \in [0..Len(s) -> Seq(Message)] /\ g[0] = <<>> /\ t = g[Len(s)]
      /\ \A k \in 1..Len(s) :
            g[k] = IF s[k] \in S THEN Append(g[k - 1], s[k]) ELSE g[k - 1]
    BY <1>0 DEF Keeps
<1> HIDE DEF t
<1>2. l \in Nat /\ (\A k \in 1..l : s[k] \in Message) /\ DOMAIN s = 1..l
    <2> HIDE DEF Message
    <2> QED BY ElementOfSeq, LenProperties
<1>3. \A k \in 1..l : s[k] \in S <=> s[k] # Artifact
    <2>1. \A k \in 1..l : s[k] \in ToSet(s)
        BY <1>2 DEF ToSet
    <2> QED BY <2>1
<1> HIDE DEF Message, S
<1>4. \A k \in 0..l : g[k] \in Seq(Message) /\ Len(g[k]) \in Nat
    BY <1>1, LenProperties
<1>5. ASSUME NEW k \in 1..l, g[k - 1] \in X
      PROVE  g[k] \in X
    <2>1. CASE s[k] \in S
        <3>1. g[k] = Append(g[k - 1], s[k]) /\ s[k] # Artifact /\ s[k] \in Message
            BY <1>1, <1>2, <1>3, <2>1
        <3>2. /\ g[k] \in Seq(Message) /\ Len(g[k]) = Len(g[k - 1]) + 1
              /\ \A i \in 1..Len(g[k - 1]) : g[k][i] = g[k - 1][i]
              /\ g[k][Len(g[k - 1]) + 1] = s[k] /\ Len(g[k - 1]) \in Nat
            BY <1>5, <3>1, AppendBegins DEF Begins
        <3>3. \A i \in 1..Len(g[k]) : i \in 1..Len(g[k - 1]) \/ i = Len(g[k - 1]) + 1
            BY <3>2
        <3> QED BY <1>5, <3>1, <3>2, <3>3
    <2>2. CASE s[k] \notin S
        <3>1. g[k] = g[k - 1]
            BY <1>1, <2>2
        <3> QED BY <1>5, <3>1
    <2> QED BY <2>1, <2>2
<1>6. g[0] \in X
    <2> DEFINE e == <<>>
    <2>1. e \in Seq(Message) /\ Len(e) = 0 /\ 1..0 = {}
        OBVIOUS
    <2>2. g[0] = e
        BY <1>1
    <2> HIDE DEF e
    <2> QED BY <2>1, <2>2
<1>7. \A k \in 0..l : g[k] \in X
    <2> HIDE DEF X, l
    <2> QED BY <1>2, <1>5, <1>6, FoldStays
<1>8. \A k \in 1..l : Begins(g[k - 1], g[k])
    <2> TAKE k \in 1..l
    <2>1. k - 1 \in 0..l
        BY <1>2
    <2>2. g[k - 1] \in Seq(Message) /\ s[k] \in Message /\ Len(g[k - 1]) \in Nat
        BY <1>2, <1>4, <2>1
    <2>3. g[k] = Append(g[k - 1], s[k]) \/ g[k] = g[k - 1]
        BY <1>1
    <2> QED BY <2>2, <2>3, AppendBegins DEF Begins
<1> DEFINE Y == {k \in 0..l : k <= n => Len(g[k]) = k /\ \A i \in 1..k : g[k][i] = s[i]}
<1>9. 0 \in Y
    <2>1. Len(g[0]) = 0 /\ 1..0 = {} /\ 0 \in 0..l
        BY <1>1, <1>2
    <2> QED BY <2>1
<1>10. ASSUME NEW k \in 1..l, k - 1 \in Y PROVE k \in Y
    <2>1. SUFFICES ASSUME k <= n PROVE Len(g[k]) = k /\ \A i \in 1..k : g[k][i] = s[i]
        BY <1>2
    <2>2. k \in 1..n /\ k - 1 <= n /\ k - 1 \in 0..l /\ (k - 1) + 1 = k
        BY <1>2, <2>1
    <2>3. Len(g[k - 1]) = k - 1 /\ \A i \in 1..k - 1 : g[k - 1][i] = s[i]
        BY <1>10, <2>2
    <2>4. g[k] = Append(g[k - 1], s[k])
        BY <1>1, <1>3, <2>2
    <2>5. g[k - 1] \in Seq(Message) /\ s[k] \in Message
        BY <1>2, <1>4, <2>2
    <2>6. /\ Len(g[k]) = k /\ (\A i \in 1..k - 1 : g[k][i] = g[k - 1][i]) /\ g[k][k] = s[k]
        BY <2>2, <2>3, <2>4, <2>5, AppendBegins DEF Begins
    <2>7. \A i \in 1..k : i \in 1..k - 1 \/ i = k
        OBVIOUS
    <2> QED BY <2>3, <2>6, <2>7
<1>11. n \in Y
    <2>1. 0..l \subseteq Y
        <3> HIDE DEF Y, l
        <3> QED BY <1>2, <1>9, <1>10, UpTo
    <2> QED BY <2>1
<1>12. Len(g[n]) = n /\ \A i \in 1..n : g[n][i] = s[i]
    BY <1>11
<1>13. Begins(g[n], g[l])
    <2> HIDE DEF l
    <2>1. n \in 0..l
        BY DEF l
    <2> QED BY <1>2, <1>4, <1>8, <2>1, GrowsOn
<1>14. l \in 0..l
    BY <1>2
<1> QED BY <1>1, <1>7, <1>12, <1>13, <1>14 DEF Begins

-----------------------------------------------------------------------------
(* Behind the system messages a history opens with stands the artifact.    *)
Armed(s, p) ==
    /\ p \in 2..Len(s) /\ p + 1 \in 2..Len(s)
    /\ s[p + 1] = Artifact /\ s[p] # Artifact /\ \A k \in 1..p + 1 : Silent(s[k])

(* Putting the artifact back leaves the prefix firm and arms the history. *)
LEMMA RearmedOpens ==
    ASSUME NEW s \in Seq(Message), NEW b \in Nat, b >= 2, Firm(s, b)
    PROVE  LET t == Rearmed(s) IN t \in Seq(Message) /\ Firm(t, b) /\ \E p \in Nat : Armed(t, p)
<1> DEFINE bare == Kept(s, ToSet(s) \ {Artifact})
           l    == Len(bare)
           K    == {k \in 1..l + 1 : k >= l \/ bare[k + 1].role # "system"}
           p    == Min(K)
           u    == UpToLen(bare, p) \o <<Artifact>> \o SubSeq(bare, p + 1, l)
           t    == Rearmed(s)
<1> SUFFICES t \in Seq(Message) /\ Firm(t, b) /\ \E q \in Nat : Armed(t, q)
    OBVIOUS
<1>1. PICK n \in 2..Len(s) :
            /\ \A k \in 2..n : Leading(s[k])
            /\ \A q : Len(q) \in Nat /\ Len(q) >= n /\ (\A k \in 1..n : q[k] = s[k]) => Firm(q, b)
    BY FirmReach
<1>2. Len(s) \in Nat /\ n \in 0..Len(s) /\ n \in Nat /\ n >= 2
    <2> HIDE DEF Message
    <2>1. Len(s) \in Nat
        BY LenProperties
    <2> QED BY <2>1
<1>3. \A k \in 1..n : s[k] # Artifact
    <2>1. \A k \in 1..n : k = 1 \/ k \in 2..n
        BY <1>2
    <2>2. s[1] = System /\ System # Artifact
        BY DEF Firm, System, Artifact, Plain
    <2> QED BY <1>1, <2>1, <2>2 DEF Leading
<1>4. /\ bare \in Seq(Message) /\ l >= n /\ (\A k \in 1..n : bare[k] = s[k])
      /\ \A k \in 1..l : bare[k] # Artifact
    BY <1>2, <1>3, KeptBegins
<1>5. t = u
    BY DEF Rearmed
<1> HIDE DEF bare
<1>6. l \in Nat /\ l >= 2 /\ \A k \in 1..l : bare[k] \in Message
    <2> HIDE DEF Message
    <2>1. l \in Nat /\ \A k \in 1..l : bare[k] \in Message
        BY <1>4, ElementOfSeq, LenProperties
    <2> QED BY <1>2, <1>4, <2>1
<1>7. p \in K /\ \A k \in K : p <= k
    <2>1. K \in SUBSET Nat /\ l \in K
        BY <1>6
    <2>2. K # {}
        BY <2>1
    <2> HIDE DEF K
    <2> QED BY <2>1, <2>2, MinIsMember
<1>8. p \in 1..l
    <2>1. l \in K
        BY <1>6
    <2>2. p <= l /\ p \in 1..l + 1
        BY <1>7, <2>1
    <2> HIDE DEF p, K
    <2> QED BY <1>6, <2>2
<1>9. ASSUME NEW k \in 2..p PROVE bare[k].role = "system"
    <2> DEFINE j == k - 1
    <2>1. j \in 1..l + 1 /\ j + 1 = k /\ ~(j >= l) /\ ~(p <= j)
        <3> HIDE DEF p
        <3> QED BY <1>6, <1>8
    <2>2. j \notin K
        BY <1>7, <2>1
    <2> HIDE DEF p, j
    <2> QED BY <2>1, <2>2
<1>10. p >= n
    <2> SUFFICES ASSUME p < n PROVE FALSE
        <3> HIDE DEF p
        <3> QED BY <1>2, <1>8
    <2>1. p + 1 \in 2..n /\ p < l /\ p + 1 \in 1..n
        <3> HIDE DEF p
        <3> QED BY <1>2, <1>4, <1>6, <1>8
    <2>2. bare[p + 1].role = "system"
        <3> HIDE DEF p
        <3> QED BY <1>1, <1>4, <2>1 DEF Leading
    <2>3. p >= l \/ bare[p + 1].role # "system"
        BY <1>7
    <2> HIDE DEF p
    <2> QED BY <1>6, <1>8, <2>1, <2>2, <2>3
<1> HIDE DEF p, K
<1>11. u \in Seq(Message) /\ IsInserted(bare, p, Artifact, u)
    <2>1. Artifact \in Message /\ p \in 0..l
        BY <1>6, <1>8, NotesAreMessages
    <2> HIDE DEF Message
    <2> QED BY <1>4, <2>1, PutBehind
<1> HIDE DEF u, t
<1>12. /\ t \in Seq(Message) /\ Len(t) = l + 1 /\ t[p + 1] = Artifact
       /\ \A k \in 1..p : t[k] = bare[k]
    BY <1>5, <1>11 DEF IsInserted
<1>13. Firm(t, b)
    <2>1. Len(t) \in Nat /\ Len(t) >= n
        BY <1>2, <1>4, <1>6, <1>12
    <2>2. \A k \in 1..n : k \in 1..p
        BY <1>2, <1>8, <1>10
    <2>3. \A k \in 1..n : t[k] = s[k]
        BY <1>4, <1>12, <2>2
    <2> QED BY <1>1, <2>1, <2>3
<1>14. Armed(t, p)
    <2>1. p \in 2..Len(t) /\ p + 1 \in 2..Len(t) /\ p \in 1..p
        BY <1>2, <1>6, <1>8, <1>10, <1>12
    <2>2. t[p] # Artifact
        BY <1>4, <1>8, <1>12, <2>1
    <2>3. ASSUME NEW k \in 1..p + 1 PROVE Silent(t[k])
        <3>1. k = 1 \/ k \in 2..p \/ k = p + 1
            BY <1>8
        <3>2. CASE k = 1
            <4>1. k \in 1..n /\ k \in 1..p
                BY <1>2, <1>8, <3>2
            <4>2. t[k] = System
                BY <1>4, <1>12, <3>2, <4>1 DEF Firm
            <4> QED BY <4>2, NotesAreSilent
        <3>3. CASE k \in 2..p
            <4>1. k \in 1..l /\ k \in 1..p
                BY <1>6, <1>8, <3>3
            <4>2. bare[k] \in Message /\ t[k] = bare[k] /\ bare[k].role = "system"
                BY <1>6, <1>9, <1>12, <3>3, <4>1
            <4> HIDE DEF Message
            <4> QED BY <4>2, LeadingIsSilent
        <3>4. CASE k = p + 1
            BY <1>12, <3>4, NotesAreSilent
        <3> QED BY <3>1, <3>2, <3>3, <3>4
    <2> QED BY <1>12, <2>1, <2>2, <2>3 DEF Armed
<1>15. p \in Nat
    BY <1>8
<1> QED BY <1>12, <1>13, <1>14, <1>15

-----------------------------------------------------------------------------
(* The dedupe leaves the opening as many messages as count, whichever of   *)
(* the leading messages are equal.                                         *)
LEMMA DedupedOpens ==
    ASSUME NEW s \in Seq(Message), NEW b \in Nat, b >= 2, Firm(s, b), NEW p \in Nat, Armed(s, p)
    PROVE  LET t == Deduped(s) IN t \in Seq(Message) /\ Opening(t, b)
<1> DEFINE l == Len(s)
           t == Deduped(s)
           X == {q \in Seq(Message) : \A i \in 1..Len(q) : Silent(q[i])}
<1> SUFFICES t \in Seq(Message) /\ Opening(t, b)
    OBVIOUS
<1>1. PICK g : /\ g[0] = <<>> /\ t = g[l]
               /\ \A k \in 1..l :
                     g[k] = IF k > 1 /\ s[k] = s[k - 1] THEN g[k - 1]
                            ELSE Append(g[k - 1], s[k])
    <2> HIDE DEF Message
    <2> QED BY DedupedFold
<1>2. l \in Nat /\ \A k \in 1..l : s[k] \in Message
    <2> HIDE DEF Message
    <2> QED BY ElementOfSeq, LenProperties
<1>3. /\ p \in 2..l /\ p + 1 \in 2..l /\ s[p + 1] = Artifact /\ s[p] # Artifact
      /\ \A k \in 1..p + 1 : Silent(s[k])
    BY DEF Armed
<1> HIDE DEF Message, t
<1>4. \A k \in 0..l : g[k] \in Seq(Message)
    <2> DEFINE Y == Seq(Message)
    <2>1. g[0] \in Y
        BY <1>1
    <2>2. ASSUME NEW k \in 1..l, g[k - 1] \in Y PROVE g[k] \in Y
        <3>1. g[k] = g[k - 1] \/ g[k] = Append(g[k - 1], s[k])
            BY <1>1
        <3>2. s[k] \in Message
            BY <1>2
        <3> QED BY <2>2, <3>1, <3>2, AppendProperties
    <2>3. \A k \in 0..l : g[k] \in Y
        <3> HIDE DEF Y, l
        <3> QED BY <1>2, <2>1, <2>2, FoldStays
    <2> QED BY <2>3
<1>5. \A k \in 0..l : Len(g[k]) \in Nat
    BY <1>4, LenProperties
<1>6. \A k \in 1..l : Begins(g[k - 1], g[k])
    <2> TAKE k \in 1..l
    <2>1. k - 1 \in 0..l
        BY <1>2
    <2>2. g[k - 1] \in Seq(Message) /\ s[k] \in Message /\ Len(g[k - 1]) \in Nat
        BY <1>2, <1>4, <1>5, <2>1
    <2>3. g[k] = Append(g[k - 1], s[k]) \/ g[k] = g[k - 1]
        BY <1>1
    <2> QED BY <2>2, <2>3, AppendBegins DEF Begins
<1>7. ASSUME NEW j \in 0..l, NEW k \in j..l PROVE Begins(g[j], g[k])
    <2>1. k \in Nat /\ j \in 0..k /\ \A i \in 0..k : i \in 0..l
        BY <1>2
    <2>2. \A i \in 1..k : i \in 1..l
        BY <1>2, <2>1
    <2> QED BY <1>5, <1>6, <2>1, <2>2, GrowsOn
<1>8. g[p + 1] \in X
    <2> DEFINE n == p + 1
    <2>1. n \in Nat /\ n \in 0..n /\ \A k \in 1..n : k \in 1..l /\ k - 1 \in 0..l
        BY <1>2, <1>3
    <2>2. g[0] \in X
        <3> DEFINE e == <<>>
        <3>1. e \in Seq(Message) /\ Len(e) = 0 /\ 1..0 = {}
            OBVIOUS
        <3>2. g[0] = e
            BY <1>1
        <3> HIDE DEF e
        <3> QED BY <3>1, <3>2
    <2>3. ASSUME NEW k \in 1..n, g[k - 1] \in X PROVE g[k] \in X
        <3>1. g[k] = g[k - 1] \/ g[k] = Append(g[k - 1], s[k])
            BY <1>1, <2>1
        <3>2. s[k] \in Message /\ Silent(s[k]) /\ g[k - 1] \in Seq(Message)
            BY <1>2, <1>3, <1>4, <2>1
        <3> DEFINE a == Append(g[k - 1], s[k])
        <3>3. /\ a \in Seq(Message) /\ Len(a) = Len(g[k - 1]) + 1 /\ Len(g[k - 1]) \in Nat
              /\ (\A i \in 1..Len(g[k - 1]) : a[i] = g[k - 1][i]) /\ a[Len(g[k - 1]) + 1] = s[k]
            BY <3>2, AppendBegins DEF Begins
        <3> HIDE DEF a
        <3>4. \A i \in 1..Len(a) : i \in 1..Len(g[k - 1]) \/ i = Len(g[k - 1]) + 1
            BY <3>3
        <3>5. a \in X
            BY <2>3, <3>2, <3>3, <3>4
        <3> QED BY <2>3, <3>1, <3>5 DEF a
    <2>4. \A k \in 0..n : g[k] \in X
        <3> HIDE DEF X, n
        <3> QED BY <2>1, <2>2, <2>3, FoldStays
    <2> QED BY <2>1, <2>4
<1>9. /\ Len(g[2]) = 2 /\ g[2][1] = System /\ g[2][2] = s[2]
    <2> DEFINE e == <<>>
    <2>0. e \in Seq(Message) /\ Len(e) = 0 /\ e = g[0]
        BY <1>1
    <2> HIDE DEF e
    <2>1. 1 \in 1..l /\ 2 \in 1..l /\ 1 \in 0..l /\ 2 - 1 = 1 /\ 1 - 1 = 0 /\ ~(1 > 1)
        BY <1>2, <1>3
    <2>2. s[1] = System /\ s[2] # s[1]
        BY DEF Firm, Leading
    <2>3. g[1] = Append(g[0], s[1]) /\ g[2] = Append(g[1], s[2])
        BY <1>1, <2>1, <2>2
    <2>4. g[0] \in Seq(Message) /\ g[1] \in Seq(Message) /\ s[1] \in Message /\ s[2] \in Message
        BY <1>2, <1>4, <2>0, <2>1
    <2>5. Len(g[1]) = 1 /\ g[1][1] = s[1]
        BY <2>0, <2>3, <2>4, AppendBegins
    <2>6. Len(g[2]) = 2 /\ g[2][1] = g[1][1] /\ g[2][2] = s[2]
        <3>1. 1 \in 1..Len(g[1])
            BY <2>5
        <3> QED BY <2>3, <2>4, <2>5, <3>1, AppendBegins DEF Begins
    <2> QED BY <2>2, <2>5, <2>6
<1>10. /\ Begins(g[2], g[p]) /\ Begins(g[p], g[p + 1]) /\ Begins(g[p + 1], t)
       /\ Len(g[p + 1]) = Len(g[p]) + 1 /\ t \in Seq(Message)
       /\ Len(g[p]) \in Nat /\ Len(g[p + 1]) \in Nat /\ Len(t) \in Nat
    <2>1. /\ 2 \in 0..l /\ p \in 2..l /\ p \in 0..l /\ p + 1 \in p..l /\ p + 1 \in 0..l
          /\ p + 1 \in 1..l /\ l \in p + 1..l /\ l \in 0..l /\ (p + 1) - 1 = p
        BY <1>2, <1>3
    <2>2. g[p + 1] = Append(g[p], s[p + 1])
        BY <1>1, <1>3, <2>1
    <2>3. g[p] \in Seq(Message) /\ s[p + 1] \in Message
        BY <1>2, <1>4, <2>1
    <2> QED BY <1>1, <1>4, <1>5, <1>7, <2>1, <2>2, <2>3, AppendBegins
<1> DEFINE w == g[p + 1]
<1>11. Len(w) >= 3 /\ Len(t) >= Len(w) /\ t[1] = System /\ t[2] = s[2]
       /\ \A i \in 1..Len(w) : t[i] = w[i] /\ Silent(t[i])
    <2>1. Len(w) >= 3 /\ Len(t) >= Len(w)
        BY <1>9, <1>10 DEF Begins
    <2>2. \A i \in 1..Len(w) : t[i] = w[i] /\ Silent(t[i])
        BY <1>8, <1>10 DEF Begins
    <2>3. 1 \in 1..Len(g[2]) /\ 2 \in 1..Len(g[2]) /\ 1 \in 1..Len(g[p]) /\ 2 \in 1..Len(g[p])
          /\ 1 \in 1..Len(w) /\ 2 \in 1..Len(w)
        BY <1>9, <1>10, <2>1 DEF Begins
    <2>4. g[p][1] = System /\ g[p][2] = s[2]
        BY <1>9, <1>10, <2>3 DEF Begins
    <2>5. w[1] = System /\ w[2] = s[2]
        BY <1>10, <2>3, <2>4 DEF Begins
    <2> QED BY <2>1, <2>2, <2>3, <2>5
<1>12. ASSUME NEW j \in 3..p, Len(g[j]) = 3
       PROVE  Len(w) >= 4 /\ t[3] = g[j][3]
    <2>1. j \in 0..l /\ p \in j..l /\ 3 \in 1..3
        BY <1>2, <1>3
    <2>2. Begins(g[j], g[p])
        BY <1>7, <2>1
    <2>3. Len(g[p]) >= 3 /\ g[p][3] = g[j][3]
        BY <1>12, <2>1, <2>2 DEF Begins
    <2>4. 3 \in 1..Len(g[p]) /\ 3 \in 1..Len(w) /\ Len(w) >= 4
        BY <1>10, <2>3
    <2>5. w[3] = g[p][3] /\ t[3] = w[3]
        BY <1>10, <2>4 DEF Begins
    <2> QED BY <2>3, <2>4, <2>5
<1>13. ASSUME Len(s) >= 3, Leading(s[3]), s[3] # s[2]
       PROVE  Len(w) >= 4 /\ t[3] = s[3]
    <2>1. p # 2
        BY <1>3, <1>13 DEF Leading
    <2>2. 3 \in 3..p /\ 3 \in 1..l /\ 2 \in 0..l /\ 3 - 1 = 2
        BY <1>2, <1>3, <2>1
    <2>3. g[3] = Append(g[2], s[3]) /\ g[2] \in Seq(Message) /\ s[3] \in Message
        BY <1>1, <1>2, <1>4, <1>13, <2>2
    <2>4. Len(Append(g[2], s[3])) = Len(g[2]) + 1 /\ Append(g[2], s[3])[Len(g[2]) + 1] = s[3]
        BY <2>3, AppendBegins
    <2>5. Len(g[3]) = 3 /\ g[3][3] = s[3]
        BY <1>9, <2>3, <2>4
    <2> QED BY <1>12, <2>2, <2>5
<1>14. ASSUME Len(s) >= 4, Leading(s[3]), s[3] = s[2], Leading(s[4]), s[4] # s[3]
       PROVE  Len(w) >= 4 /\ t[3] = s[4]
    <2>1. p # 2 /\ p # 3
        BY <1>3, <1>14 DEF Leading
    <2>2. 4 \in 3..p /\ 4 \in 1..l /\ 3 \in 1..l /\ 2 \in 0..l /\ 3 - 1 = 2 /\ 4 - 1 = 3 /\ 3 > 1
        BY <1>2, <1>3, <2>1
    <2>3. g[3] = g[2] /\ g[4] = Append(g[3], s[4]) /\ g[2] \in Seq(Message) /\ s[4] \in Message
        BY <1>1, <1>2, <1>4, <1>14, <2>2
    <2>4. Len(g[4]) = 3 /\ g[4][3] = s[4]
        BY <1>9, <2>3, AppendBegins
    <2> QED BY <1>12, <2>2, <2>4
<1> HIDE DEF w
<1>15. Len(w) \in Nat
    BY <1>10 DEF w
<1>16. Len(t) >= 2 /\ t[1] = System /\ Leading(t[2]) /\ (b < 3 => t[2] # Fetched)
    BY <1>10, <1>11, <1>15 DEF Firm
<1>17. Len(t) >= 3 /\ Silent(t[3])
    <2>1. 3 \in 1..Len(w)
        BY <1>11, <1>15
    <2> QED BY <1>10, <1>11, <1>15, <2>1
<1>18. b = 3 /\ t[2] = Fetched => Leading(t[3]) /\ t[3] # Fetched
    <2> SUFFICES ASSUME b = 3, t[2] = Fetched PROVE Leading(t[3]) /\ t[3] # Fetched
        OBVIOUS
    <2>1. s[2] = Fetched
        BY <1>11
    <2>2. Len(s) >= 3 /\ Leading(s[3]) /\ s[3] # Fetched
        BY <2>1 DEF Firm
    <2> QED BY <1>13, <2>1, <2>2
<1>19. b >= 4 => Len(t) >= 4 /\ Leading(t[3]) /\ t[3] # t[2] /\ Silent(t[4])
    <2> SUFFICES ASSUME b >= 4
                 PROVE  Len(t) >= 4 /\ Leading(t[3]) /\ t[3] # t[2] /\ Silent(t[4])
        OBVIOUS
    <2>1. /\ Len(s) >= 3 /\ Leading(s[3])
          /\ s[3] = s[2] => Len(s) >= 4 /\ Leading(s[4]) /\ s[4] # s[3]
        BY DEF Firm
    <2>2. Len(w) >= 4 /\ Leading(t[3]) /\ t[3] # t[2]
        BY <1>11, <1>13, <1>14, <2>1
    <2>3. 4 \in 1..Len(w) /\ Len(t) >= 4
        BY <1>10, <1>11, <1>15, <2>2
    <2> QED BY <1>11, <2>2, <2>3
<1> QED BY <1>10, <1>16, <1>17, <1>18, <1>19 DEF Opening

-----------------------------------------------------------------------------
(* The snip keeps the prefix.                                              *)
LEMMA SnippedIsFirm ==
    ASSUME NEW s \in Seq(Message), NEW b \in Nat, b >= 2, Firm(s, b)
    PROVE  LET t == Snipped(s, b) IN t \in Seq(Message) /\ Firm(t, b)
<1> DEFINE l == Len(s)
           f == l - SnipTail
           m == Note("snip")
           a == UpToLen(s, b)
           c == SubSeq(s, f + 1, l)
           t == a \o <<m>> \o c
<1>1. l \in Nat /\ SnipTail \in Nat
    <2> HIDE DEF Message
    <2> QED BY LenProperties, TurnAssumption
<1>2. CASE l <= SnipTrigger \/ l <= b + SnipTail
    BY <1>2 DEF Snipped
<1>3. CASE ~(l <= SnipTrigger \/ l <= b + SnipTail)
    <2>1. Snipped(s, b) = t
        BY <1>3 DEF Snipped
    <2>2. l > b + SnipTail
        BY <1>1, <1>3
    <2>3. /\ f \in Nat /\ b < f /\ f <= l /\ f + 1 \in 1..l + 1 /\ l \in (f + 1) - 1..l
          /\ 1 \in 1..l + 1 /\ b \in 1 - 1..l /\ b + 1 - 1 = b /\ l + 1 - (f + 1) = l - f
          /\ l - f \in Nat
        BY <1>1, <2>2
    <2> HIDE DEF f
    <2>4. a = SubSeq(s, 1, b)
        <3>1. b < l
            BY <1>1, <2>3
        <3> QED BY <3>1 DEF UpToLen
    <2>5. a \in Seq(Message) /\ Len(a) = b /\ \A i \in 1..b : a[i] = s[1 + i - 1]
        BY <2>3, <2>4, PartHolds
    <2>6. c \in Seq(Message) /\ Len(c) = l - f
        BY <2>3, PartHolds
    <2>7. m \in Message
        BY NotesAreMessages DEF Tags
    <2> HIDE DEF a, c, m
    <2>8. /\ t \in Seq(Message) /\ Len(t) = Len(a) + 1 + Len(c)
          /\ \A k \in 1..Len(a) : t[k] = a[k]
        <3>1. a \in Seq(Message) /\ c \in Seq(Message) /\ m \in Message
            BY <2>5, <2>6, <2>7
        <3>2. LET r == a \o <<m>> \o c
              IN  /\ r \in Seq(Message) /\ Len(r) = Len(a) + 1 + Len(c) /\ r[Len(a) + 1] = m
                  /\ \A k \in 1..Len(a) : r[k] = a[k]
                  /\ \A i \in 1..Len(c) : r[Len(a) + 1 + i] = c[i]
            BY ONLY <3>1, ThreeParts
        <3> QED BY ONLY <3>2 DEF t
    <2> HIDE DEF t
    <2>9. Len(t) \in Nat /\ Len(t) >= b /\ \A k \in 1..b : t[k] = s[k]
        <3>1. \A k \in 1..b : 1 + k - 1 = k
            OBVIOUS
        <3> QED BY <2>3, <2>5, <2>6, <2>8, <3>1
    <2>10. Firm(t, b)
        BY <2>9, FirmCopies
    <2> QED BY <2>1, <2>8, <2>10
<1> QED BY <1>2, <1>3

(* The memory behind the prompt leads, and moves a note it does not equal. *)
LEMMA RemindedIsFirm ==
    ASSUME NEW s \in Seq(Message), NEW b \in Nat, b >= 2, Firm(s, b), NEW mem
    PROVE  LET t == Reminded(s, mem) IN t \in Seq(Message) /\ Firm(t, b)
<1> DEFINE l == Len(s)
           t == Reminded(s, mem)
           w == <<s[1], Memory>>
           f == IF s[2] = Memory THEN 3 ELSE 2
           c == SubSeq(s, f, l)
           r == w \o c
<1>1. l \in Nat /\ l >= 2 /\ s[1] = System /\ Leading(s[2])
    <2>1. l \in Nat
        <3> HIDE DEF Message
        <3> QED BY LenProperties
    <2> QED BY <2>1 DEF Firm
<1>2. CASE ~mem
    BY <1>2 DEF Reminded
<1>3. CASE mem
    <2>1. t = r
        <3>1. Len(s) > 1
            BY <1>1
        <3> QED BY <1>3, <3>1 DEF Reminded
    <2>2. w \in Seq(Message) /\ Len(w) = 2 /\ w[1] = s[1] /\ w[2] = Memory
        <3>1. s[1] \in Message /\ Memory \in Message
            BY <1>1, NotesAreMessages
        <3> HIDE DEF Message
        <3> QED BY <3>1
    <2>3. f \in 1..l + 1 /\ l \in f - 1..l /\ l + 1 - f \in Nat
        BY <1>1
    <2>4. c \in Seq(Message) /\ Len(c) = l + 1 - f /\ \A i \in 1..l + 1 - f : c[i] = s[f + i - 1]
        <3> HIDE DEF f
        <3> QED BY <2>3, PartHolds
    <2>5. /\ r \in Seq(Message) /\ Len(r) = Len(w) + Len(c)
          /\ \A i \in 1..Len(w) + Len(c) : r[i] = IF i <= Len(w) THEN w[i] ELSE c[i - Len(w)]
        <3> HIDE DEF w, c
        <3> QED BY <2>2, <2>4, ConcatProperties
    <2> HIDE DEF r, w, c, t
    <2>6. /\ Len(r) = l + 3 - f /\ r[1] = System /\ r[2] = Memory
          /\ \A k \in 3..l + 3 - f : r[k] = s[k + f - 3]
        <3>1. Len(r) = l + 3 - f /\ 1 \in 1..l + 3 - f /\ 2 \in 1..l + 3 - f
            BY <1>1, <2>2, <2>3, <2>4, <2>5
        <3>2. r[1] = System /\ r[2] = Memory
            BY <1>1, <2>2, <2>5, <3>1
        <3>3. ASSUME NEW k \in 3..l + 3 - f PROVE r[k] = s[k + f - 3]
            <4>1. k \in 1..l + 3 - f /\ ~(k <= 2) /\ k - 2 \in 1..l + 1 - f
                  /\ f + (k - 2) - 1 = k + f - 3
                BY <1>1, <2>3
            <4> HIDE DEF f
            <4>2. r[k] = c[k - 2]
                BY <2>2, <2>5, <3>1, <4>1
            <4> QED BY <2>4, <4>1, <4>2
        <3> QED BY <3>1, <3>2, <3>3
    <2>7. Leading(Memory) /\ Memory # Fetched /\ Len(r) >= 2 /\ Len(r) \in Nat
        <3>1. Leading(Memory) /\ Memory # Fetched
            BY DEF Leading, Fetched, Note, Memory, System, Artifact, Plain
        <3> QED BY <1>1, <2>3, <2>6, <3>1
    <2>8. ASSUME b >= 4
          PROVE  /\ Len(r) >= 3 /\ Leading(r[3])
                 /\ r[3] = r[2] => Len(r) >= 4 /\ Leading(r[4]) /\ r[4] # r[3]
        <3>1. /\ Len(s) >= 3 /\ Leading(s[3])
              /\ s[3] = s[2] => Len(s) >= 4 /\ Leading(s[4]) /\ s[4] # s[3]
            BY <2>8 DEF Firm
        <3>2. CASE s[2] = Memory
            <4>1. Len(r) = l /\ \A k \in 3..l : r[k] = s[k]
                <5>1. f = 3
                    BY <3>2
                <5>2. l + 3 - f = l /\ \A k \in 3..l : k + f - 3 = k
                    BY <1>1, <5>1
                <5> HIDE DEF f
                <5> QED BY <2>6, <5>2
            <4>2. 3 \in 3..l /\ (l >= 4 => 4 \in 3..l)
                BY <1>1, <3>1
            <4>3. r[3] = s[3] /\ (l >= 4 => r[4] = s[4])
                BY <4>1, <4>2
            <4> QED BY <2>6, <3>1, <3>2, <4>1, <4>3
        <3>3. CASE s[2] # Memory
            <4>1. Len(r) = l + 1 /\ r[3] = s[2]
                <5>1. f = 2
                    BY <3>3
                <5>2. l + 3 - f = l + 1 /\ 3 \in 3..l + 3 - f /\ 3 + f - 3 = 2
                    BY <1>1, <5>1
                <5> HIDE DEF f
                <5> QED BY <2>6, <5>2
            <4>2. Len(r) >= 3
                BY <1>1, <4>1
            <4> QED BY <1>1, <2>6, <3>3, <4>1, <4>2
        <3> QED BY <3>2, <3>3
    <2>9. Firm(r, b)
        BY <2>6, <2>7, <2>8 DEF Firm
    <2> QED BY <2>1, <2>5, <2>9 DEF t
<1> HIDE DEF t
<1>4. t \in Seq(Message) /\ Firm(t, b)
    BY <1>2, <1>3 DEF t
<1> QED BY <1>4 DEF t

(* What is said by nobody's tool stays as it is.                           *)
LEMMA DowngradedOpens ==
    ASSUME NEW s \in Seq(Message), NEW b \in Nat, b >= 2, Opening(s, b)
    PROVE  Opening(Downgraded(s), b)
<1> DEFINE t == Downgraded(s)
<1>1. /\ Counting(b) \in 1..Len(s) /\ Len(s) \in Nat
      /\ \A k \in 1..Counting(b) : Silent(s[k])
    BY OpeningIsSilent
<1>2. DOMAIN s = 1..Len(s)
    <2> HIDE DEF Message
    <2> QED BY LenProperties
<1>3. Len(t) = Len(s)
    BY <1>1, <1>2 DEF Downgraded
<1>4. \A k \in 1..Counting(b) : t[k] = s[k]
    <2> TAKE k \in 1..Counting(b)
    <2>1. k \in 1..Len(s) /\ s[k].role # "tool"
        BY <1>1 DEF Silent
    <2> QED BY <1>2, <2>1 DEF Downgraded
<1> HIDE DEF t
<1>5. Len(t) \in Nat /\ Len(t) >= Counting(b)
    BY <1>1, <1>3
<1>6. Opening(t, b)
    BY <1>4, <1>5, OpeningCopies
<1> QED BY <1>6 DEF t

(* The whole pipeline.                                                     *)
LEMMA PipelineOpens ==
    ASSUME NEW s \in Seq(Message), NEW b \in Nat, b >= 2, Firm(s, b), NEW mem, NEW pressed
    PROVE  Opening(Pipeline(s, b, mem, pressed), b)
<1> DEFINE u == IF pressed THEN Snipped(s, b) ELSE s
           v == Reminded(u, mem)
           w == Rearmed(v)
           x == Deduped(w)
<1>1. u \in Seq(Message) /\ Firm(u, b)
    BY SnippedIsFirm
<1> HIDE DEF u
<1>2. v \in Seq(Message) /\ Firm(v, b)
    BY <1>1, RemindedIsFirm
<1> HIDE DEF v
<1>3. w \in Seq(Message) /\ Firm(w, b) /\ \E p \in Nat : Armed(w, p)
    BY <1>2, RearmedOpens
<1> HIDE DEF w
<1>4. x \in Seq(Message) /\ Opening(x, b)
    BY <1>3, DedupedOpens
<1> HIDE DEF x
<1>5. Opening(Downgraded(x), b)
    BY <1>4, DowngradedOpens
<1> QED BY <1>5 DEF Pipeline, x, w, v, u

-----------------------------------------------------------------------------
(* A prefetch puts its note before the last message of the prefix.         *)
LEMMA PrefetchedInserts ==
    ASSUME NEW s \in Seq(Message), Len(s) \in Nat \ {0}, NEW b \in Nat, b >= 2
    PROVE  LET t == Prefetched(s, b)
               p == IF b - 1 < Len(s) THEN b - 1 ELSE Len(s)
           IN  t \in Seq(Message) /\ IsInserted(s, p, Fetched, t)
<1> DEFINE l == Len(s)
           p == IF b - 1 < l THEN b - 1 ELSE l
           m == Fetched
           t == Prefetched(s, b)
           u == UpToLen(s, p) \o <<m>> \o SubSeq(s, p + 1, l)
<1> SUFFICES t \in Seq(Message) /\ IsInserted(s, p, m, t)
    OBVIOUS
<1>1. p \in 0..l
    OBVIOUS
<1>2. t = u
    <2>1. UpToLen(s, b - 1) = UpToLen(s, p)
        BY DEF UpToLen
    <2>2. SubSeq(s, b, l) = SubSeq(s, p + 1, l)
        <3>1. CASE b - 1 < l
            <4>1. p + 1 = b
                BY <3>1
            <4> QED BY <4>1
        <3>2. CASE ~(b - 1 < l)
            <4>1. p + 1 = l + 1 /\ l + 1 \in Int /\ l \in Int /\ b \in Int /\ l < b /\ l < l + 1
                BY <3>2
            <4>2. SubSeq(s, b, l) = <<>> /\ SubSeq(s, l + 1, l) = <<>>
                BY ONLY <4>1, SubSeqEmpty
            <4> QED BY ONLY <4>1, <4>2
        <3> QED BY <3>1, <3>2
    <2> HIDE DEF p
    <2> QED BY <2>1, <2>2 DEF Prefetched, Fetched
<1>3. m \in Message
    BY NotesAreMessages DEF Tags, Fetched
<1> HIDE DEF p, m
<1>4. u \in Seq(Message) /\ IsInserted(s, p, m, u)
    <2> HIDE DEF Message
    <2> QED BY <1>1, <1>3, PutBehind
<1> QED BY <1>2, <1>4

(* The note may stand beside an equal one, but not in a longer row.        *)
LEMMA PrefetchedIsFirm ==
    ASSUME NEW s \in Seq(Message), NEW b \in Nat, b >= 2, Opening(s, b)
    PROVE  LET t == Prefetched(s, b) IN t \in Seq(Message) /\ Firm(t, b + 1)
<1> DEFINE l == Len(s)
           p == IF b - 1 < l THEN b - 1 ELSE l
           t == Prefetched(s, b)
<1>1. /\ l \in Nat /\ l >= 2 /\ s[1] = System /\ Leading(s[2])
      /\ (b >= 3 => l >= 3) /\ (b >= 4 => l >= 4)
    <2>1. l \in Nat
        BY OpeningIsSilent
    <2> QED BY <2>1 DEF Opening
<1>2. t \in Seq(Message) /\ IsInserted(s, p, Fetched, t)
    <2>1. l \in Nat \ {0}
        BY <1>1
    <2> HIDE DEF Message, t, p
    <2>2. LET r == Prefetched(s, b)
              q == IF b - 1 < Len(s) THEN b - 1 ELSE Len(s)
          IN  r \in Seq(Message) /\ IsInserted(s, q, Fetched, r)
        BY <2>1, PrefetchedInserts
    <2> QED BY <2>2 DEF t, p
<1>3. /\ p \in 1..l /\ (b = 2 => p = 1) /\ (b = 3 => p = 2) /\ (b >= 4 => p >= 3)
    BY <1>1
<1> HIDE DEF p, t
<1>4. /\ Len(t) = l + 1 /\ t[p + 1] = Fetched
      /\ (\A k \in 1..p : t[k] = s[k]) /\ \A k \in p + 1..l : t[k + 1] = s[k]
    BY <1>2 DEF IsInserted
<1>5. Leading(Fetched)
    BY DEF Leading, Fetched, Note, System, Artifact, Plain
<1>6. CASE b = 2
    <2>1. 1 \in 1..p /\ p + 1 = 2 /\ 2 \in p + 1..l /\ 2 + 1 = 3
        BY <1>1, <1>3, <1>6
    <2>2. t[1] = System /\ t[2] = Fetched /\ t[3] = s[2]
        BY <1>1, <1>4, <2>1
    <2>3. s[2] # Fetched /\ b + 1 = 3
        BY <1>6 DEF Opening
    <2>4. Len(t) >= 3 /\ Len(t) >= 2
        BY <1>1, <1>4
    <2> QED BY <1>1, <1>2, <1>5, <2>2, <2>3, <2>4 DEF Firm, t
<1>7. CASE b = 3
    <2>1. 1 \in 1..p /\ 2 \in 1..p /\ p + 1 = 3 /\ 3 \in p + 1..l /\ 3 + 1 = 4
        BY <1>1, <1>3, <1>7
    <2>2. t[1] = System /\ t[2] = s[2] /\ t[3] = Fetched /\ t[4] = s[3]
        BY <1>1, <1>4, <2>1
    <2>3. b + 1 = 4 /\ (s[2] = Fetched => Leading(s[3]) /\ s[3] # Fetched)
        BY <1>7 DEF Opening
    <2>4. Len(t) >= 4 /\ Len(t) >= 3 /\ Len(t) >= 2
        BY <1>1, <1>4, <1>7
    <2> QED BY <1>1, <1>2, <1>5, <2>2, <2>3, <2>4 DEF Firm, t
<1>8. CASE b >= 4
    <2>1. 1 \in 1..p /\ 2 \in 1..p /\ 3 \in 1..p
        BY <1>1, <1>3, <1>8
    <2>2. t[1] = System /\ t[2] = s[2] /\ t[3] = s[3]
        BY <1>1, <1>4, <2>1
    <2>3. Leading(s[3]) /\ s[3] # s[2]
        BY <1>8 DEF Opening
    <2>4. Len(t) >= 3 /\ Len(t) >= 2 /\ ~(b + 1 < 3) /\ ~(b + 1 = 3)
        BY <1>1, <1>4, <1>8
    <2> QED BY <1>1, <1>2, <2>2, <2>3, <2>4 DEF Firm, t
<1>9. b = 2 \/ b = 3 \/ b >= 4
    OBVIOUS
<1> QED BY <1>6, <1>7, <1>8, <1>9 DEF t

(* The sanitizer passes on what nobody asks or answers.                    *)
LEMMA SanitizedBegins ==
    ASSUME NEW s \in Seq(Message), NEW n \in 0..Len(s), \A k \in 1..n : Silent(s[k])
    PROVE  /\ Len(Sanitized(s)) \in Nat /\ Len(Sanitized(s)) >= n
           /\ \A k \in 1..n : Sanitized(s)[k] = s[k]
<1> DEFINE l == Len(s)
           U == UNION {ToSet(x.calls) : x \in Message}
           X == SanitizerStates(Message, U)
<1>1. PICK g : /\ g[0] = NothingTaken /\ Sanitized(s) = g[l].out
               /\ \A k \in 1..l : g[k] = SanitizerStep(g[k - 1], s[k])
    <2> HIDE DEF Message
    <2> QED BY SanitizedFold
<1> HIDE DEF Message
<1>2. l \in Nat /\ \A k \in 1..l : s[k] \in Message
    BY ElementOfSeq, LenProperties
<1> HIDE DEF U
<1>3. \A k \in 0..l : g[k] \in X
    <2>1. g[0] \in X
        BY <1>1 DEF NothingTaken, SanitizerStates
    <2>2. ASSUME NEW k \in 1..l, g[k - 1] \in X PROVE g[k] \in X
        <3>1. s[k] \in Message /\ g[k] = SanitizerStep(g[k - 1], s[k])
            BY <1>1, <1>2
        <3>2. ToSet(s[k].calls) \subseteq U
            BY <3>1 DEF U
        <3> QED BY <2>2, <3>1, <3>2, SanitizerStepTyped
    <2> HIDE DEF X, l
    <2> QED BY <1>2, <2>1, <2>2, FoldStays
<1> DEFINE h == [k \in 0..l |-> g[k].out]
<1>4. \A k \in 0..l : h[k] = g[k].out /\ h[k] \in Seq(Message) /\ Len(h[k]) \in Nat
    <2> TAKE k \in 0..l
    <2>1. g[k].out \in Seq(Message)
        BY <1>3 DEF SanitizerStates
    <2>2. Len(g[k].out) \in Nat
        BY <2>1, LenProperties
    <2> QED BY <2>1, <2>2
<1> HIDE DEF h
<1>5. ASSUME NEW k \in 1..l
      PROVE  /\ Begins(h[k - 1], h[k])
             /\ Silent(s[k]) => h[k] = Append(h[k - 1], s[k])
    <2> DEFINE t == g[k - 1]
               m == s[k]
               q == Append(t.block, m)
    <2>1. k - 1 \in 0..l /\ k \in 0..l /\ m \in Message
        BY <1>2
    <2>2. h[k - 1] = t.out /\ h[k] = SanitizerStep(t, m).out /\ t \in X
        BY <1>1, <1>3, <1>4, <2>1
    <2>3. t.out \in Seq(Message) /\ t.block \in Seq(Message)
        BY <2>2 DEF SanitizerStates
    <2>4. q \in Seq(Message)
        BY <2>1, <2>3, AppendProperties
    <2>5. /\ Begins(t.out, t.out \o q)
        <3>1. /\ Len(t.out \o q) = Len(t.out) + Len(q) /\ Len(t.out) \in Nat /\ Len(q) \in Nat
              /\ \A i \in 1..Len(t.out) + Len(q) :
                    (t.out \o q)[i] = IF i <= Len(t.out) THEN t.out[i] ELSE q[i - Len(t.out)]
            <4> HIDE DEF q, t
            <4> QED BY <2>3, <2>4, ConcatProperties, LenProperties
        <3> DEFINE a == t.out
                   r == a \o q
        <3>2. /\ Len(r) = Len(a) + Len(q) /\ Len(a) \in Nat /\ Len(q) \in Nat
              /\ \A i \in 1..Len(a) + Len(q) : r[i] = IF i <= Len(a) THEN a[i] ELSE q[i - Len(a)]
            BY <3>1
        <3> HIDE DEF a, q, r
        <3>3. \A i \in 1..Len(a) : i \in 1..Len(a) + Len(q) /\ i <= Len(a)
            BY <3>2
        <3>4. Begins(a, r)
            BY <3>2, <3>3 DEF Begins
        <3> QED BY <3>4 DEF a, r
    <2>6. Begins(t.out, Append(t.out, m))
        BY <2>1, <2>3, AppendBegins
    <2>7. Begins(t.out, t.out)
        BY <1>4, <2>1, <2>2 DEF Begins
    <2>8. SanitizerStep(t, m).out \in {t.out, t.out \o q, Append(t.out, m)}
        BY <2>2 DEF SanitizerStep, SanitizerStates
    <2>9. Silent(m) => SanitizerStep(t, m).out = Append(t.out, m)
        BY DEF SanitizerStep, Silent
    <2> HIDE DEF t, m, q
    <2>10. Begins(h[k - 1], h[k])
        BY <2>2, <2>5, <2>6, <2>7, <2>8
    <2> QED BY <2>2, <2>9, <2>10 DEF m
<1> DEFINE Y == {k \in 0..l : k <= n => Len(h[k]) = k /\ \A i \in 1..k : h[k][i] = s[i]}
<1>6. 0 \in Y
    <2> DEFINE e == <<>>
    <2>1. h[0] = e /\ Len(e) = 0 /\ 1..0 = {} /\ 0 \in 0..l
        BY <1>1, <1>2, <1>4 DEF NothingTaken
    <2> HIDE DEF e
    <2> QED BY <2>1
<1>7. ASSUME NEW k \in 1..l, k - 1 \in Y PROVE k \in Y
    <2>1. SUFFICES ASSUME k <= n PROVE Len(h[k]) = k /\ \A i \in 1..k : h[k][i] = s[i]
        BY <1>2
    <2>2. k \in 1..n /\ k - 1 <= n /\ k - 1 \in 0..l /\ (k - 1) + 1 = k
        BY <1>2, <2>1
    <2>3. Len(h[k - 1]) = k - 1 /\ \A i \in 1..k - 1 : h[k - 1][i] = s[i]
        BY <1>7, <2>2
    <2>4. h[k] = Append(h[k - 1], s[k])
        BY <1>5, <2>2
    <2>5. h[k - 1] \in Seq(Message) /\ s[k] \in Message
        BY <1>2, <1>4, <2>2
    <2>6. /\ Len(h[k]) = k /\ (\A i \in 1..k - 1 : h[k][i] = h[k - 1][i]) /\ h[k][k] = s[k]
        BY <2>2, <2>3, <2>4, <2>5, AppendBegins DEF Begins
    <2>7. \A i \in 1..k : i \in 1..k - 1 \/ i = k
        OBVIOUS
    <2> QED BY <2>3, <2>6, <2>7
<1>8. n \in 0..l /\ l \in 0..l
    BY <1>2
<1>9. n \in Y
    <2>1. 0..l \subseteq Y
        <3> HIDE DEF Y, l
        <3> QED BY <1>2, <1>6, <1>7, UpTo
    <2> QED BY <1>8, <2>1
<1>10. Len(h[n]) = n /\ \A i \in 1..n : h[n][i] = s[i]
    BY <1>9
<1>11. Begins(h[n], h[l])
    <2>1. \A k \in 0..l : Len(h[k]) \in Nat
        BY <1>4
    <2>2. \A k \in 1..l : Begins(h[k - 1], h[k])
        BY <1>5
    <2> HIDE DEF l
    <2> QED BY <1>2, <1>8, <2>1, <2>2, GrowsOn
<1>12. h[l] = Sanitized(s) /\ Len(h[l]) \in Nat
    BY <1>1, <1>4, <1>8
<1> QED BY <1>10, <1>11, <1>12 DEF Begins

(* And with it the opening.                                                *)
LEMMA SanitizedOpens ==
    ASSUME NEW s \in Seq(Message), NEW b \in Nat, b >= 2, Opening(s, b)
    PROVE  Sanitized(s) \in Seq(Message) /\ Opening(Sanitized(s), b)
<1>1. /\ Counting(b) \in 1..Len(s) /\ Len(s) \in Nat
      /\ \A k \in 1..Counting(b) : Silent(s[k])
    BY OpeningIsSilent
<1>2. Counting(b) \in 0..Len(s)
    BY <1>1
<1>3. Sanitized(s) \in Seq(Message)
    BY SanitizedStands
<1>4. /\ Len(Sanitized(s)) \in Nat /\ Len(Sanitized(s)) >= Counting(b)
      /\ \A k \in 1..Counting(b) : Sanitized(s)[k] = s[k]
    <2> DEFINE n == Counting(b)
    <2>1. n \in 0..Len(s) /\ \A k \in 1..n : Silent(s[k])
        BY <1>1, <1>2
    <2> HIDE DEF n
    <2>2. /\ Len(Sanitized(s)) \in Nat /\ Len(Sanitized(s)) >= n
          /\ \A k \in 1..n : Sanitized(s)[k] = s[k]
        BY <2>1, SanitizedBegins
    <2> QED BY <2>2 DEF n
<1> QED BY <1>3, <1>4, OpeningCopies

(* A history cut behind its prefix opens as it did.                        *)
LEMMA PartOpens ==
    ASSUME NEW s \in Seq(Message), NEW b \in Nat, b >= 2, Opening(s, b),
           NEW q \in Counting(b)..Len(s)
    PROVE  SubSeq(s, 1, q) \in Seq(Message) /\ Opening(SubSeq(s, 1, q), b)
<1> DEFINE t == SubSeq(s, 1, q)
<1>1. Counting(b) \in 1..Len(s) /\ Len(s) \in Nat
    BY OpeningIsSilent
<1>2. 1 \in 1..Len(s) + 1 /\ q \in 1 - 1..Len(s) /\ q + 1 - 1 = q /\ \A i \in 1..q : 1 + i - 1 = i
    BY <1>1
<1>3. t \in Seq(Message) /\ Len(t) = q /\ \A i \in 1..q : t[i] = s[i]
    BY <1>2, PartHolds
<1> HIDE DEF t
<1>4. Len(t) \in Nat /\ Len(t) >= Counting(b) /\ \A i \in 1..Counting(b) : t[i] = s[i]
    BY <1>1, <1>3
<1>5. Opening(t, b)
    BY <1>4, OpeningCopies
<1> QED BY <1>3, <1>5 DEF t

(* A message more leaves the opening as it is.                             *)
LEMMA AppendOpens ==
    ASSUME NEW s \in Seq(Message), NEW b \in Nat, b >= 2, Opening(s, b), NEW m \in Message
    PROVE  Append(s, m) \in Seq(Message) /\ Opening(Append(s, m), b)
<1> DEFINE t == Append(s, m)
<1>1. Counting(b) \in 1..Len(s) /\ Len(s) \in Nat
    BY OpeningIsSilent
<1>2. t \in Seq(Message) /\ Len(t) = Len(s) + 1 /\ \A i \in 1..Len(s) : t[i] = s[i]
    BY AppendBegins DEF Begins
<1> HIDE DEF t
<1>3. Len(t) \in Nat /\ Len(t) >= Counting(b) /\ \A i \in 1..Counting(b) : t[i] = s[i]
    BY <1>1, <1>2
<1>4. Opening(t, b)
    BY <1>3, OpeningCopies
<1> QED BY <1>2, <1>4 DEF t

-----------------------------------------------------------------------------
(* While a turn runs its history has an opening; otherwise there is none.  *)
OpeningInv ==
    /\ pc \in {"boot"} \cup Ended => base = 0
    /\ pc \notin {"boot"} \cup Ended => base >= 2 /\ Opening(messages, base)

(* What the steps of the loop come to: the end of the turn, an iteration   *)
(* that starts over, an answer that is received.                           *)
LEMMA OpeningEnds ==
    ASSUME NEW how \in Ended, End(how) PROVE OpeningInv'
BY DEF OpeningInv, End, Ended

LEMMA OpeningStartsOver ==
    ASSUME base >= 2, NEW msgs, Opening(msgs, base), StartOver(msgs) PROVE OpeningInv'
<1>1. pc' = "head" /\ messages' = msgs /\ base' = base
    BY DEF StartOver
<1> QED BY <1>1 DEF OpeningInv, Ended

LEMMA OpeningReceives ==
    ASSUME Counts, Types', base \in Nat, base >= 2, NEW msgs \in Seq(Message),
           Opening(msgs, base), Received(msgs)
    PROVE  OpeningInv'
<1> DEFINE ids == [i \in DOMAIN calls' |-> <<answer', i, calls'[i]>>]
           m   == Answer(answer', ids)
<1>1. messages' = Append(msgs, m) /\ base' = base /\ pc' = "say" /\ answer' \in Nat
    BY DEF Received, Id, Counts
<1>2. calls' \in Seq(Kinds) /\ Len(calls') \in Nat /\ DOMAIN calls' = 1..Len(calls')
    BY DEF Types
<1>3. ids \in Seq(Ids)
    <2>1. \A i \in 1..Len(calls') : <<answer', i, calls'[i]>> \in Ids
        BY <1>1, <1>2, IdsTyped
    <2> HIDE DEF Ids
    <2> QED BY <1>2, <2>1
<1>4. m \in Message
    <2> HIDE DEF ids
    <2>1. Answer(answer', ids) \in Own
        BY <1>1, <1>3, AnswerIsOwn
    <2> QED BY <2>1 DEF Own
<1> HIDE DEF m, Message
<1>5. Opening(Append(msgs, m), base)
    BY <1>4, AppendOpens
<1> QED BY <1>1, <1>5 DEF OpeningInv, Ended

(* The last clean user message lies behind the prefix.                     *)
LEMMA TruncatedOpens ==
    ASSUME messages \in Seq(Message), base \in Nat, base >= 2, Opening(messages, base),
           Truncated # <<>>
    PROVE  Truncated \in Seq(Message) /\ Opening(Truncated, base)
<1> DEFINE l     == Len(messages)
           users == {k \in base + 1..l : messages[k].role = "user"}
           q     == Max(users)
           s     == SubSeq(messages, 1, q)
<1>1. l \in Nat
    BY OpeningIsSilent
<1>2. users # {} /\ Truncated = Sanitized(s)
    BY DEF Truncated
<1>3. q \in users
    <2>1. users \in SUBSET (1..l)
        BY <1>1
    <2> HIDE DEF users
    <2> QED BY <1>1, <1>2, <2>1, MaxIsMember
<1>4. q \in Counting(base)..l
    <2>1. q \in base + 1..l
        BY <1>3
    <2> HIDE DEF q
    <2> QED BY <1>1, <2>1 DEF Counting
<1> HIDE DEF q
<1>5. s \in Seq(Message) /\ Opening(s, base)
    BY <1>4, PartOpens
<1> HIDE DEF s
<1> QED BY <1>2, <1>5, SanitizedOpens

-----------------------------------------------------------------------------
(* A turn begins with the prompt and the context, and with its task where  *)
(* that belongs to the prefix.                                             *)
LEMMA BootOpens ==
    ASSUME AnswersInv, Boot PROVE OpeningInv'
<1> DEFINE restored == Resumable(transcript)
           prefix   == <<System, Context>>
<1>1. Recorded(transcript) /\ resumes \in Nat
    BY RequestTypes DEF AnswersInv, TranscriptInv
<1>2. restored \in Seq(Message)
    BY <1>1, RestoredIsShadowed, SanitizedStands DEF Resumable
<1>3. /\ System \in Message /\ Context \in Message /\ Leading(Context) /\ Context # Fetched
      /\ \A n \in Nat : User(n) \in Message /\ Silent(User(n))
    <2>1. Leading(Context) /\ Context # Fetched
        BY DEF Leading, Fetched, Note, Context, System, Artifact, Plain
    <2> QED BY <2>1, NotesAreSilent, NotesAreMessages
<1>4. prefix \in Seq(Message) /\ Len(prefix) = 2 /\ prefix[1] = System /\ prefix[2] = Context
    <2> HIDE DEF Message
    <2> QED BY <1>3
<1>5. PICK n \in {0, resumes}, again \in BOOLEAN, said \in BOOLEAN :
        /\ messages' = IF ~again THEN Append(prefix, User(n))
                       ELSE prefix \o restored \o (IF said THEN <<>> ELSE <<User(n)>>)
        /\ base' = IF again THEN Len(prefix) ELSE Len(prefix) + 1
    <2>1. PICK n \in {0, resumes} :
            LET p     == <<System, Context>>
                again == resumes > 0 /\ transcript # <<>>
                said  == restored # <<>> /\ Last(restored) = User(n)
            IN /\ messages' = IF ~again THEN Append(p, User(n))
                              ELSE p \o restored \o (IF said THEN <<>> ELSE <<User(n)>>)
               /\ base' = IF again THEN Len(p) ELSE Len(p) + 1
        BY DEF Boot
    <2>2. <<System, Context>> = prefix
        OBVIOUS
    <2> HIDE DEF prefix, restored
    <2> QED BY <2>1, <2>2
<1> HIDE DEF prefix, restored
<1>6. pc' = "head" /\ User(n) \in Message /\ Silent(User(n))
    BY <1>1, <1>3 DEF Boot
<1>7. Opening(prefix, 2)
    BY <1>3, <1>4 DEF Opening
<1>8. base' >= 2 /\ Opening(messages', base')
    <2>1. CASE ~again
        <3>1. messages' = Append(prefix, User(n)) /\ base' = 3
            BY <1>4, <1>5, <2>1
        <3>2. /\ Len(Append(prefix, User(n))) = 3 /\ Append(prefix, User(n))[1] = System
              /\ Append(prefix, User(n))[2] = Context /\ Append(prefix, User(n))[3] = User(n)
            <4>1. 1 \in 1..Len(prefix) /\ 2 \in 1..Len(prefix) /\ 2 + 1 = 3
                BY <1>4
            <4>2. /\ Len(Append(prefix, User(n))) = Len(prefix) + 1
                  /\ Begins(prefix, Append(prefix, User(n)))
                  /\ Append(prefix, User(n))[Len(prefix) + 1] = User(n)
                BY <1>4, <1>6, AppendBegins
            <4> QED BY <1>4, <4>1, <4>2 DEF Begins
        <3> QED BY <1>3, <1>6, <3>1, <3>2 DEF Opening
    <2>2. CASE again
        <3> DEFINE a == prefix \o restored
                   w == <<User(n)>>
        <3>1. /\ a \in Seq(Message) /\ Len(a) = Len(prefix) + Len(restored) /\ Len(restored) \in Nat
              /\ \A i \in 1..Len(prefix) + Len(restored) :
                    a[i] = IF i <= Len(prefix) THEN prefix[i] ELSE restored[i - Len(prefix)]
            <4> HIDE DEF Message
            <4> QED BY <1>2, <1>4, ConcatProperties, LenProperties
        <3>2. a \o <<>> = a /\ a \o w = Append(a, User(n))
            <4> HIDE DEF Message, a
            <4> QED BY <1>6, <3>1, ConcatEmptySeq, AppendIsConcat
        <3> HIDE DEF a
        <3>3. Opening(a, 2)
            <4>1. Len(a) >= 2 /\ 1 \in 1..Len(prefix) + Len(restored)
                  /\ 2 \in 1..Len(prefix) + Len(restored)
                BY <1>4, <3>1
            <4>2. a[1] = System /\ a[2] = Context
                BY <1>4, <3>1, <4>1
            <4> QED BY <1>3, <4>1, <4>2 DEF Opening
        <3>4. messages' = a \/ messages' = Append(a, User(n))
            <4>1. messages' = a \o (IF said THEN <<>> ELSE w)
                BY <1>5, <2>2 DEF a
            <4> HIDE DEF w
            <4> QED BY <3>2, <4>1
        <3>5. base' = 2
            BY <1>4, <1>5, <2>2
        <3>6. Opening(Append(a, User(n)), 2)
            BY <1>6, <3>1, <3>3, AppendOpens
        <3>7. Opening(messages', 2)
            <4> HIDE DEF w
            <4> DEFINE q == Append(a, User(n))
            <4>1. messages' = a \/ messages' = q
                BY <3>4
            <4>2. Opening(q, 2)
                BY <3>6
            <4> HIDE DEF q
            <4> QED BY <3>3, <4>1, <4>2
        <3>8. base' >= 2
            BY <3>5
        <3> QED BY <3>5, <3>7, <3>8
    <2> QED BY <2>1, <2>2
<1> QED BY <1>6, <1>8 DEF OpeningInv, Ended

(* The head of an iteration.                                               *)
LEMMA BeginOpens ==
    ASSUME AnswersInv, OpeningInv, Begin PROVE OpeningInv'
<1>1. PICK prefetch, mail, pressed \in BOOLEAN :
        LET b == IF prefetch THEN base + 1 ELSE base
            p == IF prefetch THEN Prefetched(messages, base) ELSE messages
            m == IF mail THEN Append(p, Note("mail")) ELSE p
        IN base' = b /\ messages' = Pipeline(m, b, memory, pressed)
    BY DEF Begin
<1> DEFINE b == IF prefetch THEN base + 1 ELSE base
           p == IF prefetch THEN Prefetched(messages, base) ELSE messages
           m == IF mail THEN Append(p, Note("mail")) ELSE p
<1>2. base' = b /\ messages' = Pipeline(m, b, memory, pressed) /\ pc' = "stream"
    BY <1>1 DEF Begin
<1>3. messages \in Seq(Message) /\ base \in Nat /\ base >= 2 /\ Opening(messages, base)
    <2>1. pc = "head"
        BY DEF Begin
    <2> QED BY <2>1, RequestTypes DEF OpeningInv, Ended
<1>4. b \in Nat /\ b >= 2
    BY <1>3
<1>5. p \in Seq(Message) /\ Firm(p, b)
    <2>1. Firm(messages, base)
        BY <1>3, OpeningIsSilent
    <2> QED BY <1>3, <2>1, PrefetchedIsFirm
<1> HIDE DEF b, p
<1>6. m \in Seq(Message) /\ Firm(m, b)
    <2>1. CASE mail
        <3>1. Note("mail") \in Message
            BY NotesAreMessages DEF Tags
        <3> DEFINE q == Append(p, Note("mail"))
        <3>2. q \in Seq(Message) /\ Len(q) = Len(p) + 1 /\ Begins(p, q) /\ Len(p) \in Nat
            BY <1>5, <3>1, AppendBegins
        <3>3. PICK n \in 2..Len(p) :
                \A t : Len(t) \in Nat /\ Len(t) >= n /\ (\A k \in 1..n : t[k] = p[k]) => Firm(t, b)
            BY <1>4, <1>5, FirmReach
        <3> HIDE DEF q
        <3>4. Len(q) \in Nat /\ Len(q) >= n /\ \A k \in 1..n : q[k] = p[k]
            BY <3>2 DEF Begins
        <3>5. Firm(q, b)
            BY <3>3, <3>4
        <3> QED BY <2>1, <3>2, <3>5 DEF q
    <2>2. CASE ~mail
        BY <1>5, <2>2
    <2> QED BY <2>1, <2>2
<1> HIDE DEF m
<1>7. Opening(messages', base')
    BY <1>2, <1>4, <1>6, PipelineOpens
<1> QED BY <1>2, <1>4, <1>7 DEF OpeningInv, Ended

(* The errors of a stream.                                                 *)
LEMMA StreamOpens ==
    ASSUME AnswersInv, OpeningInv, RunInv',
           NextCall \/ MoreArguments \/ StreamEnds \/ Overflow
           \/ ProtocolRecovered \/ ProtocolFailed \/ StreamFailed
    PROVE  OpeningInv'
<1>1. pc = "stream" /\ Counts /\ Types'
    BY DEF AnswersInv, TurnInv, RunInv, NextCall, MoreArguments, StreamEnds, Overflow,
       ProtocolRecovered, ProtocolFailed, StreamFailed
<1>2. messages \in Seq(Message) /\ base \in Nat /\ base >= 2 /\ Opening(messages, base)
    BY <1>1, RequestTypes DEF OpeningInv, Ended
<1>3. Note("error") \in Message /\ Note("clean") \in Message
    BY NotesAreMessages DEF Tags
<1>4. CASE NextCall \/ MoreArguments
    <2>1. UNCHANGED <<messages, base, pc>>
        BY <1>4 DEF NextCall, MoreArguments, history
    <2> QED BY <1>1, <1>2, <2>1 DEF OpeningInv, Ended
<1>5. CASE StreamEnds
    BY <1>1, <1>2, <1>5, OpeningReceives DEF StreamEnds
<1>6. CASE Overflow
    <2>1. Opening(Pipeline(messages, base, memory, TRUE), base)
        BY <1>2, OpeningIsSilent, PipelineOpens
    <2> QED BY <1>2, <1>6, <2>1, OpeningStartsOver DEF Overflow
<1>7. CASE ProtocolRecovered
    <2>1. PICK cleaned \in {Sanitized(messages),
                    Append(Sanitized(UpToLen(messages, base)), Note("clean"))} :
            Received(cleaned)
        BY <1>7 DEF ProtocolRecovered
    <2> DEFINE u == UpToLen(messages, base)
    <2>2. u \in Seq(Message) /\ Opening(u, base)
        <3> DEFINE n == IF base < Len(messages) THEN base ELSE Len(messages)
        <3>1. Counting(base) \in 1..Len(messages) /\ Len(messages) \in Nat
            BY <1>2, OpeningIsSilent
        <3>2. n \in Counting(base)..Len(messages)
            BY <1>2, <3>1 DEF Counting
        <3>3. u = SubSeq(messages, 1, n)
            BY DEF UpToLen
        <3> HIDE DEF u, n
        <3> QED BY <1>2, <3>2, <3>3, PartOpens
    <2> HIDE DEF u
    <2> DEFINE v == Sanitized(u)
    <2>3. v \in Seq(Message) /\ Opening(v, base)
        BY <1>2, <2>2, SanitizedOpens
    <2> HIDE DEF v
    <2>4. cleaned \in Seq(Message) /\ Opening(cleaned, base)
        <3>1. CASE cleaned = Sanitized(messages)
            BY <1>2, <3>1, SanitizedOpens
        <3>2. CASE cleaned = Append(v, Note("clean"))
            BY <1>2, <1>3, <2>3, <3>2, AppendOpens
        <3> QED BY <2>1, <3>1, <3>2 DEF u, v
    <2> QED BY <1>1, <1>2, <2>1, <2>4, OpeningReceives
<1>8. CASE ProtocolFailed
    <2>1. CASE Len(Truncated) > base
        <3>1. Truncated # <<>>
            BY <1>2, <2>1
        <3> QED BY <1>2, <1>8, <2>1, <3>1, TruncatedOpens, OpeningStartsOver DEF ProtocolFailed
    <2>2. CASE ~(Len(Truncated) > base)
        BY <1>8, <2>2, OpeningEnds DEF ProtocolFailed, Ended
    <2> QED BY <2>1, <2>2
<1>9. CASE StreamFailed
    <2>1. CASE End("failed")
        BY <2>1, OpeningEnds DEF Ended
    <2>2. CASE StartOver(Append(messages, Note("error")))
        BY <1>2, <1>3, <2>2, AppendOpens, OpeningStartsOver
    <2>3. CASE base < Len(Truncated) /\ StartOver(Append(Truncated, Note("error")))
        <3>1. Truncated # <<>>
            BY <1>2, <2>3
        <3> QED BY <1>2, <1>3, <2>3, <3>1, TruncatedOpens, AppendOpens, OpeningStartsOver
    <2> QED BY <1>9, <2>1, <2>2, <2>3 DEF StreamFailed
<1> QED BY <1>4, <1>5, <1>6, <1>7, <1>8, <1>9

(* The rest of the loop leaves the history as it is, or adds to it.        *)
LEMMA OthersOpen ==
    ASSUME AnswersInv, OpeningInv,
           \/ OutOfIterations \/ SayTurn \/ SayCall \/ Remember \/ Finish
           \/ AwaitEarly \/ AwaitCancelled \/ LeaveForLater \/ Collected
           \/ NextBatch \/ Enter \/ ToolEnds \/ Pause \/ Executed
           \/ RecordOutput \/ RecordResult \/ Stop \/ Resume \/ Rest
    PROVE  OpeningInv'
<1>0. Types /\ Marks /\ Counts
    BY DEF AnswersInv, TurnInv, RunInv
<1>1. CASE OutOfIterations \/ Finish \/ AwaitCancelled \/ Pause \/ Stop
    <2>1. \E how \in Ended : End(how)
        BY <1>1 DEF OutOfIterations, Finish, AwaitCancelled, Pause, Stop, Ended
    <2> QED BY <2>1, OpeningEnds
<1>2. CASE \/ SayTurn \/ SayCall \/ Remember \/ AwaitEarly \/ LeaveForLater \/ Collected
           \/ NextBatch \/ Enter \/ Executed \/ RecordResult
    <2>1. UNCHANGED <<messages, base>>
        BY <1>2 DEF SayTurn, SayCall, Remember, AwaitEarly, LeaveForLater, Collected,
           NextBatch, Enter, Executed, RecordResult, history
    <2>2. {pc, pc'} \subseteq {"say", "collect", "batch", "answer", "result", "head"}
        BY <1>2 DEF SayTurn, SayCall, Remember, AwaitEarly, LeaveForLater, Collected,
           NextBatch, Enter, Executed, AllSettled, RecordResult
    <2> QED BY <2>1, <2>2 DEF OpeningInv, Ended
<1>3. CASE ToolEnds \/ Rest
    <2>1. UNCHANGED <<messages, base, pc>>
        BY <1>3 DEF ToolEnds, Rest, vars, history, count
    <2> QED BY <2>1 DEF OpeningInv
<1>4. CASE Resume
    BY <1>4 DEF Resume, OpeningInv, history, Ended
<1>5. CASE RecordOutput
    <2>1. at \in DOMAIN calls /\ pc = "answer" /\ pc' = "result" /\ base' = base
        BY <1>0, <1>5 DEF Marks, RecordOutput
    <2>2. Id(at) \in Ids
        <3>1. calls[at] \in Kinds /\ at \in Nat /\ answer \in Nat
            BY <1>0, <2>1 DEF Types, Counts
        <3> QED BY <3>1, IdsTyped DEF Id
    <2>3. Tool(Id(at), Id(at)) \in Message
        <3> HIDE DEF Message, Ids
        <3> QED BY <2>2, ToolIsMessage
    <2>4. messages \in Seq(Message) /\ base \in Nat /\ base >= 2 /\ Opening(messages, base)
        BY <2>1, RequestTypes DEF OpeningInv, Ended
    <2> DEFINE m == Tool(Id(at), Id(at))
    <2>5. messages' = Append(messages, m)
        BY <1>5 DEF RecordOutput
    <2> HIDE DEF Message, m
    <2>6. Opening(Append(messages, m), base)
        BY <2>3, <2>4, AppendOpens DEF m
    <2> QED BY <2>1, <2>4, <2>5, <2>6 DEF OpeningInv, Ended
<1> QED BY <1>1, <1>2, <1>3, <1>4, <1>5

(* Every step keeps the opening.                                           *)
LEMMA OpeningInvNext ==
    AnswersInv /\ OpeningInv /\ [Next]_vars => OpeningInv'
<1> SUFFICES ASSUME AnswersInv, OpeningInv, [Next]_vars PROVE OpeningInv'
    OBVIOUS
<1>1. RunInv'
    BY RunInvNext DEF AnswersInv, TurnInv
<1>2. CASE UNCHANGED vars
    BY <1>2 DEF vars, exec, history, count, OpeningInv
<1>3. CASE Boot
    BY <1>3, BootOpens
<1>4. CASE Begin
    BY <1>4, BeginOpens
<1>5. CASE NextCall \/ MoreArguments \/ StreamEnds \/ Overflow
           \/ ProtocolRecovered \/ ProtocolFailed \/ StreamFailed
    BY <1>1, <1>5, StreamOpens
<1>6. CASE \/ OutOfIterations \/ SayTurn \/ SayCall \/ Remember \/ Finish
           \/ AwaitEarly \/ AwaitCancelled \/ LeaveForLater \/ Collected
           \/ NextBatch \/ Enter \/ ToolEnds \/ Pause \/ Executed
           \/ RecordOutput \/ RecordResult \/ Stop \/ Resume \/ Rest
    BY <1>6, OthersOpen
<1> QED BY <1>2, <1>3, <1>4, <1>5, <1>6 DEF Next, Loop

(* A prefix of four holds the prompt, the context, the task and the note   *)
(* of one prefetch, or of two in a resumed turn.  It stays plain, though   *)
(* the memory, the artifact and the notes come and go and are merged.      *)
THEOREM ShortPrefixStaysPlain ==
    Spec => []ShortPrefixIsPlain
<1>1. Init => AnswersInv /\ OpeningInv
    BY AnswersInvInit DEF Init, OpeningInv
<1>2. AnswersInv /\ [Next]_vars => AnswersInv'
    BY AnswersInvNext
<1>3. AnswersInv /\ OpeningInv /\ [Next]_vars => OpeningInv'
    BY OpeningInvNext
<1>4. AnswersInv /\ OpeningInv => ShortPrefixIsPlain
    <2> SUFFICES ASSUME AnswersInv, OpeningInv, base <= 4 PROVE PrefixIsPlain
        BY DEF ShortPrefixIsPlain
    <2>1. messages \in Seq(Message) /\ base \in Nat
        BY RequestTypes
    <2>2. CASE pc \in {"boot"} \cup Ended
        <3>1. 1..base = {}
            BY <2>2 DEF OpeningInv
        <3> QED BY <3>1 DEF PrefixIsPlain
    <2>3. CASE pc \notin {"boot"} \cup Ended
        <3>1. base >= 2 /\ Opening(messages, base)
            BY <2>3 DEF OpeningInv
        <3>2. \A k \in 1..Counting(base) : Silent(messages[k])
            BY <2>1, <3>1, OpeningIsSilent
        <3> QED BY <3>2 DEF PrefixIsPlain, Counting, Silent
    <2> QED BY <2>2, <2>3
<1> QED BY <1>1, <1>2, <1>3, <1>4, PTL DEF Spec

(* So every request of a turn with one prefetch, or with two when it was   *)
(* resumed, is one a provider accepts.                                     *)
COROLLARY RequestsOfShortPrefixes ==
    Spec /\ [](base <= 4) => []RequestsAreWellFormed
<1>1. ShortPrefixIsPlain /\ base <= 4 => PrefixIsPlain
    BY DEF ShortPrefixIsPlain
<1> QED BY <1>1, ShortPrefixStaysPlain, RequestsStayWellFormed, PTL
=============================================================================
