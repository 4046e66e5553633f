------------------------------- MODULE Bench -------------------------------
(***************************************************************************)
(* jev-bench: per repeat, every prompt on its own and then all of them in  *)
(* one batch, through a backend of its own (ReadoutBackend; call c is the  *)
(* batch of repeat c); at the end the report is written to                 *)
(* <date>-<host>.json.  Runs follow one another on one host and day, and   *)
(* so share the file.  Times are integers; the code's are floats.          *)
(***************************************************************************)
EXTENDS ReadoutBackend, SequencesExt

CONSTANTS
    Repeats,     \* --repeat
    Prompts,     \* the rendered questions
    Durations,   \* how long a request may take
    Overheads,   \* what a block may take beyond its requests
    MaxOverhead, \* and at most
    MaxRuns,     \* bound on the runs
    NoResult

ASSUME BenchAssumption ==
    /\ Repeats \in Nat \ {0} /\ Prompts # <<>> /\ Durations \subseteq Nat \ {0}
    /\ MaxOverhead \in Nat /\ Overheads \subseteq 0..MaxOverhead
    /\ Calls = 1..Repeats /\ Batches = [c \in Calls |-> {Prompts}]

VARIABLES
    stage,
    run,        \* which run this is
    fresh_ms, shared_ms,
    shared_prompt_tokens,
    coverage_total,
    ratios,     \* per repeat, what its two blocks took
    file        \* the result file of the day

benchVars == <<stage, run, fresh_ms, shared_ms, shared_prompt_tokens, coverage_total, ratios, file>>
allVars == <<vars, benchVars>>

Q == Len(Prompts)
Total(s) == SumFunction(s)

BenchInit ==
    /\ Init
    /\ stage = "fresh"
    /\ run = 1
    /\ fresh_ms = <<>>
    /\ shared_ms = <<>>
    /\ shared_prompt_tokens = 0
    /\ coverage_total = 0
    /\ ratios = <<>>
    /\ file = NoResult

\* The repeat under way, whose batch is the call of that number.
Repeat == Len(shared_ms) + 1

-----------------------------------------------------------------------------
(* Arm 1: one request per question, one after the other. *)

FreshAnswered ==
    /\ stage = "fresh"
    /\ \E a \in RepliesTo(1) : SingleVerdict(a) = "ok"
    /\ \E t \in Durations : fresh_ms' = Append(fresh_ms, t)
    /\ coverage_total' = coverage_total + 1
    /\ stage' = IF Len(fresh_ms') = Q * Repeat THEN "ask" ELSE "fresh"
    /\ UNCHANGED <<vars, run, shared_ms, shared_prompt_tokens, ratios, file>>

\* Any failure ends the run; nothing is written.
FreshFails ==
    /\ stage = "fresh"
    /\ \E a \in RepliesTo(1) : SingleVerdict(a) # "ok"
    /\ stage' = "failed"
    /\ UNCHANGED <<vars, run, fresh_ms, shared_ms, shared_prompt_tokens, coverage_total, ratios, file>>

-----------------------------------------------------------------------------
(* Arm 2: the same prompts in one call. *)

AskBatch ==
    /\ stage = "ask"
    /\ TokenLogprobsBatch(Repeat, Prompts)
    /\ stage' = "shared"
    /\ UNCHANGED <<run, fresh_ms, shared_ms, shared_prompt_tokens, coverage_total, ratios, file>>

BackendStep ==
    /\ stage = "shared"
    /\ LET c == Repeat IN
        \/ ArrayAnswered(c) \/ FallBack(c) \/ ArrayFailed(c)
        \/ SingleAnswered(c) \/ SingleFailed(c)
    /\ UNCHANGED benchVars

PromptTokens(rs) == SumFunction(TokenCounts(rs))

\* What the requests of repeat i took one by one.
OneByOne(samples, i) == SumFunctionOnSet(samples, (Q * (i - 1) + 1)..(Q * i))

\* Mutant: the fresh block is that of the first repeat.
BlocksFromFirst(t, o, p) == <<OneByOne(fresh_ms, 1) + o, t + p>>

\* What the clocks of the two blocks of a repeat say: beside the requests they
\* run through the bookkeeping, of the loop and behind the batch.
BlocksOf(t, o, p) == <<OneByOne(fresh_ms, Repeat) + o, t + p>>

AfterBatch == IF Repeat < Repeats THEN "fresh" ELSE "report"

BatchAnswered ==
    /\ stage = "shared"
    /\ pc[Repeat] = "ok"
    /\ LET rs == readouts[Repeat] IN
        /\ shared_prompt_tokens' = shared_prompt_tokens + PromptTokens(rs)
        /\ coverage_total' = coverage_total + Len(rs)
    /\ \E t \in Durations, o, p \in Overheads :
        /\ shared_ms' = Append(shared_ms, t)
        /\ ratios' = Append(ratios, BlocksOf(t, o, p))
    /\ stage' = AfterBatch
    /\ UNCHANGED <<vars, run, fresh_ms, file>>

\* Mutant: a batch that failed is left out of the sums.
AfterBatchFailureGoesOn == AfterBatch

AfterBatchFailure == "failed"

BatchFails ==
    /\ stage = "shared"
    /\ pc[Repeat] \in {"Http", "NoLogprobs", "Decode"}
    /\ stage' = AfterBatchFailure
    /\ UNCHANGED <<vars, run, fresh_ms, shared_ms, shared_prompt_tokens, coverage_total, ratios, file>>

-----------------------------------------------------------------------------
(* Statistics, in exact arithmetic. *)

\* What is at position k once the samples are sorted.
Sorted(s, k) ==
    CHOOSE v \in Range(s) : /\ Cardinality({i \in DOMAIN s : s[i] < v}) < k
                           /\ k <= Cardinality({i \in DOMAIN s : s[i] <= v})

\* A hundred times the percentile, for p in 0..100, interpolated linearly.
Percentile(s, p) ==
    LET lower == (p * (Len(s) - 1)) \div 100
        weight == (p * (Len(s) - 1)) % 100
    IN  IF s = <<>> THEN 0
        ELSE IF weight = 0 THEN 100 * Sorted(s, lower + 1)
        ELSE Sorted(s, lower + 1) * (100 - weight) + Sorted(s, lower + 2) * weight

\* total_ms over `decisions` is the cost per decision.
Timing(s) ==
    [raw_ms |-> s, total_ms |-> Total(s), decisions |-> Q * Repeats,
     p50 |-> Percentile(s, 50), p95 |-> Percentile(s, 95)]

\* <<n, d>> for n / d; zero when the divisor is.
Quotient(n, d) == IF d > 0 THEN <<n, d>> ELSE <<0, 1>>

\* Mutant: the first refusal goes without a note.
NotedFallbacksFromTwo == IF fallbacks > 1 THEN fallbacks ELSE 0

\* The number in the note on sequential blocks; 0: there is no such note.
NotedFallbacks == fallbacks

TheReport ==
    [run |-> run,
     fresh |-> Timing(fresh_ms), shared |-> Timing(shared_ms),
     speedup |-> Quotient(Total(fresh_ms), Total(shared_ms)),
     ratios |-> [i \in DOMAIN ratios |-> Quotient(ratios[i][1], ratios[i][2])],
     shared_prompt_tokens |-> shared_prompt_tokens,
     coverage_total |-> coverage_total,
     fallbacks |-> NotedFallbacks]

-----------------------------------------------------------------------------
(* The result file: fs::write empties it, then fills it. *)

Truncate ==
    /\ stage = "report"
    /\ file' = [whole |-> FALSE, report |-> NoResult]
    /\ stage' = "writing"
    /\ UNCHANGED <<vars, run, fresh_ms, shared_ms, shared_prompt_tokens, coverage_total, ratios>>

Write ==
    /\ stage = "writing"
    /\ file' = [whole |-> TRUE, report |-> TheReport]
    /\ stage' = "done"
    /\ UNCHANGED <<vars, run, fresh_ms, shared_ms, shared_prompt_tokens, coverage_total, ratios>>

Crash ==
    /\ stage \notin {"done", "failed", "crashed"}
    /\ stage' = "crashed"
    /\ UNCHANGED <<vars, run, fresh_ms, shared_ms, shared_prompt_tokens, coverage_total, ratios, file>>

\* The next run: a new process, with a backend of its own.
RunAgain ==
    /\ stage \in {"done", "failed", "crashed"}
    /\ run < MaxRuns
    /\ run' = run + 1
    /\ stage' = "fresh"
    /\ fresh_ms' = <<>> /\ shared_ms' = <<>> /\ ratios' = <<>>
    /\ shared_prompt_tokens' = 0 /\ coverage_total' = 0
    /\ pc' = [c \in Calls |-> "none"]
    /\ prompts' = [c \in Calls |-> <<>>]
    /\ readouts' = [c \in Calls |-> <<>>]
    /\ heard' = [c \in Calls |-> <<>>]
    /\ fallbacks' = 0
    /\ UNCHANGED file

BenchNext ==
    \/ FreshAnswered \/ FreshFails
    \/ AskBatch \/ BackendStep \/ BatchAnswered \/ BatchFails
    \/ Truncate \/ Write
    \/ Crash \/ RunAgain

BenchSpec == BenchInit /\ [][BenchNext]_allVars

-----------------------------------------------------------------------------
(* Properties. *)

Published == file # NoResult /\ file.whole

\* The state of a run whose report has just been written.
JustWritten == stage = "done"

Leq(a, b) == a[1] * b[2] <= b[1] * a[2]

\* p50 and p95 are in order; a twentieth of the samples is above p95, rounded up
\* (of 20, one), and the median has no more than half of them on either side.
SoundTiming(t) ==
    LET above(v) == Cardinality({i \in DOMAIN t.raw_ms : 100 * t.raw_ms[i] > v})
        below(v) == Cardinality({i \in DOMAIN t.raw_ms : 100 * t.raw_ms[i] < v})
    IN  /\ t.p50 <= t.p95 /\ 20 * above(t.p95) <= Len(t.raw_ms) + 18
        /\ 2 * above(t.p50) <= Len(t.raw_ms) /\ 2 * below(t.p50) <= Len(t.raw_ms)

\* Every prompt of every repeat was measured in both arms and looked at for its
\* slots; the i-th ratio is that of the samples of repeat i, give or take what
\* its two blocks took beside them; and the speedup lies between those of the
\* samples of the slowest and of the fastest repeat.
WholeReport(r) ==
    LET fresh(i) == OneByOne(r.fresh.raw_ms, i)
        batch(i) == r.shared.raw_ms[i]
    IN  /\ Len(r.fresh.raw_ms) = Q * Repeats
        /\ Len(r.shared.raw_ms) = Repeats
        /\ r.coverage_total = 2 * Q * Repeats
        /\ SoundTiming(r.fresh) /\ SoundTiming(r.shared)
        /\ r.fresh.decisions = r.shared.decisions
        /\ Len(r.ratios) = Repeats
        /\ \A i \in 1..Repeats :
            /\ Leq(<<fresh(i), batch(i) + MaxOverhead>>, r.ratios[i])
            /\ Leq(r.ratios[i], <<fresh(i) + MaxOverhead, batch(i)>>)
        /\ \E i \in 1..Repeats : Leq(<<fresh(i), batch(i)>>, r.speedup)
        /\ \E i \in 1..Repeats : Leq(r.speedup, <<fresh(i), batch(i)>>)

\* A report that can be read is about one whole run, whatever failed or crashed
\* before, in this run or an earlier one that wrote the same file; its
\* percentiles and its speedup are those of its samples, and its ratios too but
\* for what the clocks of a block run through beside the requests.
ReportIsWhole == Published => WholeReport(file.report)

\* A block was sequential when its call heard more than the array's answer.
SequentialBlocks == {c \in Calls : Len(heard[c]) > 1}

\* "The report must say which it is": it says how many blocks were not batched.
\* And its tokens are those the endpoint reported with the very answers the
\* readouts of the batched arm came from, batched or sequential.
BatchedArmIsAccountedFor ==
    JustWritten =>
        /\ file.report.fallbacks = Cardinality(SequentialBlocks)
        /\ file.report.shared_prompt_tokens =
            SumFunction([c \in Calls |-> SumFunction(UsagesOf(heard[c]))])
=============================================================================
