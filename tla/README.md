# A TLA+ model of jev-clone

jev-clone serves *answer distributions*: a request carries a `state` and
questions (choice, score, noul), the server renders one prompt per question,
asks a model endpoint for the log-probabilities of the next token, and publishes
the probabilities of the answer letters.  Around the server there are an
evaluation crate, drivers that run item sets through the server, a benchmark, a
proxy that adapts messages, and scripts that prepare the item sets.  This
directory models them in TLA+, checks them with TLC and proves part of them with
TLAPS.

## The system

| Component | Code | State | Operations | Talks to |
|---|---|---|---|---|
| tokenizer client | `jev-backend/src/tokenizer.rs` | `cache` (text -> ids, never evicted) and `dialect` (the remembered URL and field), each behind a mutex, shared by all requests | `prefetch`, `try_encode`, `encode_one`, `attempt`, the synchronous `encode` | `/tokenize` of the endpoint, one awaited POST at a time |
| startup self-check | `tokenizer.rs`, `jev-server/src/main.rs` | mode | `SlotCheck::parse`, `check_probed_slot_assumption`, `check_slot_letters` | tokenizer client, before the port is bound |
| slot verification | `jev-core/src/slots.rs` | none | `verify_slots` | `encode` of the tokenizer client |
| prompt rendering | `jev-core/src/render.rs`, `contract.rs` | none | `render_question` | request handler |
| readout backend | `jev-backend/src/openai.rs`, `lib.rs` | `batch_fallbacks` | `token_logprobs_batch`, `token_logprobs`, `choice_top_logprobs` | `/completions` of the endpoint |
| request handler | `jev-server/src/api.rs` | per request only | `systemone` | all of the above |
| probability mathematics | `jev-core/src/prob.rs`, `api.rs`, `lib.rs` | none | `slot_logprob`, `softmax`, `round6`, `repair_probability_sum`, `argmax_in_order`, `score_expectation`, `confidence` | request handler |
| benchmark | `jev-server/src/bench.rs` | samples in memory, a result file per day and host | `run`: single requests and batches interleaved, the report, the write | readout backend |
| evaluation | `jev-eval/src` | files: items, predictions, reports | `run`, `verify`, `import` | the file system |
| drivers | `scripts/run-eval-paired.py`, `accept-m3-paired.sh` | answers in memory, then three files named after the second; a directory others write into | drive both languages item by item with one retry; gate, drive, pick the newest run, report, compare | request handler, evaluation |
| proxy | `tools/sysrole-proxy.py` | one thread per connection | rewrite roles, forward, relay whole or chunked replies | a client and a chat endpoint |
| data scripts | `merge-item-sets.py`, `translate-mt.py`, `finalize-mt.py`, `check-en-parity.py` | item files and their reports | merge, translate, drop, gate | the file system |

What is hard about it:

* every request is a task on a multi-threaded runtime; requests share the
  tokenizer's cache and memo and the backend's counter, and every POST is a point
  where other tasks run, the client may disconnect (its future is dropped there)
  or the endpoint may be redeployed;
* `encode` is synchronous and *panics* on a text that was not prefetched;
* endpoints differ: one ignores an unknown field with `200 {"tokens": []}`, one
  rejects an array prompt, some leave out `index`, some reorder;
* one batch is all-or-nothing, its fallback is N requests that may fail halfway;
* published numbers are rounded, repaired and then read again for the answer;
* the evaluation's commands share files: one is read twice, writes truncate first,
  and a report is a claim that anybody may have edited;
* a driver whose wait ends does not know what became of its request, may be
  killed between its three files, and acceptance finds "its" run as the newest
  file of a shared directory;
* a proxied reply may be cut off at any byte, on either side;
* four scripts apply the same rules of parity, each in its own code.

Correctness, per component: what was prefetched can be encoded, nothing unusable
is cached, the memo is right and a dialect that is spoken is found (tokenizer);
exactly the readable questions are accepted and the startup check covers what the
renderer uses (verification); readouts are aligned with prompts or refused, and
token counts conserved (backend); the first faulty question decides, nothing is
read for a refused request and each answer comes from its own readout (handler);
the published map is a distribution, near the readout's own in every number
(probability); a report's numbers follow from the evidence its hashes name, no item
is lost from its counts, and `verify` is right (evaluation); an exit code tells
whether every item was answered, and what is compared belongs together (drivers);
a published benchmark is of one whole run and says what its batched arm was
(benchmark); no stream cut short looks complete (proxy); slots stay where they are
and only the unusable is left out (data scripts).  `PROJECT.json` lists the
hazards line by line.

## Modules

| Module | Models | Notes |
|---|---|---|
| `TokenService` | what the handler relies on when it calls `prefetch` and then `encode` | abstract specification |
| `HttpTokenizer` | `HttpTokenizer` of `tokenizer.rs` | implements `TokenService` |
| `SlotVerification` | `verify_slots`, the texts it needs, the slots of a question | operators only |
| `ServerStart` | `main` up to the bind, the two self-checks, and questions after it | extends `SlotVerification` |
| `ReadoutService` | the contract of the trait method `token_logprobs_batch` | abstract specification |
| `ReadoutBackend` | `OpenAiCompatBackend` of `openai.rs` | implements `ReadoutService` |
| `SystemOneService` | the handler as its clients see it | abstract specification |
| `SystemOne` | the handler `systemone` | composed with `TokenService` and `ReadoutService`, implements `SystemOneService`, extends `SlotVerification` |
| `PublishedAnswer` | from one readout to the published map and answer | exact arithmetic |
| `Bench` | `jev-bench` | extends `ReadoutBackend` |
| `EvalDriver` | `run-eval-paired.py` | composed with `SystemOneService` |
| `PairedAcceptance` | `accept-m3-paired.sh` and the pairing of `pair-diff.py` | extends `EvalDriver` |
| `Evaluation` | what loads, the metrics, the report and the comparison, as functions of file contents | extends `SlotVerification` (the renderer's limits) |
| `EvalPipeline` | `import`, `run` and `verify` as processes on shared files | extends `Evaluation` |
| `SysroleProxy` | `sysrole-proxy.py` | |
| `ItemSets` | the four data scripts | |
| `MC*` | instances for TLC | values of the constants, and a bound in `MCPairedAcceptance`; `MCServer` puts `ServerStart` and `PublishedAnswer`, which share no state, into one run |
| `Ordering` | sorting a finite set of integers | shared by the drivers, the evaluation and the data scripts |
| `FiniteSums`, `*Proofs` | lemmas and theorems, see Proofs | `FiniteSums` holds what is used by several of the others |

The chain of refinements: `HttpTokenizer` implements `TokenService`,
`ReadoutBackend` implements `ReadoutService`, `SystemOne` is written over these two
and implements `SystemOneService`, and `EvalDriver` is written over that.  So what
is shown of an acceptance rests on promises that are shown of the server.

### HttpTokenizer and TokenService

A task (the startup check or a request) is at a stage `pc[t]`: it looks a text
up, misses, posts along the ladder, stores, and when the list is done encodes
every text of it.  One action per step between two awaits or two lock
acquisitions: `try_encode` looks up and inserts under separate lock
acquisitions, so two tasks may both miss; `encode_one` reads the memo under a
lock it releases before it posts.  `rung[t]` is the attempt in flight: 0 is the
remembered combination, 1..4 the ladder of (URL, field).  A deployment of the
endpoint says how each combination is treated (`tokenizes`, `ignores` = 200 with
no tokens, `errors`), which vocabulary it has and whether a POST to it may fail
besides (`flaky`); the pairs of `Redeploys` are the replacements that may happen.
A token list is the vocabulary it came from or `NoTokens`.  `steady[t]` is a history
variable: the endpoint has not been replaced since `encode_one` of task t began,
whatever the memo it began with was learnt from.

The refinement maps a working task to a pending call of `TokenService`; filling
the cache is `Fill`, everything on the ladder stutters.

### SlotVerification and ServerStart

A text is a sequence of pieces, so "prompt with letter appended" is a different
text from both, and an encoding is any function from texts to token ids.
`ServerStart` runs `main` for every value of `JEV_SLOT_CHECK` and every encoding,
and then verifies questions on the probed prompt tail.

### ReadoutBackend and ReadoutService

A call posts the array; `ArrayAnswered` runs all checks of a 200 in their order
(count, index, permutation, distributions in index order); `FallBack` counts and
goes to one POST per prompt; other statuses fail.  `heard` is a history variable:
the replies a call got, for the properties only.  Any 2xx status is 200.
Positions and indexes are 1-based.

### SystemOne and SystemOneService

The steps of `systemone` between its awaits.  Step 2 (`Prepare`, `Tokenize`,
`Prefetched`, `Verify`) runs question by question through the shared cache; step
3 is one call of `ReadoutService`; step 4 (`Assemble`) is synchronous.  Which
readouts lack a declared slot is nondeterministic.  `steady` is a history
variable: the endpoint has not been replaced yet, so that one run covers both a
stable endpoint (where `FirstFaultWins` is stated) and redeployments.  The numbers in an answer are
`PublishedAnswer`'s; here an answer is the prompt whose readout it came from.
Two internal errors are not modelled: a backend that breaks the trait's length
(the composition with `ReadoutService` excludes it) and a softmax that does not
sum to 1.

`SystemOneService` is what a client may rely on: a request is taken, its prompts are
read and paid for at most once, and it is answered as a whole, each question from
its own prompt, or refused as a whole, before or after the payment.

### PublishedAnswer

Published probabilities are integers in units of 1/`Unit` (the code's is
1000000; a run uses a small unit so that rounding matters at small masses).
Rounding, residual and repair are exact; floating-point noise below one unit is
not modelled.  The confidence formula (an entropy) is not modelled.

### Bench

Per repeat a block of single requests and one call of `ReadoutBackend`, whose own
actions are the steps of the batch; any failure ends the run without a file.
A request takes any of `Durations`, all positive integers.  The code reads two sets of
clocks: the samples of the requests and of the batch (`bench.rs:511`, 526), from
which percentiles, totals and speedup are made, and one per block (516, 539), from
which the ratio of the repeat is made.  The clock of a block also runs through the
bookkeeping, so it shows its samples and one of `Overheads` more, at most `MaxOverhead`;
it is why a ratio is only near that of the samples, and why the speedup is
between the ratios of the samples and not between those that are reported.
`Sorted(s, k)` is what stands at position k once the samples are sorted; percentiles,
speedup and ratios are exact.  The file is emptied and then filled, a crash may come before any step,
and a later run of the day is a new process that writes the same file.

### EvalDriver and PairedAcceptance

A driver sends request <<driver, item of its plan, attempt>>; the server's steps
are those of `SystemOneService`.  `Refused` is an error status, `Lost` a timeout or a
broken connection: the server may still be working, so a second attempt runs
beside the first.  The steps of the server at requests for an item that its driver has
left are omitted (`Current`): nobody reads them.  The date is read once, when the last item is
done; each of the three files is emptied and then filled, and a driver may be
killed before any step.  `Mixed` is the author of a file two processes wrote, and
`NoFile` is an absent one.  `OneRunPerSecond` keeps two runs from ending in the
same second: the code does not, and the properties of the files need it.

`PairedAcceptance` adds the script: the gate, the driver or JEV_SKIP_DRIVE, the
pick of the newest meta file whatever the driver's exit code was, and then, per
language, the commands of jev-eval on the files that are named by the date alone and so
shared by all acceptances that pick one run.  Each access to a file is a step:
`import` reads the answers and empties the predictions (`Import`), then writes them
(`WriteRows`); `run` loads them (`Load`), empties the report and writes it; `verify`
loads them again and compares; `tamper-report.py` reads the report.  Step 7 reads the
reports for the tables and then the predictions for the pairs, with a reader of its
own (`ReadRows`).  Two processes that have emptied one file and then write it leave
the longer one's end behind the shorter one's text: `WrittenRows` and `WrittenReport`
are the files that can come of it.  So an acceptance may lose driven pairs to another
one of the same run, whose sets are smaller, without an error, and
`CompareLikeWithLike` says that all of them are compared only where an acceptance is
alone with its run (`Alone`); what is compared is right in any case.  The two reads
of one command are one here, `EvalPipeline` has them apart.  That the tampered copy
is refused is taken from `verify`.  The item sets are pinned by their manifests and do
not change.  The markdown of step 7 is not modelled.

### Evaluation and EvalPipeline

A file is the sequence of its rows and stands for its own hash; `Junk` is a row
that does not parse or lacks a required text.  Slot keys are the strings of the
code, since strata pool classes across items by their key.  Probabilities are
integers in units of 1/`Unit`; means and rates are fractions <<numerator,
denominator>> in lowest terms (`Ratio`), so that one value has one form, as a float
has, and `<<>>` where the code has `None`; two of them are compared by
cross-multiplication (`Close`).  Only the NLL is left out.  `ReportLoads` is what
serde accepts: the structs refuse a field they do not name (`deny_unknown_fields`).
A bin of the curve alone does not; there serde drops the field, and such a file is
the report without it.

A row loads when its numbers are not negative and sum to 1 within 1e-6
(`predictions.rs:81`), `SumTolerance` units here, so a confidence may exceed 1 by as
much.  It falls into the last bin, whose upper bound it then exceeds, and the
calibration error may exceed 1 by as much as well; the properties say so.  The row
that `import` writes for a noul sums to 1, because it computes the other side itself.

A process is at `pc[j]` and has its command line and what it has read in
`held[j]`.  There is one action per access to a file: `load_item_set` hashes the
bytes it parses (one action), the predictions are loaded and then read again to be
hashed (two), every write truncates and then writes (two), and may fail with a
part of the rows written.  `Replace` is anybody else: a file replaced, a report
edited.  Two commands with one `--out` at a time are excluded (`SoleWriter`).  Not
modelled: `--bins 0` (refused before any file is read), `--expect-sha256` (the
manifest's comparison with another source of the hash), a report printed to
stdout, and the warnings of `import`.  `moved` and `published` are history
variables; `moved` marks a run, and a verification, between whose two reads of the
predictions the file was replaced.

### SysroleProxy

A client asks again on its connection as long as that is open; the thread of the connection
reads and rewrites a request (`Rewrite`; a JSON body that is no object ends the
thread), forwards it, and either sends on a reply as a whole or relays a
chunked one piece by piece (`wire` is what the endpoint has sent and the thread has
not read).  A reply of known length that is cut short raises before a byte of it was
sent (`ReplyCutShort`); one that has no length ends with the endpoint's connection, and
cut short it is sent on with a Content-Length of its own, so that it looks whole
(`PartReply`).  The endpoint may refuse, stall, or, for the clients in `Unlucky`,
break off at any point; the client may go away.  `emitted` is a history variable.

### ItemSets

One action per item of the translator and per file of the other scripts.  A
translation is any assignment of labels (one per label, `term_audit`), any loss of
facts in `Losses`, and may be `broken` in a way the rules of the translator's day did not see.
`FinalDrops` is finalize-mt's rule and `PassesParity` the gate's, written apart as
in the code.

## Runs

| Run | Question | Bounds and why they suffice |
|---|---|---|
| `tokenizer` | what do races, failures, drops and redeployments do to the cache and the memo, is the spoken dialect found however stale the memo is, does every prefetch end? | all 81 treatments of 2 URLs x 2 fields at a stable endpoint, and five deployments of two vocabularies that replace one another at any time, two of them reliable; two tasks that share an empty and a non-empty text, so a memo or an entry written by one is used by the other |
| `server` | does the self-check cover the renderer, is verification exact; is the map a distribution near the readout's, and the answer near the best? | the start and an answer are explored side by side, not in combination. Three letters: enough for a letter to collide with either neighbour while a third differs. Up to five slots, masses and a unit small enough for ties, deficits and excesses |
| `published_flat` | finding: an all-equal distribution of six | unit 1000000, as in the code |
| `readout` | are readouts aligned, whatever comes back, and do concurrent calls and fallbacks keep the contract and the token counts? | a call of up to three prompts (with two, a permutation is its own inverse) and a call of up to two; every order and labelling of the choices, one defect |
| `systemone` | which refusal wins, does the handler keep its promise, is every request answered? | two requests of up to two questions, three vocabularies (good, merging, over the budget), any number of redeployments among them |
| `eval_numbers` | do the strata and metrics of a report hang together, and does `import` keep the answers? | one process, one import and one run; three items of the three kinds, 168 prediction files with ties, labels only and missing rows, answers that are malformed, partial or of the wrong kind; one bin and three |
| `eval_races` | what do races, crashes, replaced and edited files do to reports and verdicts? | two processes, three commands (run, verify and one that disturbs them), one change from outside, eleven edits of a report, item and prediction files that do not load |
| `drivers` | does the exit code tell the truth, is a meta file there only over whole answers, does the usage count what was kept? | two drivers of one directory, sets of one key or an English set that lacks one of two; `MaxSilences` 2 (an item can fail, or two be retried), `MaxKills` 1, `MaxSecond` 1 (two runs, each in a second of its own) |
| `acceptance` | is what is compared of one run and one key, although acceptances share the files of a run? | two acceptances, sets of one key, of two, or an English set that lacks one of two, so that a smaller set overwrites what a larger one wrote; the driver skipped or not, missing items allowed or not, `MaxKills` 1, `MaxSecond` 1; replies are lost (`MaxSilences` 2) where only one driver of one key runs and nobody is killed (`LossesApart`), because the loss of an item concerns the one run that all later steps read |
| `bench` | is a published report of one whole run, with its batched arm accounted for? | two repeats of two questions, durations 1 and 4, blocks that take 1 longer than their requests, endpoints that answer out of order, refuse the array (404) or fail (0); two runs of one day |
| `proxy` | what does the endpoint get, what does a client take for a reply, does every reply end? | two connections with two requests each (the second shows a connection reused), `MaxChunks` 1 before the terminal chunk: cut before, between and behind; five bodies; one connection to an endpoint that breaks replies off |
| `item_sets` | do slots stay, does the gate accept what was finalised, is only the unusable left out? | three items of the three kinds, two of which share a label, every translation of three labels, each single loss; `--limit` 2 or none, finalised twice |

Deadlock checking is off where the modelled processes really end: everywhere
but in `tokenizer`, whose client serves for ever.  `LossesApart`, `MaxSecond`, `MaxSilences`,
`MaxKills`, `MaxRuns`, `MaxOverhead`, `MaxRequests`, `MaxChunks`, `MaxFinals`, `MaxCommands` and
`MaxChanges` are bounds of the models and not of the code.  Symmetry is used for
processes and drivers in runs without liveness.

Fairness: `HttpTokenizer!FairSpec` assumes that a task's own next step is taken:
the runtime polls a ready task again, and the client's 30 s timeout ends a POST.
`SystemOne!FairSpec` assumes the same of the handler, and that a prefetch and a
batch end (the first is what `EveryPrefetchEnds` shows; the second has a 120 s
timeout per POST).  `SysroleProxy!FairSpec` assumes that threads are scheduled,
and that on an open stream something happens, since a read of the endpoint ends
after 3600 s.  No fairness on clients, disconnections or redeployments.

## Findings

A run that TLC ends with a counterexample; `PROJECT.json` quotes the lines.

1. The repair of the sum may lower the first of several equal maxima, so an
   all-equal distribution of six options names the second (`published_flat`).

Read while modelling, and modelled as the code has them, without a run:

* `encode_one` skips phase 2 after a total failure of phase 1 (`tokenizer.rs:385`),
  although its doc comment (lines 335-339) lists that case; a comment further down
  in the function argues for what the code does.  `SpokenDialectIsFound` states
  exactly what is found.
* The strict self-check looks at the tail and the letter A only: "additionally
  pins" (`tokenizer.rs:171`) does not make it stronger than the letters check.
* `batch_fallbacks` counts refused arrays, also of calls whose fallback then
  fails (`openai.rs:200`), and one refusal does not mean that no call is batched.
* A missing slot is a 422 after a paid readout (`api.rs:228`), where
  `api.rs:132-135` says that every contract violation surfaces before one is paid
  for.  `SystemOneService` therefore allows a refusal after the payment.
* `verify` without `--tol` compares at 1e-12 (`cli.rs:183`), where the help text
  (`cli.rs:86`) and the report's own documentation (`report.rs:75-76`) name the
  tolerance recorded in the report; `cli.rs:177-182` argues for what the code does.
* Rows without probabilities are "counted in `n_items`/`n_missing`"
  (`metrics.rs:37`, `eval/README.md` §3) only if they have no label either:
  `n_missing` counts rows with neither (`metrics.rs:111`, 157-160).
* "`run` is the only writer" (`cli.rs:9`): `import` writes too.
* An import that breaks off leaves a prediction file that loads; what it lacks is
  counted as missing (`CoverageIsNotHidden`), as if the server had not answered.
* A cache entry outlives the model it came from (`tokenizer.rs:310`): after a
  redeployment requests are verified on the former vocabulary.
* Two runs of a driver that end in the same second write the same files
  (`run-eval-paired.py:116`), although line 12 says that runs never overwrite each
  other; hence the assumption `OneRunPerSecond`.
* Acceptance ignores the driver's exit code (`accept-m3-paired.sh:66-70`) and takes
  the newest meta file, so a driver that refuses its sets falls back to an earlier
  run, as only JEV_SKIP_DRIVE is said to do.  `CompareLikeWithLike` is what holds
  all the same.
* Predictions and reports are named by the date of the run alone
  (`accept-m3-paired.sh:77-86`): two acceptances of one run write the same files, and
  the comparison of one may read what the other, with a smaller set, left there
  (`pair-diff.py:169-183`).  The pairs that are missing then are not reported as lost.
* The note of the benchmark says that *every* shared block was sequential
  (`bench.rs:605-606`); the counter it is drawn from says how many were.
* When the endpoint closes within a chunked reply, the proxy leaves its client's
  connection open without a terminal chunk (`sysrole-proxy.py:155`); the mark
  `[system] ` is not put on a message whose content is a list of parts (line 78),
  and a JSON body that is not an object ends the connection without a reply (line 69).
  A reply without a length that is cut short is sent on as a whole one (line 146), so
  `TruncationIsNotAnAnswer` is about streams.
* `verify` reads the predictions twice as `run` does (`cli.rs:170`): replaced in
  between, the numbers of one file may confirm a report that names the other.  No
  property excludes it; `moved` marks these verifications.
* `finalize-mt` declares every key that is absent from the translation as dropped by
  the translator (`finalize-mt.py:60`), also those it never got to; the gate then
  accepts them as declared, though `check-en-parity.py:33-34` calls a silent loss an
  error.  `DropsAreTheUnusable` names these items among the permitted ones.

## Proofs

Each theorem holds for every value of the constants under the named ASSUMEs
(sentinels differ from values, sequences are over their sets, encodings are lists
of numbers, the choices of a reply are of the shape the parser gives them); TLC
evaluates the ASSUMEs in every run.  For each module: what is proved, the inductive
invariant, and why the property alone is not inductive.

* `HttpTokenizerProofs`: types; `encode` never panics; no non-empty text is cached
  without tokens; the memo is right at a stable endpoint; `encode_one` finds the
  spoken dialect, whatever stale memo it starts from, when the endpoint stays while it
  runs; the client implements `TokenService`.  `IInv` adds: what a task has
  fetched so far is in the cache (`FetchedSoFar`, kept because entries never go
  away, `CacheGrows`); what a task is about to store is usable (`CarriesUsable`);
  and a task on rung k at an endpoint that has stayed has learnt that the rungs below do
  not tokenize, and has `ignored` set if one of the first two ignored the field
  (`LadderClimbed`; it asks nothing of the memo, since the ladder starts over behind
  it).  The dialect theorem also rests on `UrlsAreTheRoutes`: with or without `/v1` in the
  base URL, the two spellings are the two routes of the host.
* `FiniteSums`: what a sum over a finite set does when an element is added, taken
  away or changed, when it is split into parts or scaled; that a fold takes the
  elements one at a time; that a finite set of numbers has a least and a greatest, and
  that `InOrder` lists it in order.  The library's induction theorems cannot be
  instantiated, so each is shown by a smallest counterexample: the subsets of a finite
  set are well-founded under inclusion (`SmallestSet`), and a smallest set at which
  the formula fails cannot be empty and cannot lose an element.
* `ReadoutBackendProofs`: a call that succeeds has each prompt's own readout in its
  place; it succeeds only on a 200 for the array, or on a refused shape and a 200
  for every prompt; and, where the endpoint tells no falsehood about the order
  (hypothesis `HonestOrder`), the backend implements `ReadoutService`.
  `BackendInv` says what each call has heard at each stage, and that a fallback has
  the readouts of the first prompts, one per reply.  The heart of the alignment is
  `SortedIntoPromptOrder`: indexes that are a permutation of 1..n name each prompt
  once (an onto map of a finite set to itself is one-to-one), and choices without
  an index keep the order of the request: an order-keeping map of a set of
  positions onto itself is the identity, by its least exception.
  `TokensAreConserved`: what a successful call charges is what the endpoint reported
  with the answers it used, each once.

  About `Bench`, for any number of prompts, repeats and runs and all positive
  durations: a report that can be read covers every prompt of every repeat in both
  arms; its percentiles split the samples as percentiles should (`SortedIs`: at
  position k of the sorted samples stands one with fewer than k below it and k not
  above it); its speedup lies between the quotients of the samples of its repeats
  (`SpeedupBetween`: a quotient of sums lies between the least and the greatest of the
  quotients); each ratio is such a quotient, give or take `MaxOverhead` on either side; it
  counts the sequential blocks, and its tokens are those of the answers.  `BenchInv`
  says how many samples each arm has at each stage (`Progress`), that the blocks of the
  repeats that are over took what their requests took, and one overhead each (`Blocks`), and that their batches
  succeeded with the prompts of the run and their tokens are added up (`Answers`);
  `BatchesInv` says that `batch_fallbacks` is the number of calls that fell back
  (`RefusalsCounted`), which the report takes for the number of sequential blocks.
* `SystemOneProofs`: `verify_slots` accepts exactly the readable questions, for every
  encoding and number of letters, and the letters check covers every letter the
  renderer names; the handler never panics; while the endpoint stays the same
  the refusal follows from the body alone and nothing is read before it; the
  handler implements `SystemOneService`.  `HandlerInv` ties each stage to the call it
  awaits (`Handled`), says that the cache repeats the vocabulary while the endpoint
  is steady, and that the questions before the one at hand have no fault (`Judged`).

  About `PublishedAnswer`: the published map sums to one and has no negative slot;
  every number of it is within half a unit of the readout's, in the readout's order,
  except the one slot the residual went to, which is within (n - 1)/2 units; the slot named was at most (n + 2)/2 units behind the
  best.  Assumed of a readout (`ReadoutAssumption`): positive masses, and few slots
  against the unit, n(n - 2) <= 2 `Unit`; with the code's unit of 1000000 that is up to
  1415 options, where the letters end at 26.  It is needed: rounding moves the sum by
  up to n/2 units, which the largest slot must be able to give.  `AnswerInv` says what
  `probs` is at each phase; the arithmetic is in the lemmas about rounding and repair
  before it.
* `EvalPipelineProofs`: the files may be of any length and content, and anybody may
  replace or edit them between any two accesses.

  About the processes: the numbers of a published report follow from the item set
  and predictions its hashes name, unless the predictions were replaced between the
  two reads; a pinned run scores the pinned set; the markdown follows the report.
  `PipelineInv` says what a process holds at each stage (`Holds`) and that one `run`
  at a time writes (`OneRun`).

  About the numbers: `EvidenceInv` adds that what a process goes on with came from
  files that loaded, that the outcome of a comparison is `Verify`'s, and that the
  report published last was built of files that loaded (`WasBuilt`), without which
  nothing could be said of its numbers.  From there the argument is about the
  operators.  An honest report is confirmed: a number agrees with itself whatever the
  tolerance, and so does every stratum made of numbers (`StrataAgreeWithThemselves`).
  A report confirmed at tolerance zero is reproducible: without a tolerance, two
  fractions that agree are one (`CloseIsSame`, because `Ratio` gives each value one
  form, `RatioUnique`), and the comparison visits every field of a report that parses
  (`StrataAreTheSame`): a field the comparator did not visit would break this
  proof.  The order of rows does not matter, since ids are distinct and rows are found
  by id.  `import` loads exactly when the answers are distributions and then predicts
  what the server answered (`AnswerLoads`, `AnswerIsPredicted`).  Coverage is not
  hidden: every field that counts does so sample by sample, and samples parted by
  source or category are each in one part (`CountsAddUp`).  A bin holds its confidence
  because a mean lies between the bounds of its terms.  The calibration error is at
  least the overall gap, by the triangle inequality over the bins, and at most one,
  since no bin's gap exceeds its number of samples (give or take the tolerance of a
  row's sum).
* `EvalDriverProofs`, for any number of drivers, acceptances, kills and lost replies,
  and all sets of integer keys (`DriverAssumption`).  Under `OneRunPerSecond`: the date
  of a meta file has both answer files, whole, of the same run, with the answers it
  lists; an exit code of 0 means that the files answer every planned item, of their own
  language and from its own prompt, and what is missing otherwise was tried twice;
  what an acceptance compares are answers of one run to the two sides of a key.
  Without it: the usage a driver sums up is that of the answers it keeps.
  `DirectoryInv` says where each run is in its three files: those before the one at
  hand are whole, those behind are absent, and no two runs have one date.  `DrivesInv`
  says that the server answers what it was asked and was asked what is planned
  (`ServiceInv`), that the items of the plan so far are answered or given up
  (`Settled`), and that an answer kept was paid for and counts once (`Keeps`): an item
  stands in a plan once, so that the answers of two items never share a request.
  `AcceptInv` says that the date picked has a meta file, hence (with the other two)
  whole answers of one run; that the predictions and reports of a date, whoever wrote
  them and however they were cut, hold no row that is not of that run's answers
  (`Shares`); that the same holds of what an acceptance has read; and that one that is
  alone with its run reads exactly what it wrote (`GoesOn`), so that it loses no
  pair.  `AcceptanceDrives` shows
  that acceptances are drivers, so the same holds under `PairedAcceptance`.
* `ItemSetsProofs`, for all item files, all translations and any number of runs of
  finalize-mt: in a pair that passed the gate the slots of every item agree, label by
  label; a final set with its report always passes; what an accepted pair lacks has one
  of the permitted reasons.  `ItemSetsInv` says that the merged set has an id per item
  (`MergedIs`), that every item the translator is past is in the raw set or was left out
  and that the raw set was made of them (`TranslatedSoFar`), that a final set is the raw
  one without `FinalDrops`, and that a report that exists lists these.  What was made of
  an item stays so while more labels are learnt, because a label keeps its first
  translation (`MadeFromStays`).  The slot of a label is where it stands, because used
  labels are in code-point order (`SlotOfLabel`: the labels below it are those before it).
* `SysroleProxyProofs`: what is forwarded is the client's conversation without a
  misplaced system message; what a client has of a stream is its beginning.
  `ProxyInv` says, per connection, that what the client got followed by what is on
  the wire is what the endpoint emitted, and that a stream ends once at most.

Assumed of the constants, besides what is named above: a file is a sequence, and an
item or an answer has the fields its kind has (`PipelineAssumption`: serde's types);
`--bins` is positive and a tolerance not negative; the unit is positive
(`UnitAssumption`).  These say what a parsed file is and never that it is valid: what
makes it valid is checked by the actions.

An item has one of the three kinds and its right answer among its slots
(`ItemSetsAssumption`), which validate-items.py asks of an item set and none of the
four scripts checks again.

Only model-checked: liveness (fairness and ENABLED are out of the prover's reach).
Every invariant, action property and refinement that a run expects to hold is also a
theorem.

## Not modelled

* The mock backend: a script of readouts for tests, under the trait's default loop
  (prompt by prompt, to the first error); no server runs on it.
* The confidence formula and the NLL: they need real logarithms, which TLC does
  not have.
* The text of prompts and the wording of errors and notes.
* `run-eval-items.py`, which is the loop of `EvalDriver` over one set and one
  output, and `run-laya-items.py`, which drives an external model in process.
* `normalize-answers.py`, `validate-items.py` and the degeneration checks of
  `qc_common.py`: string processing of one item at a time.
* The analyses and the other acceptance scripts: one pass over finished files.
* The date arithmetic and host notes of `jev-bench`; `healthz`.
