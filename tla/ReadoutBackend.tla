--------------------------- MODULE ReadoutBackend ---------------------------
(***************************************************************************)
(* OpenAiCompatBackend::token_logprobs_batch: one POST with an array of    *)
(* prompts; when the endpoint refuses that request shape, one POST per     *)
(* prompt instead.  Calls of concurrent requests share one backend and its *)
(* `batch_fallbacks` counter.  Positions and indexes are 1-based here.     *)
(***************************************************************************)
EXTENDS Naturals, Sequences, FiniteSets, Functions

CONSTANTS
    Calls,
    Batches,     \* Batches[c]: the prompt sequences call c may be made with
    Statuses,    \* statuses other than 200 the endpoint may answer
    ChoiceLists, \* ChoiceLists[n]: what the `choices` of a 200 to n prompts
                 \* may be: a sequence of choices, or
    NoChoices,   \*   JSON without a `choices` array, or
    NotJson,     \*   no JSON
    Usages,      \* the `usage.prompt_tokens` of a 200
    NoIndex,     \* a choice without `index`
    NotAnIndex   \* a choice whose `index` is not an integer

\* A choice is [of, index, map, content]: the prompt it answers, the index it
\* claims, and what `logprobs.top_logprobs[0]` and
\* `logprobs.content[0].top_logprobs` hold.  A distribution is absent or
\* empty ("none"), all numbers, or has an entry that is not one ("junk").
Distributions == {"none", "numbers", "junk"}
WireChoices == [of : Nat, index : Nat \cup {NoIndex, NotAnIndex},
                map : Distributions, content : Distributions]

\* A reply to a POST; status 0 is a connection that failed or timed out.
Refusal(s) == [status |-> s, choices |-> NoChoices, usage |-> 0]
Success(cs, u) == [status |-> 200, choices |-> cs, usage |-> u]

RepliesTo(n) ==
    {Refusal(s) : s \in Statuses} \cup {Success(cs, u) : cs \in ChoiceLists[n], u \in Usages}

ASSUME StatusesAssumption == Statuses \subseteq Nat \ {200} /\ Usages \subseteq Nat
ASSUME SentinelsAssumption == NoIndex \notin Nat /\ NotAnIndex \notin Nat \cup {NoIndex}
ASSUME ChoiceListsAssumption ==
    /\ 1 \in DOMAIN ChoiceLists
    /\ \A n \in DOMAIN ChoiceLists : ChoiceLists[n] \subseteq Seq(WireChoices) \cup {NoChoices, NotJson}
ASSUME BatchesAssumption ==
    \A c \in Calls : \A ps \in Batches[c] :
        ps \in Seq(Range(ps)) /\ Len(ps) \in DOMAIN ChoiceLists \cup {0}

VARIABLES
    pc,         \* where call c is; its result once it is over
    prompts,
    readouts,   \* the vector being filled, and returned
    fallbacks,  \* OpenAiCompatBackend.batch_fallbacks
    heard       \* history: the replies call c has got

vars == <<pc, prompts, readouts, fallbacks, heard>>

Over == {"ok", "Http", "NoLogprobs", "Decode", "dropped"}

-----------------------------------------------------------------------------
(* Reading a response. *)

\* choice_top_logprobs: the legacy map, if it is there and not empty, decides
\* alone; else the content array; else there are no logprobs.
TopLogprobs(ch) ==
    LET shape == IF ch.map # "none" THEN ch.map ELSE ch.content IN
    CASE shape = "numbers" -> "ok"
      [] shape = "junk" -> "Decode"
      [] OTHER -> "NoLogprobs"

\* The index of the choice at a position of the wire order.
IndexAt(cs, pos) == IF cs[pos].index = NoIndex THEN pos ELSE cs[pos].index

\* Sorted by index, the choices must have the indexes 1, 2, ..., N.
Permutation(cs) ==
    /\ \A pos \in DOMAIN cs : cs[pos].index # NotAnIndex
    /\ {IndexAt(cs, pos) : pos \in DOMAIN cs} = DOMAIN cs

\* Mutant: the wire order is trusted.
InIndexOrderAsSent(cs) == cs

\* The choices sorted by index.
InIndexOrder(cs) ==
    [i \in DOMAIN cs |-> cs[CHOOSE pos \in DOMAIN cs : IndexAt(cs, pos) = i]]

Unusable(cs) == {i \in DOMAIN cs : TopLogprobs(InIndexOrder(cs)[i]) # "ok"}

\* What a 200 to an array of n prompts comes to: the first check it fails.
BatchVerdict(cs, n) ==
    IF cs \in {NoChoices, NotJson} THEN "Decode"
    ELSE IF Len(cs) # n \/ ~Permutation(cs) THEN "Decode"
    ELSE IF Unusable(cs) = {} THEN "ok"
    ELSE TopLogprobs(InIndexOrder(cs)[CHOOSE i \in Unusable(cs) : \A j \in Unusable(cs) : i <= j])

Reads(p, n) == [prompt |-> p, prompt_tokens |-> n]

\* Mutant: the usage of the whole batch is given to every readout.
BatchUsageRepeated(i, usage) == usage

\* The usage of the whole batch is given to the first readout.
BatchUsage(i, usage) == IF i = 1 THEN usage ELSE 0

\* The readouts of a batch whose prompts are ps.
BatchReadouts(ps, cs, usage) ==
    [i \in DOMAIN cs |-> Reads(ps[InIndexOrder(cs)[i].of], BatchUsage(i, usage))]

\* Mutant: any client error is taken for a shape rejection.
RequestShapeAnyClientError == 400..499

\* The statuses that mean "this endpoint cannot batch".
RequestShape == {400, 404, 405, 415, 422}

-----------------------------------------------------------------------------
Init ==
    /\ pc = [c \in Calls |-> "none"]
    /\ prompts = [c \in Calls |-> <<>>]
    /\ readouts = [c \in Calls |-> <<>>]
    /\ fallbacks = 0
    /\ heard = [c \in Calls |-> <<>>]

\* The call: nothing to ask is answered at once, else the array is posted.
TokenLogprobsBatch(c, ps) ==
    /\ pc[c] = "none"
    /\ prompts' = [prompts EXCEPT ![c] = ps]
    /\ pc' = [pc EXCEPT ![c] = IF ps = <<>> THEN "ok" ELSE "array"]
    /\ UNCHANGED <<readouts, fallbacks, heard>>

Hears(c, a) == heard' = [heard EXCEPT ![c] = Append(@, a)]

\* A 200 to the array: all the readouts, or an error.
ArrayAnswered(c) ==
    /\ pc[c] = "array"
    /\ \E a \in RepliesTo(Len(prompts[c])) :
        /\ a.status = 200
        /\ pc' = [pc EXCEPT ![c] = BatchVerdict(a.choices, Len(prompts[c]))]
        /\ readouts' = [readouts EXCEPT ![c] =
             IF pc'[c] = "ok" THEN BatchReadouts(prompts[c], a.choices, a.usage) ELSE @]
        /\ Hears(c, a)
    /\ UNCHANGED <<prompts, fallbacks>>

\* fetch_add(1): one per call.
Counted(c) == fallbacks + 1

\* The endpoint refused the shape: count it and ask one by one.
FallBack(c) ==
    /\ pc[c] = "array"
    /\ \E a \in RepliesTo(Len(prompts[c])) : a.status \in RequestShape /\ Hears(c, a)
    /\ fallbacks' = Counted(c)
    /\ pc' = [pc EXCEPT ![c] = "single"]
    /\ UNCHANGED <<prompts, readouts>>

\* Any other status, or no answer, fails the call.
ArrayFailed(c) ==
    /\ pc[c] = "array"
    /\ \E a \in RepliesTo(Len(prompts[c])) :
        a.status \notin RequestShape \cup {200} /\ Hears(c, a)
    /\ pc' = [pc EXCEPT ![c] = "Http"]
    /\ UNCHANGED <<prompts, readouts, fallbacks>>

\* token_logprobs: what one prompt's reply comes to.
SingleVerdict(a) ==
    IF a.status # 200 THEN "Http"
    ELSE IF a.choices = NotJson THEN "Decode"
    ELSE IF a.choices \in {NoChoices, <<>>} THEN "NoLogprobs"
    ELSE TopLogprobs(a.choices[1])

\* The next prompt of a fallback got a readout.
SingleAnswered(c) ==
    /\ pc[c] = "single"
    /\ \E a \in RepliesTo(1) :
        /\ SingleVerdict(a) = "ok"
        /\ readouts' = [readouts EXCEPT ![c] = Append(@, Reads(prompts[c][Len(@) + 1], a.usage))]
        /\ Hears(c, a)
    /\ pc' = [pc EXCEPT ![c] = IF Len(readouts'[c]) = Len(prompts[c]) THEN "ok" ELSE @]
    /\ UNCHANGED <<prompts, fallbacks>>

\* Mutant: a prompt without a readout ends the loop, and what is there is returned.
SingleFailedSkips(c) ==
    /\ pc[c] = "single"
    /\ \E a \in RepliesTo(1) : SingleVerdict(a) # "ok" /\ Hears(c, a)
    /\ pc' = [pc EXCEPT ![c] = "ok"]
    /\ UNCHANGED <<prompts, readouts, fallbacks>>

\* It did not: the call fails, and the readouts it has got go with it.
SingleFailed(c) ==
    /\ pc[c] = "single"
    /\ \E a \in RepliesTo(1) :
        /\ SingleVerdict(a) # "ok"
        /\ pc' = [pc EXCEPT ![c] = SingleVerdict(a)]
        /\ Hears(c, a)
    /\ readouts' = [readouts EXCEPT ![c] = <<>>]
    /\ UNCHANGED <<prompts, fallbacks>>

\* The caller's future is dropped while a POST is in flight.
DropFuture(c) ==
    /\ pc[c] \in {"array", "single"}
    /\ pc' = [pc EXCEPT ![c] = "dropped"]
    /\ readouts' = [readouts EXCEPT ![c] = <<>>]
    /\ UNCHANGED <<prompts, fallbacks, heard>>

Next ==
    \E c \in Calls :
        \/ \E ps \in Batches[c] : TokenLogprobsBatch(c, ps)
        \/ ArrayAnswered(c)
        \/ FallBack(c)
        \/ ArrayFailed(c)
        \/ SingleAnswered(c)
        \/ SingleFailed(c)
        \/ DropFuture(c)

Spec == Init /\ [][Next]_vars
-----------------------------------------------------------------------------
(* Properties. *)

\* Every prompt is answered once, an index that is given is the right one, and
\* the choices without one come in request order among themselves.
Trustworthy(cs) ==
    /\ {cs[pos].of : pos \in DOMAIN cs} = DOMAIN cs
    /\ \A pos \in DOMAIN cs : cs[pos].index \in Nat => cs[pos].index = cs[pos].of
    /\ \A p, q \in DOMAIN cs :
        p < q /\ cs[p].index = NoIndex /\ cs[q].index = NoIndex => cs[p].of < cs[q].of

\* The first reply of a call does not say a falsehood about the order.
NotMisled(c) ==
    heard[c] # <<>> /\ heard[c][1].choices \notin {NoChoices, NotJson} => Trustworthy(heard[c][1].choices)

\* A call that succeeds has one readout per prompt, each read from its own
\* prompt's choice: whatever the wire order, and whichever choices lack an
\* index, it is put right or refused, never misaligned.
AlignedOrRefused ==
    \A c \in Calls : pc[c] = "ok" /\ NotMisled(c) =>
        [i \in DOMAIN readouts[c] |-> readouts[c][i].prompt] = prompts[c]

Answered(a) == a.status = 200

TokenCounts(rs) == [i \in DOMAIN rs |-> rs[i].prompt_tokens]
UsagesOf(h) == [i \in DOMAIN h |-> IF Answered(h[i]) THEN h[i].usage ELSE 0]

\* Summing the vector reproduces the endpoint's own prompt-token accounting of
\* the answers the readouts come from, batched or one by one.
UsageConserved ==
    \A c \in Calls : pc[c] = "ok" =>
        SumFunction(TokenCounts(readouts[c])) = SumFunction(UsagesOf(heard[c]))

\* A call that succeeds was answered in full: the array by one 200, or, after
\* the shape was refused, every prompt by a 200 of its own.  A throttled or
\* unauthorised endpoint never becomes a successful run.
AnsweredInFull ==
    \A c \in Calls : pc[c] = "ok" =>
        LET n == Len(prompts[c]) h == heard[c] IN
        \/ n = 0 /\ h = <<>>
        \/ Len(h) = 1 /\ Answered(h[1])
        \/ /\ Len(h) = n + 1
           /\ h[1].status \in {400, 404, 405, 415, 422}
           /\ \A i \in 2..(n + 1) : Answered(h[i])

-----------------------------------------------------------------------------
(* ReadoutBackend implements ReadoutService, for an endpoint whose choices    *)
(* are trustworthy.                                                          *)

Status(c) ==
    CASE pc[c] = "none" -> "none"
      [] pc[c] \in {"array", "single"} -> "pending"
      [] pc[c] = "ok" -> "answered"
      [] pc[c] = "dropped" -> "abandoned"
      [] OTHER -> "failed"

Service == INSTANCE ReadoutService WITH
    Batches <- UNION {Batches[c] : c \in Calls},
    Usages <- Usages \cup {0},
    status <- [c \in Calls |-> Status(c)],
    readouts <- [c \in Calls |-> IF pc[c] = "ok" THEN readouts[c] ELSE <<>>]

\* The trait's promise: one readout per prompt, in order, or an error; a
\* fallback in progress, its failures and other calls change nothing of it.
ImplementsReadoutService == Service!ServiceSpec
=============================================================================
