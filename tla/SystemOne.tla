------------------------------ MODULE SystemOne ------------------------------
(***************************************************************************)
(* jev-server's handler of POST /v1/systemone, for concurrent requests     *)
(* that share one tokenizer and one readout backend.  The tokenizer is     *)
(* what TokenService promises (HttpTokenizer implements it), the backend   *)
(* what ReadoutService promises (ReadoutBackend implements it); the        *)
(* handler's own steps lie between its awaits on the two.                  *)
(***************************************************************************)
EXTENDS SlotVerification, Functions

CONSTANTS
    Requests,
    Bodies,           \* the `questions` of a request, in BTreeMap order
    Vocabs,           \* what the endpoint's /tokenize may be: text -> ids
    NotCached,
    MaxPromptTokens,  \* AppState.max_prompt_tokens
    PromptTokens,     \* the `prompt_tokens` a readout may carry
    NoResponse,
    Redeploys         \* TRUE: the endpoint may be replaced while we run

\* A question is [id, prompt, kind, n]: the piece its prompt is rendered to,
\* and the number of options or levels it declares.
Questions == UNION {{b[i] : i \in DOMAIN b} : b \in Bodies}
Texts == UNION {TextsOf(q.prompt, SlotCount(q.kind, q.n)) : q \in Questions}
IdLists == UNION {{v[x] : x \in Texts} : v \in Vocabs}
PromptsOf(b) == [i \in DOMAIN b |-> b[i].prompt]
Batches == {PromptsOf(b) : b \in Bodies}

ASSUME BodiesAssumption ==
    /\ \A b \in Bodies : b \in Seq(Questions)
    /\ \A q \in Questions : q.n \in Nat
ASSUME VocabsAssumption == \A v \in Vocabs, x \in Texts : v[x] \in Seq(Nat) /\ v[x] # <<>>
ASSUME NotCachedAssumption == NotCached \notin IdLists

VARIABLES
    vocab,      \* what the endpoint tokenizes with now
    cache, asked, fetch,             \* TokenService; fetch[r] is its status
    prompts, reading, readouts,      \* ReadoutService; reading[r] its status
    pc,         \* where the handler of r is
    body,       \* the questions of r
    at,         \* the question step 2 is at
    response,   \* what r is answered
    steady      \* history: the endpoint has not been replaced

tokenVars == <<cache, asked, fetch>>
readVars == <<prompts, reading, readouts>>
handlerVars == <<pc, body, at, response>>
vars == <<vocab, tokenVars, readVars, handlerVars, steady>>

Tokens == INSTANCE TokenService WITH
    Tasks <- Requests, Ids <- IdLists \cup {<<>>}, Empty <- <<>>, NoTokens <- <<>>,
    status <- fetch

Readings == INSTANCE ReadoutService WITH
    Calls <- Requests, Usages <- PromptTokens, status <- reading

Init ==
    /\ vocab \in Vocabs
    /\ Tokens!Init
    /\ Readings!ServiceInit
    /\ pc = [r \in Requests |-> "none"]
    /\ body = [r \in Requests |-> <<>>]
    /\ at = [r \in Requests |-> 1]
    /\ response = [r \in Requests |-> NoResponse]
    /\ steady = TRUE

-----------------------------------------------------------------------------
(* Responses. *)

\* An error names the question it is about (0: none in particular).
Refused(code, error, i) ==
    [code |-> code, error |-> error, at |-> i, answers |-> <<>>, input |-> 0, output |-> 0]

\* answers[i] is the prompt whose readout the answer to question i comes from.
Ok(answers, input, output) ==
    [code |-> 200, error |-> "none", at |-> 0,
     answers |-> answers, input |-> input, output |-> output]

Respond(r, answer) ==
    /\ pc' = [pc EXCEPT ![r] = "done"]
    /\ response' = [response EXCEPT ![r] = answer]

Goto(r, stage) ==
    /\ pc' = [pc EXCEPT ![r] = stage]
    /\ UNCHANGED response

Question(r) == body[r][at[r]]
Slots(q) == SlotCount(q.kind, q.n)

-----------------------------------------------------------------------------
(* Step 1: a request comes in. *)

Receive(r, b) ==
    /\ pc[r] = "none"
    /\ body' = [body EXCEPT ![r] = b]
    /\ IF b = <<>> THEN Respond(r, Refused(422, "NoQuestions", 0))
                   ELSE Goto(r, "prepare")
    /\ UNCHANGED <<vocab, tokenVars, readVars, at, steady>>

-----------------------------------------------------------------------------
(* Step 2: every question is rendered, tokenized, measured and verified.     *)

\* Mutant: the letters are asked for, their appended forms are not.
NeedsBareLetters(q) == PrefetchTextsBareLetters(q.prompt, Slots(q))

Needs(q) == PrefetchTexts(q.prompt, Slots(q))

\* render_question, then the call of prefetch.
Prepare(r) ==
    /\ pc[r] = "prepare"
    /\ LET verdict == RenderSlots(Question(r).kind, Question(r).n) IN
       IF verdict # Accepted
         THEN /\ Respond(r, Refused(422, verdict, at[r]))
              /\ UNCHANGED tokenVars
         ELSE /\ Tokens!Ask(r, Needs(Question(r)))
              /\ Goto(r, "prefetch")
    /\ UNCHANGED <<vocab, readVars, body, at, steady>>

\* The prefetch of r brings in the tokenization of a text, from the endpoint
\* as it is now.  (The service replaces an entry only when two tasks missed
\* the same text; here it may whenever the endpoint has changed.)
Tokenize(r) ==
    /\ pc[r] = "prefetch"
    /\ \E x \in asked[r] : cache[x] # vocab[x] /\ Tokens!Fill(r, x, vocab[x])
    /\ UNCHANGED <<vocab, readVars, handlerVars, steady>>

\* prefetch returned Ok.
Prefetched(r) ==
    /\ pc[r] = "prefetch"
    /\ Tokens!Serve(r)
    /\ Goto(r, "check")
    /\ UNCHANGED <<vocab, readVars, body, at, steady>>

\* prefetch returned an error.
TokenizationFails(r) ==
    /\ pc[r] = "prefetch"
    /\ Tokens!Refuse(r)
    /\ Respond(r, Refused(502, "tokenization", at[r]))
    /\ UNCHANGED <<vocab, readVars, body, at, steady>>

\* Mutant: the budget is not looked at.
CheckSlotsOnly(enc, q) == VerifySlots(enc, q.prompt, Slots(q))

\* The token budget, then verify_slots.
Check(enc, q) ==
    IF Len(enc[Prompt(q.prompt)]) > MaxPromptTokens THEN "PromptTooLong"
    ELSE VerifySlots(enc, q.prompt, Slots(q))

\* Mutant: the loop stays where it is.
NextQuestionStays(r) == at[r]

NextQuestion(r) == at[r] + 1

\* Verification is synchronous and reads the cache; a text that is not there
\* panics.  (Each read takes the lock for itself; an entry is replaced between
\* two reads only around a redeployment.)
Verify(r) ==
    /\ pc[r] = "check"
    /\ LET q == Question(r) verdict == Check(cache, q) IN
       IF \E x \in TextsOf(q.prompt, Slots(q)) : ~Tokens!Stored(x)
         THEN Goto(r, "panicked") /\ UNCHANGED at
       ELSE IF verdict # Accepted
         THEN Respond(r, Refused(422, verdict, at[r])) /\ UNCHANGED at
       ELSE IF at[r] < Len(body[r])
         THEN Goto(r, "prepare") /\ at' = [at EXCEPT ![r] = NextQuestion(r)]
       ELSE Goto(r, "read") /\ UNCHANGED at
    /\ UNCHANGED <<vocab, tokenVars, readVars, body, steady>>

-----------------------------------------------------------------------------
(* Step 3: one batched readout. *)

Read(r) ==
    /\ pc[r] = "read"
    /\ Readings!Ask(r, PromptsOf(body[r]))
    /\ Goto(r, "reading")
    /\ UNCHANGED <<vocab, tokenVars, body, at, steady>>

ReadoutsArrive(r) ==
    /\ pc[r] = "reading"
    /\ \E rs \in Readings!ReadoutsOf(prompts[r]) : Readings!Answer(r, rs)
    /\ Goto(r, "assemble")
    /\ UNCHANGED <<vocab, tokenVars, body, at, steady>>

ReadoutFails(r) ==
    /\ pc[r] = "reading"
    /\ Readings!Fail(r)
    /\ Respond(r, Refused(502, "readout", 0))
    /\ UNCHANGED <<vocab, tokenVars, body, at, steady>>

-----------------------------------------------------------------------------
(* Step 4: the answers, in question order; no await from here on. *)

\* Mutant: every answer is read off the first readout.
ReadoutOfFirst(r, i) == readouts[r][1]

ReadoutOf(r, i) == readouts[r][i]

Answered(r) ==
    Ok([i \in DOMAIN body[r] |-> ReadoutOf(r, i).prompt],
       FoldFunction(+, 0, [i \in DOMAIN body[r] |-> readouts[r][i].prompt_tokens]),
       Len(body[r]))

\* Question i is one of those whose readout lacks a declared slot.
Assemble(r) ==
    /\ pc[r] = "assemble"
    /\ \E missing \in SUBSET DOMAIN body[r] :
        Respond(r, IF missing = {} THEN Answered(r)
                   ELSE Refused(422, "SlotMissingFromTopK", First(missing)))
    /\ UNCHANGED <<vocab, tokenVars, readVars, body, at, steady>>

-----------------------------------------------------------------------------
(* The client goes away: the handler's future is dropped at its await. *)
Drop(r) ==
    /\ \/ pc[r] = "prefetch" /\ Tokens!Abandon(r) /\ UNCHANGED readVars
       \/ pc[r] = "reading" /\ Readings!Abandon(r) /\ UNCHANGED tokenVars
    /\ Goto(r, "dropped")
    /\ UNCHANGED <<vocab, body, at, steady>>

\* The endpoint is restarted with another model.
Redeploy ==
    /\ Redeploys
    /\ vocab' \in Vocabs \ {vocab}
    /\ steady' = FALSE
    /\ UNCHANGED <<tokenVars, readVars, handlerVars>>

\* What the handler does by itself, and the two calls it awaits.
HandlerStep(r) == Prepare(r) \/ Verify(r) \/ Read(r) \/ Assemble(r)
PrefetchEnds(r) == Prefetched(r) \/ TokenizationFails(r)
ReadoutEnds(r) == ReadoutsArrive(r) \/ ReadoutFails(r)

Next ==
    \/ \E r \in Requests :
        \/ \E b \in Bodies : Receive(r, b)
        \/ Tokenize(r)
        \/ HandlerStep(r)
        \/ PrefetchEnds(r)
        \/ ReadoutEnds(r)
        \/ Drop(r)
    \/ Redeploy

Spec == Init /\ [][Next]_vars

\* The runtime polls every handler again; every prefetch ends (see
\* HttpTokenizer!EveryPrefetchEnds), and so does every readout, whose POSTs
\* have a timeout.
FairSpec ==
    Spec /\ \A r \in Requests :
        WF_vars(HandlerStep(r)) /\ WF_vars(PrefetchEnds(r)) /\ WF_vars(ReadoutEnds(r))

-----------------------------------------------------------------------------
(* Properties. *)

Stages == {"none", "prepare", "prefetch", "check", "read", "reading", "assemble",
           "done", "dropped", "panicked"}

Done(r) == pc[r] = "done"
Paid(r) == reading[r] # "none"

\* The handler prefetches everything its synchronous verification reads, for
\* every number of slots and whatever other requests do to the cache.
NoPanic == \A r \in Requests : pc[r] # "panicked"

\* What is wrong with a question on a vocabulary, without a cache, a budget
\* that was already checked or a request around it.
Fault(v, q) ==
    IF RenderSlots(q.kind, q.n) # Accepted THEN "render"
    ELSE IF Len(v[Prompt(q.prompt)]) > MaxPromptTokens THEN "budget"
    ELSE IF /\ \A i, j \in 1..Slots(q) : v[Letter(i)] = v[Letter(j)] => i = j
            /\ \A i \in 1..Slots(q) :
                /\ Len(v[Letter(i)]) = 1
                /\ v[Appended(q.prompt, i)] = v[Prompt(q.prompt)] \o v[Letter(i)]
      THEN "none"
    ELSE "slots"

FaultyQuestions(v, b) == {i \in DOMAIN b : Fault(v, b[i]) # "none"}

Class(error) ==
    CASE error \in {"SlotNotSingleToken", "SlotBoundaryChanged", "SlotCollision"} -> "slots"
      [] error = "PromptTooLong" -> "budget"
      [] OTHER -> "render"

\* "Every contract violation surfaces here, before any readout is paid for,
\* and in the questions' own order, so which error wins is deterministic":
\* while the endpoint stays the same, a request with a faulty question never
\* reaches the backend, and a contract error from step 2 names the first
\* faulty question and what is wrong with it, whatever is cached, in
\* whichever order requests interleave.
FirstFaultWins ==
    steady =>
        \A r \in Requests :
            LET faulty == FaultyQuestions(vocab, body[r]) IN
            /\ Paid(r) => faulty = {}
            /\ Done(r) /\ response[r].code = 422 /\ ~Paid(r) /\ body[r] # <<>> =>
                 /\ faulty # {}
                 /\ response[r].at = First(faulty)
                 /\ Class(response[r].error) = Fault(vocab, body[r][First(faulty)])

-----------------------------------------------------------------------------
(* SystemOne implements SystemOneService. *)

Status(r) ==
    CASE pc[r] = "none" -> "none"
      [] pc[r] = "done" -> IF response[r].code = 200 THEN "answered" ELSE "refused"
      [] pc[r] = "dropped" -> "abandoned"
      [] pc[r] = "panicked" -> "panicked"
      [] OTHER -> "pending"

Service == INSTANCE SystemOneService WITH
    Bodies <- Batches,
    status <- [r \in Requests |-> Status(r)],
    asked <- [r \in Requests |-> PromptsOf(body[r])],
    paid <- [r \in Requests |-> Paid(r)],
    answers <- [r \in Requests |-> IF Done(r) THEN response[r].answers ELSE <<>>]

\* What a client may rely on: all the answers or none, each about its own
\* question, and one readout per request at most, whatever other requests and
\* the endpoint do meanwhile.
ImplementsSystemOneService == Service!ServiceSpec

\* Every request is answered, unless its client goes away.
EveryRequestAnswered ==
    \A r \in Requests : pc[r] = "prepare" ~> pc[r] \in {"done", "dropped"}
=============================================================================
