--------------------------- MODULE SystemOneProofs ---------------------------
(***************************************************************************)
(* Proofs about slot verification, the startup self-check, the request     *)
(* handler and the answers it publishes, for every set of requests, bodies *)
(* and vocabularies, every token budget, limit of the contract and         *)
(* readout.                                                                *)
(***************************************************************************)
EXTENDS SystemOne, ServerStart, PublishedAnswer, FiniteSums

(* What verify_slots accepts, and what the startup self-check makes of it. *)

\* Two single-token lists are equal when their tokens are.
LEMMA SingleEqual ==
    ASSUME NEW s \in Seq(Nat), NEW t \in Seq(Nat), Len(s) = 1, Len(t) = 1
    PROVE  s = t <=> s[1] = t[1]
  OBVIOUS

\* Appending the token of a single-token list is concatenating the list.
LEMMA AppendOneToken ==
    ASSUME NEW s \in Seq(Nat), NEW t \in Seq(Nat), Len(t) = 1
    PROVE  Append(s, t[1]) = s \o t
<1>1. t[1] \in Nat
  OBVIOUS
<1>2. <<t[1]>> \in Seq(Nat) /\ Len(<<t[1]>>) = 1 /\ <<t[1]>>[1] = t[1]
  BY <1>1
<1>3. t = <<t[1]>>
  BY <1>2, SeqEqual
<1>4. QED
  BY <1>1, <1>3, AppendIsConcat

\* The texts of a question are encoded to token lists.
Encodes(v, p, n) == \A x \in TextsOf(p, n) : v[x] \in Seq(Nat)

\* The slots are distinct single tokens that stay whole behind the prompt.
ReadableSlots(v, p, n) ==
    /\ \A i, j \in 1..n : v[Letter(i)] = v[Letter(j)] => i = j
    /\ \A i \in 1..n :
        /\ Len(v[Letter(i)]) = 1
        /\ v[Appended(p, i)] = v[Prompt(p)] \o v[Letter(i)]

\* verify_slots accepts exactly the readable questions.
LEMMA VerifySlotsIsExact ==
    ASSUME NEW v, NEW p, NEW n \in Nat, Encodes(v, p, n)
    PROVE  VerifySlots(v, p, n) = Accepted <=> ReadableSlots(v, p, n)
<1> DEFINE bad == {i \in 1..n : ~SingleToken(v, i) \/ ~KeepsBoundary(v, p, i)}
<1>1. /\ v[Prompt(p)] \in Seq(Nat)
      /\ \A i \in 1..n : v[Letter(i)] \in Seq(Nat)
  BY DEF TextsOf, Encodes
<1>2. VerifySlots(v, p, n) = Accepted <=> bad = {} /\ Colliding(v, n) = {}
  BY DEF VerifySlots, Accepted
<1>3. bad = {} <=> \A i \in 1..n :
                      /\ Len(v[Letter(i)]) = 1
                      /\ v[Appended(p, i)] = v[Prompt(p)] \o v[Letter(i)]
  BY <1>1, AppendOneToken DEF SingleToken, KeepsBoundary
<1>4. ASSUME bad = {}
      PROVE  Colliding(v, n) = {} <=>
                \A i, j \in 1..n : v[Letter(i)] = v[Letter(j)] => i = j
  <2>1. \A i \in 1..n : Len(v[Letter(i)]) = 1
    BY <1>3, <1>4
  <2>2. \A i, j \in 1..n : v[Letter(i)] = v[Letter(j)]
                              <=> v[Letter(i)][1] = v[Letter(j)][1]
    BY <1>1, <2>1, SingleEqual
  <2>3. QED
    BY <2>2 DEF Colliding
<1>5. QED
  BY <1>2, <1>3, <1>4 DEF ReadableSlots

-----------------------------------------------------------------------------
(* The startup self-check. *)

\* Whatever the endpoint's vocabulary, verify_slots accepts exactly the
\* questions whose answer position is where the readout looks.
THEOREM AcceptedExactly == StartSpec => []AcceptedIffReadable
<1> DEFINE Known == enc \in Encodings
<1>1. StartInit => Known
  BY DEF StartInit
<1>2. Known /\ [StartNext]_startVars => Known'
  BY DEF StartNext, FromEnv, SelfCheck, PrefetchFails, AskOnTail, startVars
<1>3. Known => AcceptedIffReadable
  <2>1. SUFFICES ASSUME Known, NEW n \in 2..MaxLetterSlots
                 PROVE  VerifySlots(enc, PromptTail, n) = Accepted <=> Readable(n)
    BY DEF AcceptedIffReadable
  <2>2. n \in Nat /\ TextsOf(PromptTail, n) \subseteq TextsOf(PromptTail, MaxLetterSlots)
    BY MaxLetterSlotsAssumption DEF TextsOf
  <2>3. Encodes(enc, PromptTail, n)
    BY <2>1, <2>2, EncodingsAssumption DEF Encodes
  <2>4. QED
    BY <2>2, <2>3, VerifySlotsIsExact DEF Readable, ReadableSlots
<1>4. QED
  BY <1>1, <1>2, <1>3, PTL DEF StartSpec

-----------------------------------------------------------------------------
\* A letter that passed the self-check passes the checks of its own, so a
\* question can only fail on a collision.
LEMMA CheckedLettersOnlyCollide ==
    ASSUME CheckSlotLetters(enc), NEW n \in 2..MaxLetterSlots
    PROVE  VerifySlots(enc, PromptTail, n) \in {Accepted, "SlotCollision"}
<1>1. 1..n \subseteq SlotLetters
  BY MaxLetterSlotsAssumption DEF SlotLetters
<1>2. \A i \in 1..n : SingleToken(enc, i) /\ KeepsBoundary(enc, PromptTail, i)
  BY <1>1 DEF CheckSlotLetters
<1>3. QED
  BY <1>2 DEF VerifySlots

\* In `letters` mode a running server refuses no question on the probed tail
\* because of a letter, however many letters there are and whatever the
\* endpoint's vocabulary.
THEOREM LettersModeIsEnough == StartSpec => []LettersModeCoversRenderer
<1> DEFINE Checked == /\ mode = "letters" /\ phase = "listening" => CheckSlotLetters(enc)
                      /\ phase # "listening" => verdict = NoVerdict
                      /\ LettersModeCoversRenderer
<1>1. StartInit => Checked
  BY DEF StartInit, LettersModeCoversRenderer
<1>2. Checked /\ [StartNext]_startVars => Checked'
  <2> SUFFICES ASSUME Checked, [StartNext]_startVars PROVE Checked'
    OBVIOUS
  <2>1. CASE FromEnv
    BY <2>1 DEF FromEnv, LettersModeCoversRenderer
  <2>2. CASE SelfCheck
    BY <2>2 DEF SelfCheck, RunSlotCheck, LettersModeCoversRenderer, CheckSlotLetters,
                SingleToken, KeepsBoundary
  <2>3. CASE PrefetchFails
    BY <2>3 DEF PrefetchFails, LettersModeCoversRenderer
  <2>4. ASSUME NEW n \in 2..MaxLetterSlots, AskOnTail(n) PROVE Checked'
    BY <2>4, CheckedLettersOnlyCollide
    DEF AskOnTail, LettersModeCoversRenderer, CheckSlotLetters, SingleToken, KeepsBoundary
  <2>5. CASE UNCHANGED startVars
    BY <2>5 DEF startVars, LettersModeCoversRenderer, CheckSlotLetters, SingleToken, KeepsBoundary
  <2>6. QED
    BY <2>1, <2>2, <2>3, <2>4, <2>5 DEF StartNext
<1>3. QED
  BY <1>1, <1>2, PTL DEF StartSpec

-----------------------------------------------------------------------------
(* The handler. *)

(* The inductive invariant. *)

Calling == {"none", "pending", "served", "failed"}
Reading == {"none", "pending", "answered", "failed", "abandoned"}

Types ==
    /\ vocab \in Vocabs
    /\ cache \in [Texts -> IdLists \cup {NotCached}]
    /\ asked \in [Requests -> SUBSET Texts]
    /\ fetch \in [Requests -> Calling]
    /\ prompts \in [Requests -> Batches \cup {<<>>}]
    /\ reading \in [Requests -> Reading]
    /\ DOMAIN readouts = Requests
    /\ pc \in [Requests -> Stages]
    /\ body \in [Requests -> Bodies \cup {<<>>}]
    /\ at \in [Requests -> Nat]
    /\ DOMAIN response = Requests
    /\ steady \in BOOLEAN

\* The handler of r is at one of its questions.
Preparing(r) == pc[r] \in {"prepare", "prefetch", "check"}

\* Where the handler of r stands with the two calls it awaits.
Handled(r) ==
    /\ Preparing(r) => at[r] \in DOMAIN body[r]
    /\ pc[r] = "none" => at[r] = 1
    /\ pc[r] = "prefetch" => /\ fetch[r] = "pending"
                             /\ asked[r] = Needs(Question(r))
    /\ pc[r] = "check" => \A x \in Needs(Question(r)) : cache[x] # NotCached
    /\ pc[r] \in {"prefetch", "check"} =>
          RenderSlots(Question(r).kind, Question(r).n) = Accepted
    /\ Preparing(r) \/ pc[r] \in {"none", "read"} => reading[r] = "none"
    /\ pc[r] \in {"read", "reading", "assemble"} => body[r] # <<>>
    /\ pc[r] = "reading" => reading[r] = "pending" /\ prompts[r] = PromptsOf(body[r])
    /\ pc[r] = "assemble" => /\ reading[r] = "answered"
                             /\ readouts[r] \in Readings!ReadoutsOf(PromptsOf(body[r]))
    /\ pc[r] # "panicked"

\* While the endpoint stays the same, the store repeats what it says.
CacheIsTrue == steady => \A x \in Texts : cache[x] \in {NotCached, vocab[x]}

FaultlessBefore(v, b, i) == \A j \in DOMAIN b : j < i => Fault(v, b[j]) = "none"

\* Step 2 of r left no fault behind, and stopped at the first it met.
Judged(r) ==
    /\ Preparing(r) => FaultlessBefore(vocab, body[r], at[r])
    /\ pc[r] = "read" \/ Paid(r) => FaultyQuestions(vocab, body[r]) = {}
    /\ Done(r) /\ response[r].code = 422 /\ ~Paid(r) /\ body[r] # <<>> =>
          /\ at[r] \in DOMAIN body[r]
          /\ FaultlessBefore(vocab, body[r], at[r])
          /\ response[r].at = at[r]
          /\ Fault(vocab, body[r][at[r]]) # "none"
          /\ Class(response[r].error) = Fault(vocab, body[r][at[r]])

JudgedBySteadyEndpoint == steady => \A r \in Requests : Judged(r)

HandlerInv ==
    /\ Types
    /\ \A r \in Requests : Handled(r)
    /\ CacheIsTrue
    /\ JudgedBySteadyEndpoint

-----------------------------------------------------------------------------
(* The constants. *)

\* The texts a question needs.
LEMMA QuestionTexts ==
    ASSUME NEW q \in Questions
    PROVE  /\ Slots(q) \in Nat
           /\ q.n \in Nat
           /\ TextsOf(q.prompt, Slots(q)) \subseteq Texts
           /\ Needs(q) = TextsOf(q.prompt, Slots(q))
<1>1. q.n \in Nat
  BY BodiesAssumption
<1>2. Slots(q) \in Nat
  BY <1>1 DEF Slots, SlotCount
<1>3. TextsOf(q.prompt, Slots(q)) \subseteq Texts
  BY DEF Texts, Slots
<1>4. Needs(q) = TextsOf(q.prompt, Slots(q))
  BY DEF Needs, PrefetchTexts, TextsOf
<1>5. QED
  BY <1>1, <1>2, <1>3, <1>4

\* A vocabulary encodes every text of a question.
LEMMA VocabularyEncodes ==
    ASSUME NEW v \in Vocabs, NEW x \in Texts
    PROVE  v[x] \in Seq(Nat) /\ v[x] \in IdLists /\ v[x] # NotCached /\ v[x] # <<>>
<1>1. v[x] \in IdLists
  BY DEF IdLists
<1>2. QED
  BY <1>1, VocabsAssumption, NotCachedAssumption

\* A body is a sequence of questions.
LEMMA BodyOfQuestions ==
    ASSUME NEW b \in Bodies \cup {<<>>}
    PROVE  /\ b \in Seq(Questions)
           /\ DOMAIN b = 1..Len(b) /\ Len(b) \in Nat
           /\ \A i \in DOMAIN b : b[i] \in Questions
<1>1. b \in Seq(Questions)
  BY BodiesAssumption, EmptySeq
<1>2. QED
  BY <1>1, LenProperties

\* The prompts of a body, one per question.
LEMMA PromptsOfBody ==
    ASSUME NEW b \in Bodies \cup {<<>>}
    PROVE  /\ DOMAIN PromptsOf(b) = DOMAIN b
           /\ Len(PromptsOf(b)) = Len(b)
           /\ PromptsOf(b) = <<>> <=> b = <<>>
<1>1. DOMAIN PromptsOf(b) = 1..Len(b) /\ Len(b) \in Nat
  BY BodyOfQuestions DEF PromptsOf
<1>2. PromptsOf(b) \in Seq({b[i].prompt : i \in DOMAIN b})
  <2>1. PromptsOf(b) \in [1..Len(b) -> {b[i].prompt : i \in DOMAIN b}]
    BY BodyOfQuestions DEF PromptsOf
  <2>2. QED
    BY <1>1, <2>1
<1>3. Len(PromptsOf(b)) = Len(b)
  BY <1>1, <1>2
<1>4. PromptsOf(b) = <<>> <=> b = <<>>
  BY <1>2, <1>3, BodyOfQuestions, EmptySeq
<1>5. QED
  BY <1>1, <1>3, <1>4, BodyOfQuestions

-----------------------------------------------------------------------------
(* What step 2 says of one question. *)

\* The first of the positions with a property.
LEMMA FirstIsTheLeast ==
    ASSUME NEW S \in SUBSET Nat, NEW i \in S, \A j \in S : i <= j
    PROVE  First(S) = i
<1> DEFINE least == CHOOSE k \in S : \A j \in S : k <= j
<1>1. least \in S /\ \A j \in S : least <= j
  OBVIOUS
<1>2. least <= i /\ i <= least /\ least \in Nat /\ i \in Nat
  BY <1>1
<1>3. least = i
  BY <1>2
<1>4. QED
  BY <1>3 DEF First

\* render_question refuses exactly what no vocabulary makes up for.
LEMMA RenderingFault ==
    ASSUME NEW v, NEW q, RenderSlots(q.kind, q.n) # Accepted
    PROVE  /\ Fault(v, q) = "render"
           /\ Class(RenderSlots(q.kind, q.n)) = "render"
<1>1. RenderSlots(q.kind, q.n) \in
        {"TooFewChoiceOptions", "TooManyChoiceOptions", "TooFewScoreLevels",
         "TooManyLetterSlots"}
  BY DEF RenderSlots
<1>2. QED
  BY <1>1 DEF Fault, Class

\* The budget and verify_slots, on stored tokenizations that are the
\* endpoint's, find the fault of a question that was rendered.
LEMMA CheckFindsTheFault ==
    ASSUME NEW v \in Vocabs, NEW c, NEW q \in Questions,
           RenderSlots(q.kind, q.n) = Accepted,
           \A x \in Needs(q) : c[x] = v[x]
    PROVE  /\ Check(c, q) = Accepted <=> Fault(v, q) = "none"
           /\ Check(c, q) # Accepted => Class(Check(c, q)) = Fault(v, q)
<1> DEFINE p == q.prompt
           n == Slots(q)
           slots == VerifySlots(c, p, n)
<1>1. /\ n \in Nat
      /\ c[Prompt(p)] = v[Prompt(p)]
      /\ \A i \in 1..n : /\ c[Letter(i)] = v[Letter(i)]
                         /\ c[Appended(p, i)] = v[Appended(p, i)]
  BY QuestionTexts DEF TextsOf
<1>2. Encodes(c, p, n)
  BY QuestionTexts, VocabularyEncodes DEF Encodes
<1>3. ReadableSlots(c, p, n) <=>
        /\ \A i, j \in 1..n : v[Letter(i)] = v[Letter(j)] => i = j
        /\ \A i \in 1..n :
            /\ Len(v[Letter(i)]) = 1
            /\ v[Appended(p, i)] = v[Prompt(p)] \o v[Letter(i)]
  BY <1>1 DEF ReadableSlots
<1>4. slots = Accepted <=> ReadableSlots(c, p, n)
  BY <1>1, <1>2, VerifySlotsIsExact
<1>5. slots # Accepted => Class(slots) = "slots"
  BY DEF VerifySlots, Class
<1>6. CASE Len(c[Prompt(p)]) > MaxPromptTokens
  <2>1. Fault(v, q) = "budget"
    BY <1>1, <1>6 DEF Fault
  <2>2. Check(c, q) = "PromptTooLong"
    BY <1>6 DEF Check
  <2>3. QED
    BY <2>1, <2>2 DEF Class, Accepted
<1>7. CASE ~(Len(c[Prompt(p)]) > MaxPromptTokens)
  <2>1. Check(c, q) = slots
    BY <1>7 DEF Check
  <2>2. Fault(v, q) = IF ReadableSlots(c, p, n) THEN "none" ELSE "slots"
    BY <1>1, <1>3, <1>7 DEF Fault
  <2>3. QED
    BY <1>4, <1>5, <2>1, <2>2
<1>8. QED
  BY <1>6, <1>7

\* A question at the end of the loop: no question before it is faulty, nor
\* is it, so none of the request is.
LEMMA LastQuestionJudged ==
    ASSUME NEW v, NEW b \in Bodies \cup {<<>>}, NEW i \in DOMAIN b,
           FaultlessBefore(v, b, i), Fault(v, b[i]) = "none"
    PROVE  /\ FaultlessBefore(v, b, i + 1)
           /\ i = Len(b) => FaultyQuestions(v, b) = {}
<1>1. DOMAIN b = 1..Len(b) /\ Len(b) \in Nat
  BY BodyOfQuestions
<1>2. FaultlessBefore(v, b, i + 1)
  BY <1>1 DEF FaultlessBefore
<1>3. i = Len(b) => FaultyQuestions(v, b) = {}
  BY <1>1 DEF FaultlessBefore, FaultyQuestions
<1>4. QED
  BY <1>2, <1>3

-----------------------------------------------------------------------------
(* A step of one request leaves the others alone. *)

Same(q) ==
    /\ asked'[q] = asked[q] /\ fetch'[q] = fetch[q]
    /\ prompts'[q] = prompts[q] /\ reading'[q] = reading[q] /\ readouts'[q] = readouts[q]
    /\ pc'[q] = pc[q] /\ body'[q] = body[q] /\ at'[q] = at[q]
    /\ response'[q] = response[q]

\* What is stored stays stored.
Kept == \A x \in Texts : cache[x] # NotCached => cache'[x] # NotCached

\* A request that does not move keeps what it has.
LEMMA HandledStays ==
    ASSUME NEW q \in Requests, Types, Handled(q), Same(q), Kept
    PROVE  Handled(q)'
<1>1. pc[q] = "check" => Needs(Question(q)) \subseteq Texts
  BY QuestionTexts, BodyOfQuestions DEF Handled, Preparing, Types, Question
<1>2. Question(q)' = Question(q) /\ Preparing(q)' = Preparing(q)
  BY DEF Same, Question, Preparing
<1>3. QED
  BY <1>1, <1>2 DEF Handled, Same, Kept

\* What was judged stays judged.
LEMMA JudgedStays ==
    ASSUME NEW q \in Requests, Judged(q), Same(q), vocab' = vocab
    PROVE  Judged(q)'
  BY DEF Judged, Same, Preparing, Paid, Done

\* What one request does to the rest of the state: the other requests are as
\* they were, the store keeps what it has, and only says what the endpoint
\* says.
StepOf(r) ==
    \/ \E b \in Bodies : Receive(r, b)
    \/ Tokenize(r) \/ HandlerStep(r) \/ PrefetchEnds(r) \/ ReadoutEnds(r) \/ Drop(r)

Alone(r) ==
    /\ vocab' = vocab /\ steady' = steady
    /\ \A q \in Requests : q # r => Same(q)
    /\ Kept
    /\ \A x \in Texts : cache'[x] \in {cache[x], vocab[x]}

\* A step moves one request.
LEMMA OneAtATime ==
    ASSUME Types, NEW r \in Requests, StepOf(r)
    PROVE  Alone(r)
<1>1. ASSUME NEW b \in Bodies, Receive(r, b) PROVE Alone(r)
  BY <1>1
  DEF Receive, Respond, Goto, Alone, Same, Kept, Types, tokenVars, readVars
<1>2. CASE Tokenize(r)
  BY <1>2, VocabularyEncodes
  DEF Tokenize, Tokens!Fill, Alone, Same, Kept, Types, readVars, handlerVars
<1>3. CASE Prepare(r)
  BY <1>3
  DEF Prepare, Tokens!Ask, Respond, Goto, Alone, Same, Kept, Types, tokenVars, readVars
<1>4. CASE Verify(r)
  BY <1>4
  DEF Verify, Respond, Goto, Alone, Same, Kept, Types, tokenVars, readVars
<1>5. CASE Read(r)
  BY <1>5
  DEF Read, Readings!Ask, Goto, Alone, Same, Kept, Types, tokenVars
<1>6. CASE Assemble(r)
  BY <1>6
  DEF Assemble, Respond, Alone, Same, Kept, Types, tokenVars, readVars
<1>7. CASE Prefetched(r)
  BY <1>7
  DEF Prefetched, Tokens!Serve, Goto, Alone, Same, Kept, Types, readVars
<1>8. CASE TokenizationFails(r)
  BY <1>8
  DEF TokenizationFails, Tokens!Refuse, Respond, Alone, Same, Kept, Types, readVars
<1>9. CASE ReadoutsArrive(r)
  BY <1>9
  DEF ReadoutsArrive, Readings!Answer, Goto, Alone, Same, Kept, Types, tokenVars
<1>10. CASE ReadoutFails(r)
  BY <1>10
  DEF ReadoutFails, Readings!Fail, Respond, Alone, Same, Kept, Types, tokenVars
<1>11. CASE Drop(r)
  BY <1>11
  DEF Drop, Tokens!Abandon, Readings!Abandon, Goto, Alone, Same, Kept, Types,
      tokenVars, readVars
<1>12. QED
  BY <1>1, <1>2, <1>3, <1>4, <1>5, <1>6, <1>7, <1>8, <1>9, <1>10, <1>11
  DEF StepOf, HandlerStep, PrefetchEnds, ReadoutEnds

\* A step keeps the types.
LEMMA TypesStep ==
    ASSUME Types, NEW r \in Requests, Handled(r), StepOf(r)
    PROVE  Types'
<1> USE DEF Stages, Calling, Reading
<1>1. ASSUME NEW b \in Bodies, Receive(r, b) PROVE Types'
  BY <1>1
  DEF Receive, Respond, Goto, Types, tokenVars, readVars
<1>2. CASE Tokenize(r)
  BY <1>2, VocabularyEncodes
  DEF Tokenize, Tokens!Fill, Types, readVars, handlerVars
<1>3. CASE Prepare(r)
  <2>1. Needs(Question(r)) \subseteq Texts
    <3>1. Question(r) \in Questions
      BY <1>3, BodyOfQuestions DEF Prepare, Handled, Preparing, Types, Question
    <3>2. QED
      BY <3>1, QuestionTexts
  <2>2. QED
    BY <1>3, <2>1
    DEF Prepare, Tokens!Ask, Respond, Goto, Types, tokenVars, readVars
<1>4. CASE Verify(r)
  <2>1. \/ Goto(r, "panicked") /\ UNCHANGED at
        \/ \E error : Respond(r, Refused(422, error, at[r])) /\ UNCHANGED at
        \/ Goto(r, "prepare") /\ at' = [at EXCEPT ![r] = NextQuestion(r)]
        \/ Goto(r, "read") /\ UNCHANGED at
    BY <1>4 DEF Verify
  <2>2. NextQuestion(r) \in Nat
    BY DEF NextQuestion, Types
  <2>3. /\ pc' \in [Requests -> Stages] /\ at' \in [Requests -> Nat]
        /\ DOMAIN response' = Requests
    <3>1. CASE Goto(r, "panicked") /\ UNCHANGED at
      BY <3>1 DEF Goto, Types
    <3>2. CASE \E error : Respond(r, Refused(422, error, at[r])) /\ UNCHANGED at
      BY <3>2 DEF Respond, Types
    <3>3. CASE Goto(r, "prepare") /\ at' = [at EXCEPT ![r] = NextQuestion(r)]
      BY <3>3, <2>2 DEF Goto, Types
    <3>4. CASE Goto(r, "read") /\ UNCHANGED at
      BY <3>4 DEF Goto, Types
    <3>5. QED
      BY <2>1, <3>1, <3>2, <3>3, <3>4
  <2>4. QED
    BY <1>4, <2>3 DEF Verify, Types, tokenVars, readVars
<1>5. CASE Read(r)
  <2>1. PromptsOf(body[r]) \in Batches \cup {<<>>}
    <3>1. CASE body[r] = <<>>
      BY <3>1, PromptsOfBody
    <3>2. QED
      BY <3>1 DEF Batches, Types
  <2>2. QED
    BY <1>5, <2>1 DEF Read, Readings!Ask, Goto, Types, tokenVars
<1>6. CASE Assemble(r)
  BY <1>6
  DEF Assemble, Respond, Types, tokenVars, readVars
<1>7. CASE Prefetched(r)
  BY <1>7
  DEF Prefetched, Tokens!Serve, Goto, Types, readVars
<1>8. CASE TokenizationFails(r)
  BY <1>8
  DEF TokenizationFails, Tokens!Refuse, Respond, Types, readVars
<1>9. CASE ReadoutsArrive(r)
  BY <1>9
  DEF ReadoutsArrive, Readings!Answer, Goto, Types, tokenVars
<1>10. CASE ReadoutFails(r)
  BY <1>10
  DEF ReadoutFails, Readings!Fail, Respond, Types, tokenVars
<1>11. CASE Drop(r)
  BY <1>11
  DEF Drop, Tokens!Abandon, Readings!Abandon, Goto, Types, tokenVars, readVars
<1>12. QED
  BY <1>1, <1>2, <1>3, <1>4, <1>5, <1>6, <1>7, <1>8, <1>9, <1>10, <1>11
  DEF StepOf, HandlerStep, PrefetchEnds, ReadoutEnds

-----------------------------------------------------------------------------
(* A step of r keeps its calls and its place in the loop in line. *)

\* The question a request is at.
LEMMA QuestionOfRequest ==
    ASSUME Types, NEW r \in Requests, at[r] \in DOMAIN body[r]
    PROVE  /\ Question(r) \in Questions
           /\ Needs(Question(r)) \subseteq Texts
           /\ Needs(Question(r)) = TextsOf(Question(r).prompt, Slots(Question(r)))
<1>1. Question(r) \in Questions
  BY BodyOfQuestions DEF Types, Question
<1>2. QED
  BY <1>1, QuestionTexts

\* Verification finds every text it reads.
LEMMA VerifyReadsWhatIsStored ==
    ASSUME Types, NEW r \in Requests, Handled(r), Verify(r)
    PROVE  LET said == Check(cache, Question(r)) IN
           \/ /\ said # Accepted
              /\ Respond(r, Refused(422, said, at[r])) /\ UNCHANGED at
           \/ /\ said = Accepted /\ at[r] < Len(body[r])
              /\ Goto(r, "prepare") /\ at' = [at EXCEPT ![r] = at[r] + 1]
           \/ /\ said = Accepted /\ ~(at[r] < Len(body[r]))
              /\ Goto(r, "read") /\ UNCHANGED at
<1>1. at[r] \in DOMAIN body[r] /\ \A x \in Needs(Question(r)) : cache[x] # NotCached
  BY DEF Verify, Handled, Preparing
<1>2. \A x \in TextsOf(Question(r).prompt, Slots(Question(r))) : Tokens!Stored(x)
  BY <1>1, QuestionOfRequest DEF Tokens!Stored
<1>3. QED
  BY <1>2 DEF Verify, NextQuestion

\* A request that moves has what its stage needs.
LEMMA HandledStep ==
    ASSUME Types, NEW r \in Requests, Handled(r), StepOf(r)
    PROVE  Handled(r)'
<1> USE DEF Preparing
<1>1. CASE pc'[r] \in {"done", "dropped"}
  BY <1>1 DEF Handled
<1>2. ASSUME NEW b \in Bodies, Receive(r, b), pc'[r] # "done"
      PROVE  Handled(r)'
  <2>1. /\ pc'[r] = "prepare" /\ at'[r] = 1 /\ body'[r] = b /\ b # <<>>
        /\ reading'[r] = "none"
    BY <1>2 DEF Receive, Respond, Goto, Handled, Types, readVars
  <2>2. 1 \in DOMAIN b
    BY <2>1, BodyOfQuestions, EmptySeq
  <2>3. QED
    BY <2>1, <2>2 DEF Handled
<1>3. CASE Tokenize(r)
  <2>1. Same(r)
    BY <1>3
    DEF Tokenize, Tokens!Fill, Same, readVars, handlerVars
  <2>2. Kept
    BY OneAtATime DEF Alone
  <2>3. QED
    BY <2>1, <2>2, HandledStays
<1>4. ASSUME Prepare(r), pc'[r] # "done"
      PROVE  Handled(r)'
  <2>1. /\ pc[r] = "prepare" /\ pc'[r] = "prefetch" /\ fetch'[r] = "pending"
        /\ asked'[r] = Needs(Question(r))
        /\ RenderSlots(Question(r).kind, Question(r).n) = Accepted
        /\ UNCHANGED <<readVars, body, at>>
    BY <1>4 DEF Prepare, Tokens!Ask, Respond, Goto, Types
  <2>2. Question(r)' = Question(r)
    BY <2>1 DEF Question
  <2>3. QED
    BY <2>1, <2>2 DEF Handled, readVars
<1>5. CASE Prefetched(r)
  <2>1. /\ pc[r] = "prefetch" /\ pc'[r] = "check"
        /\ \A x \in asked[r] : cache'[x] # NotCached
        /\ UNCHANGED <<readVars, body, at>>
    BY <1>5 DEF Prefetched, Tokens!Serve, Tokens!Stored, Goto, Types
  <2>2. Question(r)' = Question(r)
    BY <2>1 DEF Question
  <2>3. QED
    BY <2>1, <2>2 DEF Handled, readVars
<1>6. ASSUME Verify(r), pc'[r] # "done"
      PROVE  Handled(r)'
  <2>1. /\ pc[r] = "check" /\ at[r] \in DOMAIN body[r]
        /\ UNCHANGED <<readVars, body>> /\ reading[r] = "none"
    BY <1>6 DEF Verify, Handled
  <2>2. DOMAIN body[r] = 1..Len(body[r]) /\ Len(body[r]) \in Nat
    BY BodyOfQuestions DEF Types
  <2>3. \/ pc'[r] = "prepare" /\ at'[r] \in DOMAIN body[r]
        \/ pc'[r] = "read"
    BY <1>6, <2>1, <2>2, VerifyReadsWhatIsStored DEF Respond, Goto, Types
  <2>4. body[r] # <<>>
    BY <2>1, <2>2
  <2>5. QED
    BY <2>1, <2>3, <2>4 DEF Handled, readVars
<1>7. CASE Read(r)
  <2>1. PromptsOf(body[r]) # <<>>
    BY <1>7, PromptsOfBody DEF Read, Handled, Types
  <2>2. /\ pc'[r] = "reading" /\ reading'[r] = "pending" /\ body'[r] = body[r]
        /\ prompts'[r] = PromptsOf(body[r]) /\ body[r] # <<>>
    BY <1>7, <2>1 DEF Read, Readings!Ask, Goto, Handled, Types
  <2>3. QED
    BY <2>2 DEF Handled
<1>8. CASE ReadoutsArrive(r)
  <2>1. /\ pc'[r] = "assemble" /\ reading'[r] = "answered" /\ body'[r] = body[r]
        /\ readouts'[r] \in Readings!ReadoutsOf(PromptsOf(body[r])) /\ body[r] # <<>>
    BY <1>8 DEF ReadoutsArrive, Readings!Answer, Goto, Handled, Types
  <2>2. QED
    BY <2>1 DEF Handled
<1>9. CASE Assemble(r) \/ TokenizationFails(r) \/ ReadoutFails(r) \/ Drop(r)
  <2>1. pc'[r] \in {"done", "dropped"}
    BY <1>9 DEF Assemble, TokenizationFails, ReadoutFails, Drop, Respond, Goto, Types
  <2>2. QED
    BY <1>1, <2>1
<1>10. QED
  BY <1>1, <1>2, <1>3, <1>4, <1>5, <1>6, <1>7, <1>8, <1>9
  DEF StepOf, HandlerStep, PrefetchEnds, ReadoutEnds

-----------------------------------------------------------------------------
(* A step of r leaves no fault behind, and only a fault ends step 2. *)

\* A request that moves is judged rightly.
LEMMA JudgedStep ==
    ASSUME HandlerInv, steady, NEW r \in Requests, StepOf(r)
    PROVE  Judged(r)'
<1>0. /\ Types /\ Handled(r) /\ Judged(r)
      /\ vocab' = vocab /\ vocab \in Vocabs
      /\ \A x \in Texts : cache[x] \in {NotCached, vocab[x]}
  BY OneAtATime DEF HandlerInv, JudgedBySteadyEndpoint, CacheIsTrue, Alone, Types
<1> USE DEF Preparing, Paid, Done
<1>1. ASSUME NEW b \in Bodies, Receive(r, b)
      PROVE  Judged(r)'
  <2>1. /\ pc'[r] \in {"prepare", "done"} /\ at'[r] = 1 /\ body'[r] = b
        /\ reading'[r] = "none" /\ (pc'[r] = "done" => b = <<>>)
    BY <1>0, <1>1 DEF Receive, Respond, Goto, Handled, Types, readVars
  <2>2. FaultlessBefore(vocab, b, 1)
    BY BodyOfQuestions DEF FaultlessBefore
  <2>3. QED
    BY <1>0, <2>1, <2>2 DEF Judged
<1>2. CASE Tokenize(r)
  <2>1. Same(r)
    BY <1>2 DEF Tokenize, Tokens!Fill, Same, readVars, handlerVars
  <2>2. QED
    BY <1>0, <2>1, JudgedStays
<1>3. CASE Prepare(r)
  <2>1. /\ pc[r] = "prepare" /\ at[r] \in DOMAIN body[r] /\ reading[r] = "none"
        /\ FaultlessBefore(vocab, body[r], at[r])
        /\ at' = at /\ body' = body /\ reading' = reading
    BY <1>0, <1>3 DEF Prepare, Handled, Judged, readVars
  <2>2. CASE RenderSlots(Question(r).kind, Question(r).n) = Accepted
    <3>1. pc'[r] = "prefetch"
      BY <1>0, <1>3, <2>2 DEF Prepare, Goto, Types
    <3>2. QED
      BY <1>0, <2>1, <3>1 DEF Judged
  <2>3. CASE RenderSlots(Question(r).kind, Question(r).n) # Accepted
    <3>1. /\ pc'[r] = "done"
          /\ response'[r].at = at[r]
          /\ response'[r].error = RenderSlots(Question(r).kind, Question(r).n)
      BY <1>0, <1>3, <2>3 DEF Prepare, Respond, Refused, Types
    <3>2. /\ Fault(vocab, body[r][at[r]]) = "render"
          /\ Class(response'[r].error) = "render"
      BY <2>3, <3>1, RenderingFault DEF Question
    <3>3. QED
      BY <1>0, <2>1, <3>1, <3>2 DEF Judged
  <2>4. QED
    BY <2>2, <2>3
<1>4. CASE Prefetched(r)
  <2>1. /\ pc[r] = "prefetch" /\ pc'[r] = "check" /\ reading[r] = "none"
        /\ at' = at /\ body' = body /\ reading' = reading
    BY <1>0, <1>4 DEF Prefetched, Goto, Types, Handled, readVars
  <2>2. QED
    BY <1>0, <2>1 DEF Judged
<1>5. CASE Verify(r)
  <2>1. /\ pc[r] = "check" /\ at[r] \in DOMAIN body[r] /\ reading[r] = "none"
        /\ RenderSlots(Question(r).kind, Question(r).n) = Accepted
        /\ FaultlessBefore(vocab, body[r], at[r])
        /\ body' = body /\ reading' = reading
    BY <1>0, <1>5 DEF Verify, Handled, Judged, readVars
  <2>2. /\ body[r] \in Bodies \cup {<<>>}
        /\ DOMAIN body[r] = 1..Len(body[r]) /\ Len(body[r]) \in Nat
    BY <1>0, BodyOfQuestions DEF Types
  <2>3. \A x \in Needs(Question(r)) : cache[x] = vocab[x]
    BY <1>0, <1>5, <2>1, QuestionOfRequest DEF Verify, Handled
  <2>4. /\ Check(cache, Question(r)) = Accepted
               <=> Fault(vocab, body[r][at[r]]) = "none"
        /\ Check(cache, Question(r)) # Accepted =>
               Class(Check(cache, Question(r))) = Fault(vocab, body[r][at[r]])
    <3>1. Question(r) \in Questions /\ Question(r) = body[r][at[r]]
      BY <1>0, <2>1, QuestionOfRequest DEF Question
    <3>2. QED
      BY <1>0, <2>1, <2>3, <3>1, CheckFindsTheFault
  <2>5. CASE Check(cache, Question(r)) # Accepted
    <3>1. /\ pc'[r] = "done" /\ at' = at
          /\ response'[r].at = at[r]
          /\ response'[r].error = Check(cache, Question(r))
      BY <1>0, <1>5, <2>5, VerifyReadsWhatIsStored DEF Respond, Refused, Types
    <3>2. QED
      BY <1>0, <2>1, <2>4, <2>5, <3>1 DEF Judged
  <2>6. CASE Check(cache, Question(r)) = Accepted /\ at[r] < Len(body[r])
    <3>1. pc'[r] = "prepare" /\ at'[r] = at[r] + 1
      BY <1>0, <1>5, <2>6, VerifyReadsWhatIsStored DEF Goto, Types
    <3>2. FaultlessBefore(vocab, body[r], at[r] + 1)
      BY <2>1, <2>2, <2>4, <2>6, LastQuestionJudged
    <3>3. QED
      BY <1>0, <2>1, <3>1, <3>2 DEF Judged
  <2>7. CASE Check(cache, Question(r)) = Accepted /\ ~(at[r] < Len(body[r]))
    <3>1. pc'[r] = "read"
      BY <1>0, <1>5, <2>7, VerifyReadsWhatIsStored DEF Goto, Types
    <3>2. at[r] = Len(body[r])
      BY <2>1, <2>2, <2>7
    <3>3. FaultyQuestions(vocab, body[r]) = {}
      BY <2>1, <2>2, <2>4, <2>7, <3>2, LastQuestionJudged
    <3>4. QED
      BY <1>0, <2>1, <3>1, <3>3 DEF Judged
  <2>8. QED
    BY <2>5, <2>6, <2>7
<1>6. CASE Read(r)
  <2>1. /\ FaultyQuestions(vocab, body[r]) = {}
        /\ pc'[r] = "reading" /\ body' = body
    BY <1>0, <1>6 DEF Read, Goto, Judged, Types
  <2>2. QED
    BY <1>0, <2>1 DEF Judged
<1>7. CASE ReadoutsArrive(r) \/ ReadoutFails(r) \/ Assemble(r)
  <2>1. /\ reading[r] # "none" /\ reading'[r] # "none" /\ body' = body
        /\ pc'[r] \in {"assemble", "done"}
    BY <1>0, <1>7
    DEF ReadoutsArrive, ReadoutFails, Assemble, Readings!Answer, Readings!Fail,
        Respond, Goto, Handled, Types, readVars
  <2>2. QED
    BY <1>0, <2>1 DEF Judged
<1>8. CASE TokenizationFails(r)
  <2>1. /\ response'[r].code = 502 /\ pc'[r] = "done" /\ pc[r] = "prefetch"
        /\ reading' = reading
    BY <1>0, <1>8 DEF TokenizationFails, Respond, Refused, Types, readVars
  <2>2. reading'[r] = "none"
    BY <1>0, <2>1 DEF Handled
  <2>3. QED
    BY <2>1, <2>2 DEF Judged
<1>9. CASE Drop(r)
  <2>1. /\ pc'[r] = "dropped" /\ body' = body
        /\ \/ pc[r] = "prefetch" /\ reading'[r] = "none"
           \/ pc[r] = "reading"
    BY <1>0, <1>9
    DEF Drop, Tokens!Abandon, Readings!Abandon, Goto, Handled, Types, readVars
  <2>2. pc[r] = "reading" => FaultyQuestions(vocab, body[r]) = {}
    BY <1>0 DEF Judged, Handled
  <2>3. QED
    BY <1>0, <2>1, <2>2 DEF Judged
<1>10. QED
  BY <1>1, <1>2, <1>3, <1>4, <1>5, <1>6, <1>7, <1>8, <1>9
  DEF StepOf, HandlerStep, PrefetchEnds, ReadoutEnds

-----------------------------------------------------------------------------
(* The invariant of the handler. *)

\* Every step is one request's, or the endpoint's.
LEMMA NextIsAStepOfOne ==
    Next <=> (\E r \in Requests : StepOf(r)) \/ Redeploy
  BY DEF Next, StepOf

\* No step breaks the invariant.
LEMMA HandlerInvStep ==
    ASSUME HandlerInv, [Next]_vars
    PROVE  HandlerInv'
<1>1. ASSUME NEW r \in Requests, StepOf(r)
      PROVE  HandlerInv'
  <2>1. Types /\ Alone(r) /\ \A q \in Requests : Handled(q)
    BY <1>1, OneAtATime DEF HandlerInv
  <2>2. Types'
    BY <1>1, <2>1, TypesStep
  <2>3. ASSUME NEW q \in Requests PROVE Handled(q)'
    <3>1. CASE q = r
      BY <1>1, <2>1, <3>1, HandledStep
    <3>2. CASE q # r
      BY <2>1, <3>2, HandledStays DEF Alone
    <3>3. QED
      BY <3>1, <3>2
  <2>4. CacheIsTrue'
    BY <2>1 DEF HandlerInv, CacheIsTrue, Alone
  <2>5. ASSUME steady', NEW q \in Requests PROVE Judged(q)'
    <3>1. steady /\ Judged(q)
      BY <2>1, <2>5 DEF HandlerInv, JudgedBySteadyEndpoint, Alone
    <3>2. CASE q = r
      BY <1>1, <3>1, <3>2, JudgedStep
    <3>3. CASE q # r
      BY <2>1, <3>1, <3>3, JudgedStays DEF Alone
    <3>4. QED
      BY <3>2, <3>3
  <2>6. QED
    BY <2>2, <2>3, <2>4, <2>5 DEF HandlerInv, JudgedBySteadyEndpoint
<1>2. ASSUME UNCHANGED <<tokenVars, readVars, handlerVars>>,
             vocab' \in Vocabs, steady' = FALSE \/ UNCHANGED <<vocab, steady>>
      PROVE  HandlerInv'
  <2>1. Kept /\ \A q \in Requests : Same(q)
    BY <1>2 DEF Kept, Same, tokenVars, readVars, handlerVars
  <2>2. Types'
    BY <1>2 DEF HandlerInv, Types, tokenVars, readVars, handlerVars
  <2>3. \A q \in Requests : Handled(q)'
    BY <2>1, HandledStays DEF HandlerInv
  <2>4. CacheIsTrue' /\ JudgedBySteadyEndpoint'
    BY <1>2, <2>1, JudgedStays
    DEF HandlerInv, CacheIsTrue, JudgedBySteadyEndpoint, tokenVars
  <2>5. QED
    BY <2>2, <2>3, <2>4 DEF HandlerInv
<1>3. CASE Redeploy
  BY <1>2, <1>3 DEF Redeploy
<1>4. CASE UNCHANGED vars
  BY <1>2, <1>4 DEF vars, HandlerInv, Types
<1>5. QED
  BY <1>1, <1>3, <1>4, NextIsAStepOfOne

\* The invariant the theorems below follow from.
LEMMA HandlerInvariant == Spec => []HandlerInv
<1>1. Init => HandlerInv
  <2>1. ASSUME Init PROVE Types
    BY <2>1 DEF Init, Tokens!Init, Readings!ServiceInit, Types, Calling, Reading, Stages
  <2>2. ASSUME Init, NEW r \in Requests PROVE Handled(r) /\ Judged(r)
    BY <2>2
    DEF Init, Readings!ServiceInit, Handled, Judged, Preparing, Paid, Done
  <2>3. ASSUME Init PROVE CacheIsTrue
    BY <2>3 DEF Init, Tokens!Init, CacheIsTrue
  <2>4. QED
    BY <2>1, <2>2, <2>3 DEF HandlerInv, JudgedBySteadyEndpoint
<1>2. QED
  BY <1>1, HandlerInvStep, PTL DEF Spec

\* The synchronous verification never meets a text that was not prefetched:
\* the panic of `encode` is out of reach, however many requests, questions
\* and slots there are and whatever the endpoint does.
THEOREM HandlerNeverPanics == Spec => []NoPanic
<1>1. HandlerInv => NoPanic
  BY DEF HandlerInv, Handled, NoPanic
<1>2. QED
  BY <1>1, HandlerInvariant, PTL

\* While the endpoint stays the same, a request with a faulty question is
\* never paid for, and the error names the first faulty question and its
\* fault: what other requests left in the cache never shows.
THEOREM ErrorsAreDeterministic == Spec => []FirstFaultWins
<1>1. ASSUME HandlerInv, steady, NEW r \in Requests, Done(r), response[r].code = 422,
             ~Paid(r), body[r] # <<>>
      PROVE  LET faulty == FaultyQuestions(vocab, body[r]) IN
             /\ faulty # {}
             /\ response[r].at = First(faulty)
             /\ Class(response[r].error) = Fault(vocab, body[r][First(faulty)])
  <2> DEFINE faulty == FaultyQuestions(vocab, body[r])
  <2>1. /\ at[r] \in DOMAIN body[r]
        /\ FaultlessBefore(vocab, body[r], at[r])
        /\ response[r].at = at[r]
        /\ Fault(vocab, body[r][at[r]]) # "none"
        /\ Class(response[r].error) = Fault(vocab, body[r][at[r]])
    BY <1>1 DEF HandlerInv, JudgedBySteadyEndpoint, Judged
  <2>2. DOMAIN body[r] = 1..Len(body[r]) /\ Len(body[r]) \in Nat
    BY <1>1, BodyOfQuestions DEF HandlerInv, Types
  <2>3. at[r] \in faulty
    BY <2>1 DEF FaultyQuestions
  <2>4. faulty \subseteq Nat /\ \A j \in faulty : at[r] <= j
    BY <2>1, <2>2 DEF FaultyQuestions, FaultlessBefore
  <2>5. First(faulty) = at[r]
    <3> HIDE DEF faulty
    <3>1. QED
      BY <2>3, <2>4, FirstIsTheLeast
  <2>6. QED
    BY <2>1, <2>3, <2>5
<1>2. HandlerInv => FirstFaultWins
  BY <1>1 DEF FirstFaultWins, HandlerInv, JudgedBySteadyEndpoint, Judged
<1>3. QED
  BY <1>2, HandlerInvariant, PTL

-----------------------------------------------------------------------------
(* SystemOne implements SystemOneService: what a step of r is to its client. *)

Answers(r) == IF Done(r) THEN response[r].answers ELSE <<>>

\* What the client of r sees, apart from the status, does not change.
Looks(r) ==
    PromptsOf(body[r])' = PromptsOf(body[r]) /\ Paid(r)' = Paid(r) /\ Answers(r)' = Answers(r)

Unseen(r) == Status(r)' = Status(r) /\ Looks(r)

Taken(r) ==
    /\ Status(r) = "none"
    /\ \E b \in Bodies : /\ body'[r] = b
                         /\ Status(r)' = IF PromptsOf(b) = <<>> THEN "refused" ELSE "pending"
    /\ Paid(r)' = Paid(r) /\ Answers(r)' = Answers(r)

PaidFor(r) ==
    /\ Status(r) = "pending" /\ Status(r)' = "pending"
    /\ ~Paid(r) /\ Paid(r)'
    /\ PromptsOf(body[r])' = PromptsOf(body[r]) /\ Answers(r)' = Answers(r)

AnsweredWhole(r) ==
    /\ Status(r) = "pending" /\ Status(r)' = "answered"
    /\ Paid(r) /\ Paid(r)'
    /\ PromptsOf(body[r])' = PromptsOf(body[r]) /\ Answers(r)' = PromptsOf(body[r])

RefusedWhole(r) == Status(r) = "pending" /\ Status(r)' = "refused" /\ Looks(r)
Abandoned(r) == Status(r) = "pending" /\ Status(r)' = "abandoned" /\ Looks(r)

\* What is assembled is what was asked.
LEMMA AnswersAreTheQuestions ==
    ASSUME HandlerInv, NEW r \in Requests, pc[r] = "assemble"
    PROVE  Answered(r).answers = PromptsOf(body[r]) /\ Answered(r).code = 200
<1>1. /\ readouts[r] \in Readings!ReadoutsOf(PromptsOf(body[r]))
      /\ body[r] \in Bodies \cup {<<>>}
  BY DEF HandlerInv, Handled, Types
<1>2. \A i \in DOMAIN body[r] : readouts[r][i].prompt = PromptsOf(body[r])[i]
  BY <1>1, PromptsOfBody, BodyOfQuestions DEF Readings!ReadoutsOf
<1>3. [i \in DOMAIN body[r] |-> ReadoutOf(r, i).prompt] = PromptsOf(body[r])
  BY <1>2 DEF ReadoutOf, PromptsOf
<1>4. QED
  BY <1>3 DEF Answered, Ok

\* What the client sees of a step.
LEMMA ClientStep ==
    ASSUME HandlerInv, NEW r \in Requests, StepOf(r)
    PROVE  \/ Unseen(r) \/ Taken(r) \/ PaidFor(r)
           \/ AnsweredWhole(r) \/ RefusedWhole(r) \/ Abandoned(r)
<1>0. Types /\ Handled(r)
  BY DEF HandlerInv
<1> USE DEF Status, Paid, Done, Answers
\* Within a request that is under way.
<1>1. ASSUME Preparing(r) \/ pc[r] \in {"read", "reading", "assemble"},
             body' = body, reading'[r] = "none" <=> reading[r] = "none",
             Preparing(r)' \/ pc'[r] \in {"read", "reading", "assemble"}
      PROVE  Unseen(r)
  BY <1>0, <1>1 DEF Unseen, Looks, Preparing
<1>2. ASSUME Preparing(r) \/ pc[r] \in {"reading", "assemble"},
             body' = body, reading'[r] = "none" <=> reading[r] = "none",
             NEW code, code # 200, NEW error, NEW i, Respond(r, Refused(code, error, i))
      PROVE  RefusedWhole(r)
  <2>1. pc'[r] = "done" /\ response'[r].code # 200 /\ response'[r].answers = <<>>
    BY <1>0, <1>2 DEF Respond, Refused, Types
  <2>2. QED
    BY <1>0, <1>2, <2>1 DEF RefusedWhole, Looks, Preparing
<1>3. ASSUME NEW b \in Bodies, Receive(r, b)
      PROVE  Taken(r)
  <2>1. /\ pc[r] = "none" /\ body'[r] = b /\ reading' = reading
        /\ IF b = <<>> THEN /\ pc'[r] = "done"
                            /\ response'[r].code = 422 /\ response'[r].answers = <<>>
                       ELSE pc'[r] = "prepare"
    BY <1>0, <1>3 DEF Receive, Respond, Refused, Goto, Types, readVars
  <2>2. PromptsOf(b) = <<>> <=> b = <<>>
    BY PromptsOfBody
  <2>3. QED
    BY <2>1, <2>2 DEF Taken
<1>4. CASE Tokenize(r)
  BY <1>4 DEF Tokenize, Tokens!Fill, Unseen, Looks, readVars, handlerVars
<1>5. CASE Prepare(r)
  <2>1. pc[r] = "prepare" /\ body' = body /\ reading' = reading
    BY <1>5 DEF Prepare, readVars
  <2>2. \/ \E error : Respond(r, Refused(422, error, at[r]))
        \/ pc'[r] = "prefetch"
    BY <1>0, <1>5 DEF Prepare, Goto, Types
  <2>3. QED
    BY <1>1, <1>2, <2>1, <2>2 DEF Preparing
<1>6. CASE Prefetched(r)
  <2>1. pc[r] = "prefetch" /\ pc'[r] = "check" /\ body' = body /\ reading' = reading
    BY <1>0, <1>6 DEF Prefetched, Goto, Types, readVars
  <2>2. QED
    BY <1>1, <2>1 DEF Preparing
<1>7. CASE TokenizationFails(r)
  <2>1. /\ pc[r] = "prefetch" /\ body' = body /\ reading' = reading
        /\ Respond(r, Refused(502, "tokenization", at[r]))
    BY <1>7 DEF TokenizationFails, readVars
  <2>2. QED
    BY <1>2, <2>1 DEF Preparing
<1>8. CASE Verify(r)
  <2>1. pc[r] = "check" /\ body' = body /\ reading' = reading
    BY <1>8 DEF Verify, readVars
  <2>2. \/ \E error : Respond(r, Refused(422, error, at[r]))
        \/ pc'[r] \in {"prepare", "read"}
    BY <1>0, <1>8, VerifyReadsWhatIsStored DEF Goto, Types
  <2>3. QED
    BY <1>1, <1>2, <2>1, <2>2 DEF Preparing
<1>9. CASE Read(r)
  <2>1. /\ pc[r] = "read" /\ pc'[r] = "reading" /\ body' = body
        /\ reading[r] = "none" /\ reading'[r] # "none"
    BY <1>0, <1>9 DEF Read, Readings!Ask, Goto, Types
  <2>2. QED
    BY <2>1 DEF PaidFor
<1>10. CASE ReadoutsArrive(r)
  <2>1. /\ pc[r] = "reading" /\ pc'[r] = "assemble" /\ body' = body
        /\ reading[r] # "none" /\ reading'[r] # "none"
    BY <1>0, <1>10 DEF ReadoutsArrive, Readings!Answer, Goto, Types, Handled
  <2>2. QED
    BY <1>1, <2>1
<1>11. CASE ReadoutFails(r)
  <2>1. /\ pc[r] = "reading" /\ body' = body
        /\ reading[r] # "none" /\ reading'[r] # "none"
        /\ Respond(r, Refused(502, "readout", 0))
    BY <1>0, <1>11 DEF ReadoutFails, Readings!Fail, Types, Handled
  <2>2. QED
    BY <1>2, <2>1
<1>12. CASE Assemble(r)
  <2>1. /\ pc[r] = "assemble" /\ body' = body
        /\ reading' = reading /\ reading[r] = "answered"
    BY <1>0, <1>12 DEF Assemble, Handled, readVars
  <2>2. \/ \E i : Respond(r, Refused(422, "SlotMissingFromTopK", i))
        \/ Respond(r, Answered(r))
    BY <1>12 DEF Assemble
  <2>3. CASE Respond(r, Answered(r))
    <3>1. /\ pc'[r] = "done" /\ response'[r].code = 200
          /\ response'[r].answers = PromptsOf(body[r])
      BY <1>0, <2>1, <2>3, AnswersAreTheQuestions DEF Respond, Types
    <3>2. QED
      BY <2>1, <3>1 DEF AnsweredWhole
  <2>4. QED
    BY <1>2, <2>1, <2>2, <2>3
<1>13. CASE Drop(r)
  <2>1. /\ pc[r] \in {"prefetch", "reading"} /\ pc'[r] = "dropped" /\ body' = body
        /\ reading'[r] = "none" <=> reading[r] = "none"
    BY <1>0, <1>13
    DEF Drop, Tokens!Abandon, Readings!Abandon, Goto, Types, readVars
  <2>2. QED
    BY <2>1 DEF Abandoned, Looks
<1>14. QED
  BY <1>3, <1>4, <1>5, <1>6, <1>7, <1>8, <1>9, <1>10, <1>11, <1>12, <1>13
  DEF StepOf, HandlerStep, PrefetchEnds, ReadoutEnds

\* A step of r moves the service's variables at r only.
LEMMA ServiceMovesAtOne ==
    ASSUME NEW r \in Requests, Alone(r)
    PROVE  /\ [q \in Requests |-> Status(q)]'
                = [[q \in Requests |-> Status(q)] EXCEPT ![r] = Status(r)']
           /\ [q \in Requests |-> PromptsOf(body[q])]'
                = [[q \in Requests |-> PromptsOf(body[q])] EXCEPT ![r] = PromptsOf(body[r])']
           /\ [q \in Requests |-> Paid(q)]'
                = [[q \in Requests |-> Paid(q)] EXCEPT ![r] = Paid(r)']
           /\ [q \in Requests |-> Answers(q)]'
                = [[q \in Requests |-> Answers(q)] EXCEPT ![r] = Answers(r)']
<1>1. ASSUME NEW q \in Requests, q # r
      PROVE  /\ Status(q)' = Status(q) /\ PromptsOf(body[q])' = PromptsOf(body[q])
             /\ Paid(q)' = Paid(q) /\ Answers(q)' = Answers(q)
  BY <1>1 DEF Alone, Same, Status, Paid, Answers, Done
<1>2. QED
  BY <1>1

\* Every step is one of the service, or none.
LEMMA ServiceStep ==
    ASSUME HandlerInv, NEW r \in Requests, StepOf(r)
    PROVE  [Service!ServiceNext]_(Service!serviceVars)
<1>1. Alone(r)
  BY OneAtATime DEF HandlerInv
<1> USE DEF Service!To, Answers
<1>2. CASE Unseen(r)
  <2>1. UNCHANGED Service!serviceVars
    BY <1>1, <1>2, ServiceMovesAtOne DEF Service!serviceVars, Unseen, Looks
  <2>2. QED
    BY <2>1
<1>3. CASE Taken(r)
  <2>1. PICK b \in Bodies :
           /\ body'[r] = b
           /\ Status(r)' = IF PromptsOf(b) = <<>> THEN "refused" ELSE "pending"
    BY <1>3 DEF Taken
  <2>2. Service!Take(r, PromptsOf(b))
    BY <1>1, <1>3, <2>1, ServiceMovesAtOne DEF Service!Take, Taken
  <2>3. QED
    BY <2>2 DEF Service!ServiceNext, Batches
<1>4. CASE PaidFor(r)
  <2>1. Service!Pay(r)
    BY <1>1, <1>4, ServiceMovesAtOne DEF Service!Pay, PaidFor
  <2>2. QED
    BY <2>1 DEF Service!ServiceNext, Service!Serve
<1>5. CASE AnsweredWhole(r)
  <2> DEFINE sPaid == [q \in Requests |-> Paid(q)]
             sAsked == [q \in Requests |-> PromptsOf(body[q])]
  <2>1. sPaid[r] /\ sPaid' = sPaid
    <3>1. sPaid[r] = TRUE /\ Paid(r)' = TRUE
      BY <1>5 DEF AnsweredWhole, Paid
    <3>2. sPaid' = [sPaid EXCEPT ![r] = TRUE]
      BY <1>1, <3>1, ServiceMovesAtOne
    <3>3. QED
      BY <3>1, <3>2
  <2>2. sAsked[r] = PromptsOf(body[r]) /\ sAsked' = sAsked
    BY <1>1, <1>5, ServiceMovesAtOne DEF AnsweredWhole
  <2>3. Service!Answer(r)
    BY <1>1, <1>5, <2>1, <2>2, ServiceMovesAtOne DEF Service!Answer, AnsweredWhole
  <2>4. QED
    BY <2>3 DEF Service!ServiceNext, Service!Serve
<1>6. CASE RefusedWhole(r)
  <2>1. Service!Refuse(r)
    BY <1>1, <1>6, ServiceMovesAtOne DEF Service!Refuse, RefusedWhole, Looks
  <2>2. QED
    BY <2>1 DEF Service!ServiceNext, Service!Serve
<1>7. CASE Abandoned(r)
  <2>1. Service!Abandon(r)
    BY <1>1, <1>7, ServiceMovesAtOne DEF Service!Abandon, Abandoned, Looks
  <2>2. QED
    BY <2>1 DEF Service!ServiceNext, Service!Serve
<1>8. QED
  BY <1>2, <1>3, <1>4, <1>5, <1>6, <1>7, ClientStep

\* Every behaviour of the handler is one the clients' view allows: a request
\* is answered whole and about its own questions, or refused whole, and paid
\* for once at most, whatever is interleaved with it.
THEOREM HandlerImplementsService == Spec => ImplementsSystemOneService
<1>1. Init => Service!ServiceInit
  <2> SUFFICES ASSUME Init PROVE Service!ServiceInit
    OBVIOUS
  <2>1. ASSUME NEW r \in Requests
        PROVE  /\ Status(r) = "none" /\ PromptsOf(body[r]) = <<>> /\ ~Paid(r) /\ ~Done(r)
    BY PromptsOfBody DEF Init, Readings!ServiceInit, Status, Paid, Done
  <2>2. QED
    BY <2>1 DEF Service!ServiceInit, Paid, Done
<1>2. HandlerInv /\ [Next]_vars => [Service!ServiceNext]_(Service!serviceVars)
  <2> SUFFICES ASSUME HandlerInv, [Next]_vars
               PROVE  [Service!ServiceNext]_(Service!serviceVars)
    OBVIOUS
  <2>1. CASE UNCHANGED <<readVars, handlerVars>>
    BY <2>1
    DEF Service!serviceVars, Status, Paid, Done, readVars, handlerVars
  <2>2. QED
    BY <2>1, ServiceStep, NextIsAStepOfOne DEF vars, Redeploy
<1>3. QED
  BY <1>1, <1>2, HandlerInvariant, PTL DEF Spec, ImplementsSystemOneService, Service!ServiceSpec

-----------------------------------------------------------------------------
(* The published answer: what is computed from one readout. *)

Complete(r) == \A i \in DOMAIN r : ~Missing(r, i)

Rounded(r) == [i \in DOMAIN r |-> Round6(Masses(r)[i], Total(Masses(r)))]

\* What the assumption says of one readout.
LEMMA ReadoutShape ==
    ASSUME NEW r \in Readouts
    PROVE  /\ DOMAIN r = 1..Len(r)
           /\ Len(r) \in Nat /\ Len(r) >= 1
           /\ IsFiniteSet(DOMAIN r) /\ Cardinality(DOMAIN r) = Len(r)
           /\ Len(r) * (Len(r) - 2) <= 2 * Unit
           /\ Unit \in Nat /\ Unit >= 1
<1>1. /\ DOMAIN r = 1..Len(r)
      /\ Len(r) \in Nat /\ Len(r) >= 1
      /\ Len(r) * (Len(r) - 2) <= 2 * Unit
      /\ Unit \in Nat /\ Unit >= 1
  BY ReadoutAssumption
<1>2. IsFiniteSet(1..Len(r)) /\ Cardinality(1..Len(r)) = Len(r)
  BY <1>1, FS_Interval
<1>3. QED
  BY <1>1, <1>2

\* Every slot of a complete readout has a mass.
LEMMA MassesArePositive ==
    ASSUME NEW r \in Readouts, Complete(r)
    PROVE  /\ DOMAIN Masses(r) = DOMAIN r
           /\ \A i \in DOMAIN r : Masses(r)[i] \in Nat /\ Masses(r)[i] > 0
           /\ Total(Masses(r)) \in Nat /\ Total(Masses(r)) > 0
<1>1. DOMAIN Masses(r) = DOMAIN r
  BY DEF Masses
<1>2. ASSUME NEW i \in DOMAIN r
      PROVE  Masses(r)[i] \in Nat /\ Masses(r)[i] > 0
  <2>1. /\ r[i].bare \in (Nat \ {0}) \cup {Absent}
        /\ r[i].spaced \in (Nat \ {0}) \cup {Absent}
    BY ReadoutShape, ReadoutAssumption
  <2>2. r[i].bare # Absent \/ r[i].spaced # Absent
    BY DEF Complete, Missing
  <2>3. QED
    BY <2>1, <2>2 DEF Masses, SlotMass
<1>3. Total(Masses(r)) = SumFunctionOnSet(Masses(r), DOMAIN r)
  BY <1>1, SumOfFunction DEF Total
<1>4. /\ Total(Masses(r)) \in Nat
      /\ \A i \in DOMAIN r : Masses(r)[i] <= Total(Masses(r))
  BY <1>2, <1>3, ReadoutShape, SumOfNaturals
<1>5. 1 \in DOMAIN r
  BY ReadoutShape
<1>6. QED
  BY <1>1, <1>2, <1>4, <1>5

\* A rounded probability is within half a unit.
LEMMA RoundedWithin ==
    ASSUME NEW m \in Nat, NEW M \in Nat, M > 0, NEW u \in Nat
    PROVE  LET q == (2 * m * u + M) \div (2 * M) IN
           /\ q \in Nat
           /\ 2 * M * q <= 2 * u * m + M
           /\ 2 * u * m < 2 * M * q + M
<1> DEFINE a == 2 * m * u + M
           b == 2 * M
           q == a \div b
<1>1. a \in Nat /\ b \in Nat /\ b > 0 /\ a = 2 * u * m + M /\ b = M + M
  OBVIOUS
<1>2. q \in Int /\ b * q <= a /\ a < b * q + b
  <2> HIDE DEF a, b
  <2>1. QED
    BY <1>1, DivisionRest
<1>3. q >= 0
  <2> HIDE DEF a, b, q
  <2>1. ASSUME q <= -1 PROVE FALSE
    <3>1. b * (q + 1) <= 0
      BY <1>1, <1>2, <2>1
    <3>2. b * (q + 1) = b * q + b
      BY <1>1, <1>2
    <3>3. QED
      BY <1>1, <1>2, <3>1, <3>2
  <2>2. QED
    BY <1>2, <2>1
<1> DEFINE c == 2 * u * m
           d == 2 * M * q
<1>4. d = b * q /\ c \in Int /\ d \in Int
  BY <1>2
<1>5. d <= c + M /\ c < d + M
  <2> HIDE DEF q, c, d, a, b
  <2>1. a = c + M
    BY <1>1 DEF c
  <2>2. QED
    BY <1>1, <1>2, <1>4, <2>1
<1>6. QED
  BY <1>2, <1>3, <1>5

\* A positive common factor.
LEMMA CommonFactor ==
    ASSUME NEW M \in Nat, M > 0, NEW a \in Int, NEW b \in Int, NEW n \in Int
    PROVE  /\ 2 * M * a <= 2 * b * M + n * M => 2 * a <= 2 * b + n
           /\ 2 * b * M <= 2 * M * a + n * M => 2 * b <= 2 * a + n
<1> DEFINE d == 2 * a - 2 * b - n
           e == 2 * b - 2 * a - n
<1>1. /\ M * d = 2 * M * a - 2 * b * M - n * M
      /\ M * e = 2 * b * M - 2 * M * a - n * M
      /\ d \in Int /\ e \in Int
  OBVIOUS
<1>2. (d > 0 => M * d > 0) /\ (e > 0 => M * e > 0)
  <2> HIDE DEF d, e
  <2>1. QED
    BY <1>1
<1>3. (M * d <= 0 => d <= 0) /\ (M * e <= 0 => e <= 0)
  <2> HIDE DEF d, e
  <2>1. QED
    BY <1>1, <1>2
<1>4. /\ 2 * M * a <= 2 * b * M + n * M => M * d <= 0
      /\ 2 * b * M <= 2 * M * a + n * M => M * e <= 0
  <2> DEFINE x == M * a
             y == b * M
             z == n * M
  <2>1. x \in Int /\ y \in Int /\ z \in Int
        /\ 2 * M * a = 2 * x /\ 2 * b * M = 2 * y
    OBVIOUS
  <2> HIDE DEF d, e, x, y
  <2>2. QED
    BY <1>1, <2>1
<1>5. QED
  BY <1>3, <1>4

\* Rounding moves a slot by half a unit at most, and the sum by half a unit
\* per slot.
LEMMA RoundedNear ==
    ASSUME NEW r \in Readouts, Complete(r)
    PROVE  LET p == Rounded(r)
               M == Total(Masses(r))
           IN
           /\ DOMAIN p = DOMAIN r
           /\ \A i \in DOMAIN r :
                 /\ p[i] \in Nat
                 /\ 2 * M * p[i] <= 2 * Unit * Masses(r)[i] + M
                 /\ 2 * Unit * Masses(r)[i] < 2 * M * p[i] + M
           /\ Total(p) \in Nat
           /\ 2 * Total(p) <= 2 * Unit + Len(r)
           /\ 2 * Unit <= 2 * Total(p) + Len(r)
<1> DEFINE p == Rounded(r)
           m == Masses(r)
           M == Total(m)
           S == DOMAIN r
           n == Len(r)
<1>1. /\ IsFiniteSet(S) /\ Cardinality(S) = n /\ n \in Nat
      /\ Unit \in Nat /\ DOMAIN m = S /\ M \in Nat /\ M > 0
      /\ \A i \in S : m[i] \in Nat
  BY ReadoutShape, MassesArePositive
<1>2. DOMAIN p = S
  BY DEF Rounded
<1>3. ASSUME NEW i \in S
      PROVE  /\ p[i] \in Nat
             /\ 2 * M * p[i] <= 2 * Unit * m[i] + M
             /\ 2 * Unit * m[i] < 2 * M * p[i] + M
  <2>1. p[i] = (2 * m[i] * Unit + M) \div (2 * M)
    BY DEF Rounded, Round6
  <2> HIDE DEF p, m, M
  <2>2. m[i] \in Nat
    BY <1>1
  <2>3. QED
    BY <1>1, <2>1, <2>2, RoundedWithin
<1>4. Total(p) = SumFunctionOnSet(p, S) /\ M = SumFunctionOnSet(m, S)
  BY <1>1, <1>2, SumOfFunction DEF Total
<1> HIDE DEF p, m, M, S, n
<1>5. Total(p) \in Nat
  BY <1>1, <1>3, <1>4, SumOfNaturals
<1>6. 2 * M * Total(p) <= 2 * Unit * M + n * M
  <2>1. \A i \in S : /\ p[i] \in Int /\ m[i] \in Int
                     /\ (2 * M) * p[i] <= (2 * Unit) * m[i] + M
    BY <1>1, <1>3
  <2>2. 2 * M \in Int /\ 2 * Unit \in Int /\ M \in Int
    BY <1>1
  <2>3. (2 * M) * SumFunctionOnSet(p, S)
           <= (2 * Unit) * SumFunctionOnSet(m, S) + Cardinality(S) * M
    BY <1>1, <2>1, <2>2, SumWithin
  <2>4. QED
    BY <1>1, <1>4, <2>3
<1>7. 2 * Unit * M <= 2 * M * Total(p) + n * M
  <2>1. \A i \in S : /\ p[i] \in Int /\ m[i] \in Int
                     /\ (2 * Unit) * m[i] <= (2 * M) * p[i] + M
    BY <1>1, <1>3
  <2>2. 2 * M \in Int /\ 2 * Unit \in Int /\ M \in Int
    BY <1>1
  <2>3. (2 * Unit) * SumFunctionOnSet(m, S)
           <= (2 * M) * SumFunctionOnSet(p, S) + Cardinality(S) * M
    BY <1>1, <2>1, <2>2, SumWithin
  <2>4. QED
    BY <1>1, <1>4, <2>3
<1>8. 2 * Total(p) <= 2 * Unit + n
  BY <1>1, <1>5, <1>6, CommonFactor
<1>9. 2 * Unit <= 2 * Total(p) + n
  BY <1>1, <1>5, <1>7, CommonFactor
<1>10. QED
  BY <1>2, <1>3, <1>5, <1>8, <1>9 DEF p, m, M, S, n

\* There is a first maximum, and argmax_in_order finds it.
LEMMA FirstMaximum ==
    ASSUME NEW n \in Nat, n >= 1, NEW p, DOMAIN p = 1..n, \A i \in 1..n : p[i] \in Int
    PROVE  /\ ArgmaxInOrder(p) \in 1..n
           /\ \A j \in 1..n : p[j] <= p[ArgmaxInOrder(p)]
           /\ \A j \in 1..n : j < ArgmaxInOrder(p) => p[j] < p[ArgmaxInOrder(p)]
<1>1. IsFiniteSet(1..n) /\ 1 \in 1..n
  BY FS_Interval
<1>2. PICK x \in 1..n : \A y \in 1..n : p[y] <= p[x]
  <2>1. 1..n # {}
    BY <1>1
  <2>2. QED
    BY <1>1, <2>1, LargestExists
<1> DEFINE top == {i \in 1..n : p[i] = p[x]}
<1>3. PICK a \in top : \A k \in top : a <= k
  <2>1. top \in SUBSET Int /\ top # {} /\ IsFiniteSet(top)
    BY <1>1, FS_Subset
  <2>2. QED
    BY <2>1, LeastElement
<1>4. a \in DOMAIN p /\ (\A j \in DOMAIN p : p[j] <= p[a])
        /\ \A j \in 1..(a - 1) : p[j] < p[a]
  <2>1. ASSUME NEW j \in 1..(a - 1)
        PROVE  p[j] < p[a]
    <3>1. j \in 1..n /\ p[j] \in Int /\ p[a] \in Int /\ p[j] <= p[a] /\ p[x] = p[a]
      BY <1>2, <1>3
    <3>2. ~(a <= j) /\ j \notin top
      BY <1>3
    <3>3. QED
      BY <3>1, <3>2
  <2>2. QED
    BY <1>2, <1>3, <2>1
<1> DEFINE c == ArgmaxInOrder(p)
<1>5. c \in DOMAIN p /\ (\A j \in DOMAIN p : p[j] <= p[c])
        /\ \A j \in 1..(c - 1) : p[j] < p[c]
  BY <1>4 DEF ArgmaxInOrder
<1>6. QED
  BY <1>5

\* The repair takes the residual to the first maximum, whether there is one or
\* not.
LEMMA RepairMoves ==
    ASSUME NEW n \in Nat, n >= 1, NEW p, p \in [1..n -> Nat]
    PROVE  LET a == ArgmaxInOrder(p)
               q == RepairProbabilitySum(p)
           IN
           /\ Total(p) \in Nat
           /\ q \in [1..n -> Int]
           /\ q[a] = p[a] + (Unit - Total(p))
           /\ \A i \in 1..n : i # a => q[i] = p[i]
           /\ Total(q) = Unit
<1> USE ReadoutAssumption
<1> DEFINE a == ArgmaxInOrder(p)
           q == RepairProbabilitySum(p)
           R == Unit - Total(p)
<1>1. IsFiniteSet(1..n) /\ Unit \in Int
  BY FS_Interval
<1>2. Total(p) = SumFunctionOnSet(p, 1..n)
  BY SumOfFunction DEF Total
<1>3. Total(p) \in Nat /\ R \in Int
  BY <1>1, <1>2, SumOfNaturals
<1>4. a \in 1..n
  BY FirstMaximum
<1>5. q = IF R = 0 THEN p ELSE [p EXCEPT ![a] = @ + R]
  BY DEF RepairProbabilitySum, Residual
<1> HIDE DEF a, q
<1>6. /\ q \in [1..n -> Int]
      /\ q[a] = p[a] + R
      /\ \A i \in 1..n : i # a => q[i] = p[i]
  BY <1>3, <1>4, <1>5
<1>7. Total(q) = SumFunctionOnSet(q, 1..n)
  BY <1>6, SumOfFunction DEF Total
<1>8. SumFunctionOnSet(q, 1..n) = SumFunctionOnSet(p, 1..n) - p[a] + q[a]
  <2>1. q[a] \in Int /\ \A i \in 1..n : p[i] \in Int
    BY <1>4, <1>6
  <2>2. QED
    BY <1>1, <1>4, <1>6, <2>1, SumChanged
<1>9. Total(q) = Unit
  BY <1>1, <1>2, <1>3, <1>4, <1>6, <1>7, <1>8
<1>10. QED
  BY <1>3, <1>6, <1>9 DEF a, q

-----------------------------------------------------------------------------
(* What is published of one complete readout. *)

Repaired(r) == RepairProbabilitySum(Rounded(r))

\* It is a distribution: an excess is at most half a unit per slot, and the
\* largest slot can give that away.
LEMMA RepairedIsDistribution ==
    ASSUME NEW r \in Readouts, Complete(r)
    PROVE  /\ DOMAIN Repaired(r) = DOMAIN r
           /\ Total(Repaired(r)) = Unit
           /\ \A i \in DOMAIN r : Repaired(r)[i] \in Nat
<1> DEFINE p == Rounded(r)
           n == Len(r)
           a == ArgmaxInOrder(p)
           q == Repaired(r)
           T == Total(p)
<1>1. /\ n \in Nat /\ n >= 1 /\ DOMAIN r = 1..n /\ IsFiniteSet(1..n)
      /\ Cardinality(1..n) = n /\ n * (n - 2) <= 2 * Unit /\ Unit \in Nat
  BY ReadoutShape
<1>2. p \in [1..n -> Nat] /\ 2 * T <= 2 * Unit + n
  <2>1. DOMAIN p = 1..n /\ \A i \in 1..n : p[i] \in Nat
    BY <1>1, RoundedNear
  <2>2. p = [i \in DOMAIN p |-> p[i]]
    BY DEF Rounded
  <2>3. QED
    BY <2>1, <2>2, RoundedNear
<1>3. /\ T \in Nat
      /\ q \in [1..n -> Int]
      /\ q[a] = p[a] + (Unit - T)
      /\ \A i \in 1..n : i # a => q[i] = p[i]
      /\ Total(q) = Unit
  <2> HIDE DEF p, n
  <2>1. QED
    BY <1>1, <1>2, RepairMoves DEF Repaired, p
<1>4. a \in 1..n /\ \A j \in 1..n : p[j] <= p[a]
  <2>1. DOMAIN p = 1..n /\ \A i \in 1..n : p[i] \in Int
    BY <1>2
  <2> HIDE DEF p, n
  <2>2. QED
    BY <1>1, <2>1, FirstMaximum
<1>5. T <= n * p[a]
  <2>1. T = SumFunctionOnSet(p, 1..n)
    BY <1>2, SumOfFunction DEF Total
  <2> DEFINE most == [i \in 1..n |-> p[a]]
  <2>2. \A i \in 1..n : /\ most[i] = p[a] /\ most[i] \in Int /\ p[i] \in Int
                        /\ p[i] <= most[i]
    BY <1>2, <1>4
  <2>3. p[a] \in Int
    BY <1>2, <1>4
  <2> HIDE DEF most, p, n, a
  <2>4. SumFunctionOnSet(most, 1..n) = n * p[a]
    BY <1>1, <2>2, <2>3, SumOfConstants
  <2>5. QED
    BY <1>1, <2>1, <2>2, <2>4, SumMonotone
<1>6. q[a] >= 0
  <2>1. p[a] \in Nat
    BY <1>2, <1>4
  <2> HIDE DEF p, n, a, q, T
  <2>2. CASE T <= Unit
    BY <1>1, <1>3, <2>1, <2>2
  <2>3. CASE T > Unit
    <3> SUFFICES ASSUME q[a] < 0 PROVE FALSE
      BY <1>1, <1>3, <2>1
    <3>1. 2 * p[a] <= n - 2
      BY <1>1, <1>2, <1>3, <2>1, <2>3
    <3>2. n * (2 * p[a]) <= n * (n - 2)
      BY <1>1, <2>1, <3>1
    <3>3. n * (2 * p[a]) = 2 * (n * p[a]) /\ n * p[a] \in Int
      BY <1>1, <2>1
    <3>4. n * (n - 2) \in Int
      BY <1>1
    <3>5. QED
      BY <1>1, <1>3, <1>5, <2>3, <3>2, <3>3, <3>4
  <2>4. QED
    BY <1>1, <1>3, <2>2, <2>3
<1>7. \A i \in 1..n : q[i] \in Nat
  <2> HIDE DEF p, n, a, q, T
  <2>1. QED
    BY <1>2, <1>3, <1>4, <1>6
<1>8. QED
  BY <1>1, <1>3, <1>7

\* Twice a difference, multiplied out.
LEMMA Distributed ==
    ASSUME NEW k \in Int, NEW x \in Int, NEW y \in Int
    PROVE  /\ k * x \in Int /\ k * y \in Int
           /\ k * (2 * (x - y)) = 2 * (k * x) - 2 * (k * y)
           /\ 2 * (x - y) * k = 2 * (k * x) - 2 * (k * y)
  OBVIOUS

\* The first maximum of what is published was near the largest mass: within
\* half a unit for each of the two roundings and the residual.
LEMMA RepairedNamesNearBest ==
    ASSUME NEW r \in Readouts, Complete(r), NEW i \in DOMAIN r
    PROVE  LET c == ArgmaxInOrder(Repaired(r))
               m == Masses(r)
           IN 2 * (m[i] - m[c]) * Unit <= (Len(r) + 2) * Total(m)
<1> DEFINE p == Rounded(r)
           n == Len(r)
           a == ArgmaxInOrder(p)
           q == Repaired(r)
           c == ArgmaxInOrder(q)
           T == Total(p)
           m == Masses(r)
           M == Total(m)
<1>1. /\ n \in Nat /\ n >= 1 /\ DOMAIN r = 1..n /\ Unit \in Nat
      /\ M \in Nat /\ M > 0 /\ \A k \in 1..n : m[k] \in Nat
  BY ReadoutShape, MassesArePositive
<1>2. /\ p \in [1..n -> Nat] /\ 2 * T <= 2 * Unit + n
      /\ \A k \in 1..n : /\ 2 * M * p[k] <= 2 * Unit * m[k] + M
                         /\ 2 * Unit * m[k] < 2 * M * p[k] + M
  <2>1. DOMAIN p = 1..n /\ \A k \in 1..n : p[k] \in Nat
    BY <1>1, RoundedNear
  <2>2. p = [k \in DOMAIN p |-> p[k]]
    BY DEF Rounded
  <2>3. QED
    BY <1>1, <2>1, <2>2, RoundedNear
<1>3. /\ T \in Nat
      /\ q \in [1..n -> Int]
      /\ q[a] = p[a] + (Unit - T)
      /\ \A k \in 1..n : k # a => q[k] = p[k]
  <2> HIDE DEF p, n
  <2>1. QED
    BY <1>1, <1>2, RepairMoves DEF Repaired, p
<1>4. a \in 1..n /\ \A j \in 1..n : p[j] <= p[a]
  <2>1. DOMAIN p = 1..n /\ \A k \in 1..n : p[k] \in Int
    BY <1>2
  <2> HIDE DEF p, n
  <2>2. QED
    BY <1>1, <2>1, FirstMaximum
<1>5. c \in 1..n /\ \A j \in 1..n : q[j] <= q[c]
  <2>1. DOMAIN q = 1..n /\ \A k \in 1..n : q[k] \in Int
    BY <1>3
  <2> HIDE DEF q, n
  <2>2. QED
    BY <1>1, <2>1, FirstMaximum
<1>6. i \in 1..n /\ p[i] \in Nat /\ p[c] \in Nat /\ m[i] \in Nat /\ m[c] \in Nat
  BY <1>1, <1>2, <1>5
<1> HIDE DEF p, n, a, q, c, T, m, M
<1>7. 2 * (p[i] - p[c]) <= n
  <2>1. q[i] \in Int /\ q[c] \in Int /\ q[i] <= q[c] /\ p[a] \in Nat
    BY <1>2, <1>3, <1>4, <1>5, <1>6
  <2>2. CASE p[i] <= p[c]
    BY <1>1, <1>6, <2>2
  <2>3. CASE p[c] < p[i]
    <3>1. c # a
      BY <1>4, <1>6, <2>3
    <3>2. i = a
      BY <1>3, <1>5, <1>6, <2>1, <2>3, <3>1
    <3>3. p[i] + (Unit - T) <= p[c]
      BY <1>3, <1>5, <2>1, <3>1, <3>2
    <3>4. 2 * T <= 2 * Unit + n
      BY <1>2
    <3>5. T \in Nat /\ n \in Nat /\ Unit \in Nat /\ p[i] \in Nat /\ p[c] \in Nat
      BY <1>1, <1>3, <1>6
    <3>6. QED
      BY <3>3, <3>4, <3>5
  <2>4. QED
    BY <1>6, <2>2, <2>3
<1>8. M * (2 * (p[i] - p[c])) <= M * n
  BY <1>1, <1>6, <1>7
<1> DEFINE x == M * p[i]
           y == M * p[c]
           u == Unit * m[i]
           w == Unit * m[c]
           z == M * n
<1>9. /\ x \in Int /\ y \in Int /\ u \in Int /\ w \in Int /\ z \in Int
      /\ M * (2 * (p[i] - p[c])) = 2 * x - 2 * y
      /\ 2 * (m[i] - m[c]) * Unit = 2 * u - 2 * w
      /\ (n + 2) * M = z + 2 * M
      /\ 2 * M * p[c] = 2 * y /\ 2 * M * p[i] = 2 * x
      /\ 2 * Unit * m[i] = 2 * u /\ 2 * Unit * m[c] = 2 * w
  <2>0. /\ M \in Int /\ Unit \in Int /\ p[i] \in Int /\ p[c] \in Int
        /\ m[i] \in Int /\ m[c] \in Int
    BY <1>1, <1>6
  <2>1. x \in Int /\ y \in Int /\ M * (2 * (p[i] - p[c])) = 2 * x - 2 * y
    BY <2>0, Distributed
  <2>2. u \in Int /\ w \in Int /\ 2 * (m[i] - m[c]) * Unit = 2 * u - 2 * w
    BY <2>0, Distributed
  <2>3. z \in Int /\ (n + 2) * M = z + 2 * M
    BY <1>1
  <2>4. 2 * M * p[c] = 2 * y /\ 2 * M * p[i] = 2 * x
    BY <1>1, <1>6
  <2>5. 2 * Unit * m[i] = 2 * u /\ 2 * Unit * m[c] = 2 * w
    BY <1>1, <1>6
  <2>6. QED
    BY <2>1, <2>2, <2>3, <2>4, <2>5
<1>10. 2 * y <= 2 * w + M /\ 2 * u < 2 * x + M /\ 2 * x - 2 * y <= z
  BY <1>2, <1>5, <1>6, <1>8, <1>9
<1>11. 2 * u - 2 * w <= z + 2 * M
  <2> HIDE DEF x, y, u, w, z
  <2>1. QED
    BY <1>1, <1>9, <1>10
<1>12. QED
  BY <1>9, <1>11 DEF n, c, q, m, M

\* A rounded value is near the real one.
LEMMA NearOne ==
    ASSUME NEW M \in Int, NEW U \in Int, NEW q \in Int, NEW m \in Int,
           (2 * M) * q <= (2 * U) * m + M, (2 * U) * m <= (2 * M) * q + M
    PROVE  Near(q * M, m * U, M)
<1> DEFINE x == q * M
           y == m * U
<1>1. x \in Int /\ y \in Int /\ (2 * M) * q = 2 * x /\ (2 * U) * m = 2 * y
  OBVIOUS
<1>2. 2 * x <= 2 * y + M /\ 2 * y <= 2 * x + M
  BY <1>1
<1> HIDE DEF x, y
<1>3. 2 * (x - y) <= M /\ 2 * (y - x) <= M
  BY <1>1, <1>2
<1>4. QED
  BY <1>3 DEF Near, x, y

\* What the rest is off by, the last one is off by.
LEMMA NearRest ==
    ASSUME NEW M \in Int, NEW U \in Int, NEW w \in Int,
           NEW q \in Int, NEW m \in Int, NEW Y \in Int, NEW Z \in Int,
           U = q + Y, M = m + Z,
           (2 * M) * Y <= (2 * U) * Z + w, (2 * U) * Z <= (2 * M) * Y + w
    PROVE  Near(q * M, m * U, w)
<1> DEFINE x == q * M
           y == m * U
           c == M * Y
           d == U * Z
<1>1. /\ x \in Int /\ y \in Int /\ c \in Int /\ d \in Int
      /\ (2 * M) * Y = 2 * c /\ (2 * U) * Z = 2 * d
  OBVIOUS
<1>2. x + c = y + d
  <2>1. x + c = M * (q + Y)
    OBVIOUS
  <2>2. y + d = U * (m + Z)
    OBVIOUS
  <2>3. QED
    BY <2>1, <2>2
<1>3. 2 * c <= 2 * d + w /\ 2 * d <= 2 * c + w
  BY <1>1
<1> HIDE DEF x, y, c, d
<1>4. 2 * (x - y) <= w /\ 2 * (y - x) <= w
  BY <1>1, <1>2, <1>3
<1>5. QED
  BY <1>4 DEF Near, x, y

\* Rounding keeps an order.
LEMMA OrderKept ==
    ASSUME NEW M \in Nat, M > 0, NEW U \in Nat,
           NEW a \in Int, NEW b \in Int, NEW x \in Int, NEW y \in Int, x <= y,
           (2 * M) * a <= (2 * U) * x + M, (2 * U) * y < (2 * M) * b + M
    PROVE  a <= b
<1> SUFFICES ASSUME a >= b + 1 PROVE FALSE
  OBVIOUS
<1>1. PICK e \in Nat : a = b + 1 + e
  BY a - b - 1 \in Nat
<1>2. PICK g \in Nat : y = x + g
  BY y - x \in Nat
<1> DEFINE c == M * e
           d == U * g
           s == M * b
           t == U * x
<1>3. /\ c \in Nat /\ d \in Nat /\ s \in Int /\ t \in Int
      /\ (2 * M) * a = 2 * s + 2 * M + 2 * c /\ (2 * M) * b = 2 * s
      /\ (2 * U) * y = 2 * t + 2 * d /\ (2 * U) * x = 2 * t
  BY <1>1, <1>2
<1>4. 2 * s + 2 * M + 2 * c <= 2 * t + M /\ 2 * t + 2 * d < 2 * s + M
  BY <1>3
<1> HIDE DEF c, d, s, t
<1>5. QED
  BY <1>3, <1>4

\* What is published is near the readout's distribution.
LEMMA RepairedIsNear ==
    ASSUME NEW r \in Readouts, Complete(r)
    PROVE  LET q == Repaired(r)
               m == Masses(r)
               M == Total(m)
           IN  \E s \in DOMAIN r :
                /\ Near(q[s] * M, m[s] * Unit, (Len(r) - 1) * M)
                /\ \A i \in DOMAIN r \ {s} :
                    /\ Near(q[i] * M, m[i] * Unit, M)
                    /\ \A j \in DOMAIN r \ {s} : m[i] <= m[j] => q[i] <= q[j]
<1> DEFINE p == Rounded(r)
           n == Len(r)
           a == ArgmaxInOrder(p)
           q == Repaired(r)
           m == Masses(r)
           M == Total(m)
           S == (1..n) \ {a}
<1>1. /\ n \in Nat /\ n >= 1 /\ DOMAIN r = 1..n /\ Unit \in Nat
      /\ IsFiniteSet(1..n) /\ Cardinality(1..n) = n
      /\ M \in Nat /\ M > 0 /\ DOMAIN m = 1..n /\ \A k \in 1..n : m[k] \in Nat
  BY ReadoutShape, MassesArePositive
<1>2. /\ p \in [1..n -> Nat]
      /\ \A k \in 1..n : /\ 2 * M * p[k] <= 2 * Unit * m[k] + M
                         /\ 2 * Unit * m[k] < 2 * M * p[k] + M
  <2>1. DOMAIN p = 1..n /\ \A k \in 1..n : p[k] \in Nat
    BY <1>1, RoundedNear
  <2>2. p = [k \in DOMAIN p |-> p[k]]
    BY DEF Rounded
  <2>3. QED
    BY <1>1, <2>1, <2>2, RoundedNear
<1>3. /\ q \in [1..n -> Int]
      /\ \A k \in 1..n : k # a => q[k] = p[k]
      /\ Total(q) = Unit
  <2> HIDE DEF p, n
  <2>1. QED
    BY <1>1, <1>2, RepairMoves DEF Repaired, p
<1>4. a \in 1..n
  <2>1. DOMAIN p = 1..n /\ \A k \in 1..n : p[k] \in Int
    BY <1>2
  <2> HIDE DEF p, n
  <2>2. QED
    BY <1>1, <2>1, FirstMaximum
<1>5. Unit = SumFunctionOnSet(q, 1..n) /\ M = SumFunctionOnSet(m, 1..n)
  BY <1>1, <1>3, SumOfFunction DEF Total
<1> HIDE DEF p, n, a, q, m, M
<1>6. IsFiniteSet(S) /\ Cardinality(S) = n - 1
  BY <1>1, <1>4, FS_RemoveElement
<1>7. ASSUME NEW k \in S
      PROVE  /\ q[k] \in Int /\ m[k] \in Int
             /\ (2 * M) * q[k] <= (2 * Unit) * m[k] + M
             /\ (2 * Unit) * m[k] < (2 * M) * q[k] + M
             /\ (2 * Unit) * m[k] <= (2 * M) * q[k] + M
  <2>1. k \in 1..n /\ q[k] = p[k] /\ q[k] \in Int /\ m[k] \in Int
    BY <1>1, <1>3
  <2>2. (2 * M) * p[k] <= (2 * Unit) * m[k] + M /\ (2 * Unit) * m[k] < (2 * M) * p[k] + M
    BY <1>2, <2>1
  <2> DEFINE x == (2 * M) * q[k]
             y == (2 * Unit) * m[k]
  <2>3. x \in Int /\ y \in Int /\ x <= y + M /\ y < x + M
    BY <1>1, <2>1, <2>2
  <2> HIDE DEF x, y
  <2>4. y <= x + M
    BY <1>1, <2>3
  <2>5. QED
    BY <2>1, <2>3, <2>4 DEF x, y
<1>8. /\ Unit = q[a] + SumFunctionOnSet(q, S)
      /\ M = m[a] + SumFunctionOnSet(m, S)
      /\ SumFunctionOnSet(q, S) \in Int /\ SumFunctionOnSet(m, S) \in Int
      /\ q[a] \in Int /\ m[a] \in Int
  <2>1. \A k \in 1..n : q[k] \in Int /\ m[k] \in Int
    BY <1>1, <1>3
  <2> DEFINE D == 1..n
  <2>2. IsFiniteSet(D) /\ a \in D /\ (\A k \in D : q[k] \in Int) /\ (\A k \in D : m[k] \in Int)
    BY <1>1, <1>4, <2>1
  <2>3. Unit = SumFunctionOnSet(q, D) /\ M = SumFunctionOnSet(m, D)
    BY <1>5
  <2>4. S = D \ {a}
    OBVIOUS
  <2> HIDE DEF S, D
  <2>5. Unit = q[a] + SumFunctionOnSet(q, S)
    BY <2>2, <2>3, <2>4, SumWithout
  <2>6. M = m[a] + SumFunctionOnSet(m, S)
    BY <2>2, <2>3, <2>4, SumWithout
  <2>7. \A k \in S : q[k] \in Int /\ m[k] \in Int
    BY <2>2, <2>4
  <2>8. SumFunctionOnSet(q, S) \in Int /\ SumFunctionOnSet(m, S) \in Int
    BY <1>6, <2>7, SumIsInt
  <2>9. QED
    BY <2>2, <2>5, <2>6, <2>8
<1> DEFINE Y == SumFunctionOnSet(q, S)
           Z == SumFunctionOnSet(m, S)
<1>9. /\ (2 * M) * Y <= (2 * Unit) * Z + (n - 1) * M
      /\ (2 * Unit) * Z <= (2 * M) * Y + (n - 1) * M
  <2>1. 2 * M \in Int /\ 2 * Unit \in Int /\ M \in Int
    BY <1>1
  <2> HIDE DEF S
  <2>2. (2 * M) * SumFunctionOnSet(q, S)
           <= (2 * Unit) * SumFunctionOnSet(m, S) + Cardinality(S) * M
    BY <1>6, <1>7, <2>1, SumWithin
  <2>3. (2 * Unit) * SumFunctionOnSet(m, S)
           <= (2 * M) * SumFunctionOnSet(q, S) + Cardinality(S) * M
    BY <1>6, <1>7, <2>1, SumWithin
  <2>4. QED
    BY <1>6, <2>2, <2>3
<1> HIDE DEF Y, Z
<1>10. Near(q[a] * M, m[a] * Unit, (n - 1) * M)
  <2>1. /\ M \in Int /\ Unit \in Int /\ (n - 1) * M \in Int
        /\ q[a] \in Int /\ m[a] \in Int /\ Y \in Int /\ Z \in Int
        /\ Unit = q[a] + Y /\ M = m[a] + Z
    BY <1>1, <1>8 DEF Y, Z
  <2>2. QED
    BY <1>9, <2>1, NearRest
<1>11. ASSUME NEW i \in S
       PROVE  Near(q[i] * M, m[i] * Unit, M)
  <2>1. /\ M \in Int /\ Unit \in Int /\ q[i] \in Int /\ m[i] \in Int
        /\ (2 * M) * q[i] <= (2 * Unit) * m[i] + M
        /\ (2 * Unit) * m[i] <= (2 * M) * q[i] + M
    BY <1>1, <1>7
  <2>2. QED
    BY <2>1, NearOne
<1>12. \A i, j \in S : m[i] <= m[j] => q[i] <= q[j]
  BY <1>1, <1>7, OrderKept
<1>13. QED
  BY <1>1, <1>4, <1>10, <1>11, <1>12 DEF q, m, M, n

-----------------------------------------------------------------------------
(* The inductive invariant: the stages of one answer. *)

AnswerInv ==
    /\ readout \in Readouts
    /\ answerPhase \in {"read", "missing", "rounded", "repaired", "published"}
    /\ answerPhase \in {"rounded", "repaired", "published"} => Complete(readout)
    /\ answerPhase = "rounded" => probs = Rounded(readout)
    /\ answerPhase \in {"repaired", "published"} => probs = Repaired(readout)
    /\ answerPhase = "published" => choice = ArgmaxInOrder(probs)

LEMMA AnswerInvHolds == AnswerSpec => []AnswerInv
<1>1. AnswerInit => AnswerInv
  BY DEF AnswerInit, AnswerInv
<1>2. AnswerInv /\ [AnswerNext]_answerVars => AnswerInv'
  <2> SUFFICES ASSUME AnswerInv, [AnswerNext]_answerVars
               PROVE  AnswerInv'
    OBVIOUS
  <2>1. CASE SlotMissing
    BY <2>1 DEF AnswerInv, SlotMissing
  <2>2. CASE Round
    BY <2>2 DEF AnswerInv, Round, Rounded, Complete, DeclaredSlots
  <2>3. CASE Repair
    BY <2>3 DEF AnswerInv, Repair, Repaired
  <2>4. CASE Publish
    BY <2>4 DEF AnswerInv, Publish
  <2>5. CASE UNCHANGED answerVars
    BY <2>5 DEF AnswerInv, answerVars
  <2>6. QED
    BY <2>1, <2>2, <2>3, <2>4, <2>5 DEF AnswerNext
<1>3. QED
  BY <1>1, <1>2, PTL DEF AnswerSpec

\* What is published sums to one and no slot of it is negative: rounding and
\* repair (api.rs) leave a distribution.
THEOREM PublishedIsDistribution == AnswerSpec => []IsDistribution
<1>1. AnswerInv => IsDistribution
  BY RepairedIsDistribution DEF AnswerInv, IsDistribution, Published, DeclaredSlots
<1>2. QED
  BY <1>1, AnswerInvHolds, PTL

\* What is published is the readout's own distribution up to what rounding may
\* cost: at most half a unit per slot, the residual at one slot, and no order
\* among the others reversed.
THEOREM PublishedWasNearReadout == AnswerSpec => []PublishedIsNearReadout
<1>1. AnswerInv => PublishedIsNearReadout
  <2> SUFFICES ASSUME AnswerInv, Published
               PROVE  PublishedIsNearReadout
    BY DEF PublishedIsNearReadout
  <2>1. readout \in Readouts /\ Complete(readout) /\ probs = Repaired(readout)
    BY DEF AnswerInv, Published
  <2>2. QED
    BY <2>1, RepairedIsNear DEF PublishedIsNearReadout, DeclaredSlots
<1>2. QED
  BY <1>1, AnswerInvHolds, PTL

\* Rounding and repair never name a slot that was further behind the best
\* than (n + 2)/2 units.
THEOREM ChoiceWasNearBest == AnswerSpec => []ChoiceIsNearBest
<1>1. AnswerInv => ChoiceIsNearBest
  BY RepairedNamesNearBest DEF AnswerInv, ChoiceIsNearBest, Published, DeclaredSlots
<1>2. QED
  BY <1>1, AnswerInvHolds, PTL
=============================================================================
