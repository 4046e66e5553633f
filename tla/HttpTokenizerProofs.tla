------------------------- MODULE HttpTokenizerProofs -------------------------
(***************************************************************************)
(* Proofs about HttpTokenizer, for every set of tasks, texts, jobs and     *)
(* deployments.                                                            *)
(***************************************************************************)
EXTENDS HttpTokenizer, SequenceTheorems, TLAPS

\* The rungs are combinations, and no other index is one.
LEMMA RungsAreCombos ==
    \A i \in 1..4 : Ladder[i] \in Combos
  BY DEF Combos

\* The text a working task is on is one of Texts.
LEMMA TextInTexts ==
    ASSUME TypeOK, NEW t \in Tasks, at[t] <= Len(texts[t])
    PROVE  /\ at[t] \in 1..Len(texts[t])
           /\ Text(t) \in Texts
<1>1. texts[t] \in Seq(Texts)
  BY JobsAssumption DEF TypeOK
<1>2. at[t] \in 1..Len(texts[t])
  BY <1>1 DEF TypeOK
<1>3. QED
  BY <1>1, <1>2 DEF Text

\* Every step keeps the types.
LEMMA TypeOKStep ==
    ASSUME TypeOK, [Next]_vars
    PROVE  TypeOK'
<1> USE DEF TypeOK, Stages, Ids
<1>1. ASSUME NEW t \in Tasks, NEW job \in Jobs, Prefetch(t, job)
      PROVE  TypeOK'
  BY <1>1 DEF Prefetch
<1>2. ASSUME NEW t \in Tasks, CacheHit(t)
      PROVE  TypeOK'
  BY <1>2 DEF CacheHit, NextText
<1>3. ASSUME NEW t \in Tasks, CacheMiss(t)
      PROVE  TypeOK'
  BY <1>3 DEF CacheMiss
<1>4. ASSUME NEW t \in Tasks, EncodeOne(t)
      PROVE  TypeOK'
  BY <1>4, RungsAreCombos DEF EncodeOne
<1>5. ASSUME NEW t \in Tasks, NEW a \in Ids \cup {Failure}, AttemptAccepted(t, a)
      PROVE  TypeOK'
  <2>1. a \in Ids
    BY <1>5 DEF AttemptAccepted, EncodeField
  <2>2. dialect' \in Combos \cup {NoDialect}
    BY <1>5 DEF AttemptAccepted, Remembers
  <2>3. got' \in [Tasks -> Ids] /\ pc' \in [Tasks -> Stages]
    BY <1>5, <2>1 DEF AttemptAccepted
  <2>4. LeaveEncodeOne(t) /\ UNCHANGED <<endpoint, cache, texts, at>>
    BY <1>5 DEF AttemptAccepted
  <2>5. QED
    BY <2>2, <2>3, <2>4 DEF LeaveEncodeOne
<1>6. ASSUME NEW t \in Tasks, NEW a \in Ids \cup {Failure}, NextAttempt(t, a)
      PROVE  TypeOK'
  <2>1. NextRung(t) \in 1..4
    <3>1. rung[t] \in 0..4 /\ rung[t] # 4
      BY <1>6 DEF NextAttempt, LadderEnds
    <3>2. QED
      BY <3>1 DEF NextRung
  <2>2. Ladder[NextRung(t)] \in Combos
    BY <2>1, RungsAreCombos
  <2>3. FieldIgnored(t, a) \in BOOLEAN
    BY DEF FieldIgnored
  <2>4. QED
    BY <1>6, <2>1, <2>2, <2>3 DEF NextAttempt
<1>7. ASSUME NEW t \in Tasks, NEW a \in Ids \cup {Failure}, GiveUp(t, a)
      PROVE  TypeOK'
  BY <1>7 DEF GiveUp, LeaveEncodeOne
<1>8. ASSUME NEW t \in Tasks, Store(t)
      PROVE  TypeOK'
  <2>1. cache' \in [Texts -> Ids \cup {NotCached}]
    BY <1>8 DEF Store, Stored
  <2>2. pc' \in [Tasks -> Stages] /\ at' \in [Tasks -> Nat \ {0}]
    BY <1>8 DEF Store, NextText
  <2>3. got' \in [Tasks -> Ids]
    BY <1>8 DEF Store
  <2>4. QED
    BY <1>8, <2>1, <2>2, <2>3 DEF Store
<1>9. ASSUME NEW t \in Tasks, Encode(t)
      PROVE  TypeOK'
  BY <1>9 DEF Encode
<1>10. ASSUME NEW t \in Tasks, DropFuture(t)
      PROVE  TypeOK'
  BY <1>10 DEF DropFuture, LeaveEncodeOne
<1>11. CASE Redeploy
  BY <1>11 DEF Redeploy, task
<1>12. CASE UNCHANGED vars
  BY <1>12 DEF vars
<1>13. QED
  BY <1>1, <1>2, <1>3, <1>4, <1>5, <1>6, <1>7, <1>8, <1>9, <1>10, <1>11, <1>12
     DEF Next, TaskStep

\* Every variable of the tokenizer keeps its type.
THEOREM TypeCorrect == Spec => []TypeOK
<1>1. Init => TypeOK
  BY DEF Init, TypeOK, Stages, Ids
<1>2. TypeOK /\ [Next]_vars => TypeOK'
  BY TypeOKStep
<1>3. QED
  BY <1>1, <1>2, PTL DEF Spec

-----------------------------------------------------------------------------
(* The safety invariants. *)

\* No step removes an entry of the cache.
LEMMA CacheGrows ==
    ASSUME TypeOK, [Next]_vars, NEW x \in Texts, Cached(x)
    PROVE  Cached(x)'
<1>1. ASSUME NEW t \in Tasks, Store(t)
      PROVE  Cached(x)'
  BY <1>1, ValuesAssumption DEF Store, Stored, Cached, TypeOK, Ids
<1>2. CASE UNCHANGED cache
  BY <1>2 DEF Cached
<1>3. QED
  BY <1>1, <1>2
     DEF Next, TaskStep, Prefetch, CacheHit, CacheMiss, EncodeOne,
         AttemptAccepted, NextAttempt, GiveUp, Encode, DropFuture, Redeploy,
         vars

\* What a task has fetched stays fetched, and it moves on only past a text
\* that is in the cache.
LEMMA FetchedStep ==
    ASSUME TypeOK, FetchedSoFar, [Next]_vars
    PROVE  FetchedSoFar'
<1> SUFFICES ASSUME NEW u \in Tasks
             PROVE  FetchedBy(u)'
  BY DEF FetchedSoFar
<1>1. FetchedBy(u)
  BY DEF FetchedSoFar
<1>2. \A i \in 1..Len(texts[u]) : Cached(texts[u][i]) => cache'[texts[u][i]] # NotCached
  <2>1. SUFFICES ASSUME NEW i \in 1..Len(texts[u]), Cached(texts[u][i])
                 PROVE  cache'[texts[u][i]] # NotCached
    OBVIOUS
  <2>2. texts[u] # <<>>
    OBVIOUS
  <2>3. texts[u] \in Seq(Texts)
    BY <2>2, JobsAssumption DEF TypeOK
  <2>4. texts[u][i] \in Texts
    BY <2>3
  <2>5. QED
    BY <2>1, <2>4, CacheGrows DEF Cached
\* A step that leaves u where it is keeps what u has fetched.
<1>3. CASE /\ texts'[u] = texts[u]
           /\ at'[u] = at[u]
           /\ \/ pc'[u] = pc[u]
              \/ pc[u] \in Working /\ pc'[u] \in Working
              \/ pc'[u] \in {"idle", "served", "failed", "panicked"}
  BY <1>1, <1>2, <1>3 DEF FetchedBy, Cached, Working
<1>4. ASSUME NEW job \in Jobs, Prefetch(u, job)
      PROVE  FetchedBy(u)'
  <2>1. texts'[u] = job /\ at'[u] = 1 /\ pc'[u] = "lookup"
    BY <1>4 DEF Prefetch, TypeOK
  <2>2. Len(job) \in Nat /\ 1 <= Len(job)
    BY JobsAssumption
  <2>3. QED
    BY <2>1, <2>2 DEF FetchedBy, Working
\* u's text is stored, and u moves on.
<1>5. ASSUME NextText(u), UNCHANGED texts, pc[u] \in {"lookup", "store"},
             cache'[Text(u)] # NotCached
      PROVE  FetchedBy(u)'
  <2>1. at[u] <= Len(texts[u]) /\ at[u] \in Nat
    BY <1>1, <1>5 DEF FetchedBy, Working, TypeOK
  <2>2. Len(texts[u]) \in Nat
    BY JobsAssumption, <2>1 DEF TypeOK
  <2>3. \A i \in 1..Len(texts[u]) : i < at[u] + 1 => cache'[texts[u][i]] # NotCached
    BY <1>1, <1>2, <1>5, <2>1, <2>2 DEF FetchedBy, Working, Text
  <2>4. /\ texts'[u] = texts[u]
        /\ at'[u] = at[u] + 1
        /\ pc'[u] = IF at[u] = Len(texts[u]) THEN "prefetched" ELSE "lookup"
    BY <1>5 DEF NextText, TypeOK
  <2>5. QED
    BY <2>1, <2>2, <2>3, <2>4 DEF FetchedBy, Working, Cached
<1>6. CASE CacheHit(u)
  BY <1>5, <1>6 DEF CacheHit, Cached
<1>7. CASE Store(u)
  <2>1. at[u] <= Len(texts[u])
    BY <1>1, <1>7 DEF FetchedBy, Working, Store
  <2>2. cache'[Text(u)] = got[u]
    BY <1>7, <2>1, TextInTexts DEF Store, Stored, TypeOK
  <2>3. got[u] # NotCached
    BY ValuesAssumption DEF TypeOK, Ids
  <2>4. QED
    BY <1>5, <1>7, <2>2, <2>3 DEF Store
<1>8. CASE \/ CacheMiss(u) \/ EncodeOne(u) \/ Encode(u) \/ DropFuture(u)
           \/ \E a \in Ids \cup {Failure} :
                 AttemptAccepted(u, a) \/ NextAttempt(u, a) \/ GiveUp(u, a)
  BY <1>3, <1>8
     DEF CacheMiss, EncodeOne, Encode, DropFuture, AttemptAccepted,
         AttemptRejected, NextAttempt, GiveUp, Working, TypeOK
<1>9. CASE UNCHANGED <<pc, texts, at>>
  BY <1>3, <1>9
<1>10. ASSUME NEW t \in Tasks, t # u,
              (\E job \in Jobs : Prefetch(t, job)) \/ TaskStep(t) \/ DropFuture(t)
       PROVE  FetchedBy(u)'
  <2>1. texts'[u] = texts[u] /\ at'[u] = at[u] /\ pc'[u] = pc[u]
    BY <1>10
       DEF TaskStep, Prefetch, CacheHit, CacheMiss, EncodeOne, AttemptAccepted,
           NextAttempt, GiveUp, Store, Encode, DropFuture, NextText, TypeOK
  <2>2. QED
    BY <1>3, <2>1
<1>11. QED
  BY <1>4, <1>6, <1>7, <1>8, <1>9, <1>10
     DEF Next, TaskStep, Redeploy, task, vars

\* A task that has fetched finds every text.
LEMMA NoPanicStep ==
    ASSUME TypeOK, FetchedSoFar, NoPanic, [Next]_vars
    PROVE  NoPanic'
<1> SUFFICES ASSUME NEW u \in Tasks
             PROVE  pc'[u] # "panicked"
  BY DEF NoPanic
<1>1. pc[u] # "panicked"
  BY DEF NoPanic
<1>2. CASE Encode(u)
  BY <1>2 DEF Encode, FetchedSoFar, FetchedBy, TypeOK
<1>3. CASE pc'[u] = pc[u]
  BY <1>1, <1>3
<1>4. CASE pc'[u] \in Stages \ {"panicked"}
  BY <1>4
<1>5. ASSUME NEW t \in Tasks,
             (\E job \in Jobs : Prefetch(t, job)) \/ TaskStep(t) \/ DropFuture(t),
             ~Encode(u)
      PROVE  pc'[u] = pc[u] \/ pc'[u] \in Stages \ {"panicked"}
  BY <1>5
     DEF TaskStep, Prefetch, CacheHit, CacheMiss, EncodeOne, AttemptAccepted,
         NextAttempt, GiveUp, Store, Encode, DropFuture, NextText, TypeOK, Stages
<1>6. QED
  BY <1>2, <1>3, <1>4, <1>5 DEF Next, Redeploy, task, vars

\* What is carried to the cache, and what the cache holds, is usable.
LEMMA UsableStep ==
    ASSUME TypeOK, FetchedSoFar, CarriesUsable, UsableEncodings, [Next]_vars
    PROVE  CarriesUsable' /\ UsableEncodings'
<1>1. UsableEncodings'
  <2>1. ASSUME NEW t \in Tasks, Store(t)
        PROVE  UsableEncodings'
    BY <2>1, TextInTexts
       DEF Store, Stored, UsableEncodings, CarriesUsable, TypeOK
  <2>2. CASE UNCHANGED cache
    BY <2>2 DEF UsableEncodings
  <2>3. QED
    BY <2>1, <2>2
       DEF Next, TaskStep, Prefetch, CacheHit, CacheMiss, EncodeOne,
           AttemptAccepted, NextAttempt, GiveUp, Encode, DropFuture, Redeploy, vars
<1>2. ASSUME NEW u \in Tasks, pc'[u] = "store", got'[u] = NoTokens
      PROVE  Text(u)' = Empty
  <2>1. ASSUME NEW a \in Ids \cup {Failure}, AttemptAccepted(u, a)
        PROVE  Text(u)' = Empty
    BY <1>2, <2>1 DEF AttemptAccepted, EncodeField, Text, TypeOK
  <2>2. CASE UNCHANGED <<pc, texts, at, got>>
    BY <1>2, <2>2 DEF CarriesUsable, Text
  <2>3. ASSUME NEW t \in Tasks,
               (\E job \in Jobs : Prefetch(t, job)) \/ TaskStep(t) \/ DropFuture(t),
               \A a \in Ids \cup {Failure} : ~AttemptAccepted(u, a)
        PROVE  /\ pc[u] = "store"
               /\ got'[u] = got[u] /\ at'[u] = at[u] /\ texts'[u] = texts[u]
    BY <1>2, <2>3
       DEF TaskStep, Prefetch, CacheHit, CacheMiss, EncodeOne, AttemptAccepted,
           NextAttempt, GiveUp, Store, Encode, DropFuture, NextText, TypeOK,
           AttemptRejected
  <2>4. CASE /\ pc[u] = "store"
             /\ got'[u] = got[u] /\ at'[u] = at[u] /\ texts'[u] = texts[u]
    BY <1>2, <2>4 DEF CarriesUsable, Text
  <2>5. QED
    BY <2>1, <2>2, <2>3, <2>4 DEF Next, Redeploy, task, vars
<1>3. QED
  BY <1>1, <1>2 DEF CarriesUsable

\* A combination is remembered after it tokenized.
LEMMA MemoStep ==
    ASSUME TypeOK, MemoSpeaks, [Next]_vars
    PROVE  MemoSpeaks'
<1> SUFFICES ASSUME Stable'
             PROVE  dialect' # NoDialect => Treats(endpoint, dialect)' = "tokenizes"
  BY DEF MemoSpeaks
<1>0. ~Redeploy
  BY DEF Stable, Redeploy, TypeOK
<1>1. UNCHANGED endpoint
  BY <1>0 DEF Next, TaskStep, Prefetch, CacheHit, CacheMiss, EncodeOne,
         AttemptAccepted, NextAttempt, GiveUp, Store, Encode, DropFuture,
         Redeploy, vars
<1>2. ASSUME NEW t \in Tasks, NEW a \in Ids \cup {Failure}, AttemptAccepted(t, a),
             a # NoTokens
      PROVE  Treats(endpoint, combo[t]) = "tokenizes"
  BY <1>2, ValuesAssumption DEF AttemptAccepted, Answers, EncodeField, Ids
<1>3. dialect' = dialect \/ Treats(endpoint, dialect') = "tokenizes"
  <2>1. ASSUME NEW t \in Tasks, NEW a \in Ids \cup {Failure}, AttemptAccepted(t, a)
        PROVE  dialect' = dialect \/ Treats(endpoint, dialect') = "tokenizes"
    BY <1>2, <2>1 DEF AttemptAccepted, Remembers
  <2>2. QED
    BY <2>1
       DEF Next, TaskStep, Prefetch, CacheHit, CacheMiss, EncodeOne,
           NextAttempt, GiveUp, Store, Encode, DropFuture, Redeploy, vars
<1>4. QED
  BY <1>1, <1>3 DEF MemoSpeaks, Treats, Stable

\* On a reliable endpoint a rejected attempt says that its rung does not
\* tokenize, and a rung that ignores the field is rejected by an empty list.
LEMMA RejectionTells ==
    ASSUME TypeOK, ~endpoint.flaky, NEW t \in Tasks, NEW a \in Ids \cup {Failure},
           AttemptRejected(t, a), NEW i \in 1..4, combo[t] = Ladder[i]
    PROVE  ~Speaks(i) /\ (Ignores(i) => a = NoTokens)
<1>1. endpoint.vocab \in Vocabs
  BY DeploymentsAssumption DEF TypeOK
<1>2. endpoint.vocab # Failure /\ NoTokens # Failure /\ endpoint.vocab # NoTokens
  BY <1>1, ValuesAssumption
<1>3. /\ a \in Answers(Ladder[i], Text(t))
      /\ ~(a # Failure /\ (a = NoTokens => Text(t) = Empty))
  BY DEF AttemptRejected, EncodeField
<1>4. Speaks(i) => a = IF Text(t) = Empty THEN NoTokens ELSE endpoint.vocab
  BY <1>3 DEF Answers, Speaks
<1>5. Ignores(i) => a = NoTokens
  BY <1>3 DEF Answers, Ignores
<1>6. QED
  BY <1>2, <1>3, <1>4, <1>5

\* A step of a task leaves the endpoint, and the climb of every other task.
LEMMA OthersClimbOn ==
    ASSUME TypeOK, NEW t \in Tasks, NEW u \in Tasks, t # u,
           (\E job \in Jobs : Prefetch(t, job)) \/ TaskStep(t) \/ DropFuture(t)
    PROVE  /\ pc'[u] = pc[u] /\ rung'[u] = rung[u] /\ combo'[u] = combo[u]
           /\ ignored'[u] = ignored[u] /\ steady'[u] = steady[u]
  BY DEF TaskStep, Prefetch, CacheHit, CacheMiss, EncodeOne, AttemptAccepted,
         NextAttempt, GiveUp, Store, Encode, DropFuture, NextText,
         LeaveEncodeOne, TypeOK

\* No step of a task replaces the endpoint.
LEMMA EndpointStays ==
    ASSUME [Next]_vars, ~Redeploy
    PROVE  UNCHANGED endpoint
  BY DEF Next, TaskStep, Prefetch, CacheHit, CacheMiss, EncodeOne,
         AttemptAccepted, NextAttempt, GiveUp, Store, Encode, DropFuture, vars

\* A task that climbs remembers what it learnt.
LEMMA LadderStep ==
    ASSUME TypeOK, LadderClimbed, [Next]_vars
    PROVE  LadderClimbed'
<1> SUFFICES ASSUME NEW u \in Tasks
             PROVE  ClimbedBy(u)'
  BY DEF LadderClimbed
<1>1. CASE Redeploy
  BY <1>1 DEF Redeploy, ClimbedBy
<1>2. CASE ~Redeploy
  <2>1. UNCHANGED endpoint
    BY <1>2, EndpointStays
  <2>2. \A i \in 1..4 : (Speaks(i)' <=> Speaks(i)) /\ (Ignores(i)' <=> Ignores(i))
    BY <2>1 DEF Speaks, Ignores, Treats
  <2>3. ClimbedBy(u)
    BY DEF LadderClimbed
  <2>4. CASE /\ pc'[u] = pc[u] /\ rung'[u] = rung[u] /\ combo'[u] = combo[u]
             /\ ignored'[u] = ignored[u] /\ steady'[u] = steady[u]
    BY <2>1, <2>2, <2>3, <2>4 DEF ClimbedBy
  <2>5. CASE EncodeOne(u)
    <3>1. rung'[u] > 0 => rung'[u] = 1 /\ combo'[u] = Ladder[1]
      BY <2>5 DEF EncodeOne, TypeOK
    <3>2. QED
      BY <3>1 DEF ClimbedBy
  <2>6. ASSUME NEW a \in Ids \cup {Failure}, NextAttempt(u, a),
               steady'[u], ~endpoint'.flaky
        PROVE  ClimbedBy(u)'
    <3>1. /\ pc[u] = "posting" /\ steady[u] /\ ~endpoint.flaky
          /\ rung[u] \in 0..3 /\ rung'[u] = rung[u] + 1
          /\ combo'[u] = Ladder[rung'[u]]
      BY <2>1, <2>6 DEF NextAttempt, AttemptRejected, NextRung, LadderEnds, TypeOK
    <3>2. /\ ignored[u] => ignored'[u]
          /\ rung[u] \in 1..2 /\ a = NoTokens => ignored'[u]
      BY <2>6 DEF NextAttempt, FieldIgnored, TypeOK
    <3>3. rung[u] > 0 => ~Speaks(rung[u]) /\ (Ignores(rung[u]) => a = NoTokens)
      BY <2>3, <2>6, <3>1, RejectionTells DEF ClimbedBy, NextAttempt
    <3>4. \A i \in 1..4 : i < rung'[u] => ~Speaks(i)
      BY <2>3, <3>1, <3>3 DEF ClimbedBy
    <3>5. \A i \in 1..2 : i < rung'[u] /\ Ignores(i) => ignored'[u]
      <4>1. SUFFICES ASSUME NEW i \in 1..2, i < rung'[u], Ignores(i)
                     PROVE  ignored'[u]
        OBVIOUS
      <4>2. CASE i < rung[u]
        BY <2>3, <3>1, <3>2, <4>1, <4>2 DEF ClimbedBy
      <4>3. CASE i = rung[u]
        BY <3>2, <3>3, <4>1, <4>3
      <4>4. QED
        BY <3>1, <4>1, <4>2, <4>3
    <3>6. QED
      BY <2>2, <3>1, <3>4, <3>5 DEF ClimbedBy
  <2>7. CASE \/ \E job \in Jobs : Prefetch(u, job)
             \/ CacheHit(u) \/ CacheMiss(u) \/ Store(u) \/ Encode(u) \/ DropFuture(u)
             \/ \E a \in Ids \cup {Failure} : AttemptAccepted(u, a) \/ GiveUp(u, a)
    <3>1. pc'[u] \in Stages \ {"posting"}
      BY <2>7
         DEF Prefetch, CacheHit, CacheMiss, Store, Encode, DropFuture,
             AttemptAccepted, GiveUp, NextText, TypeOK, Stages
    <3>2. QED
      BY <3>1 DEF ClimbedBy
  <2>8. ASSUME NEW t \in Tasks,
               (\E job \in Jobs : Prefetch(t, job)) \/ TaskStep(t) \/ DropFuture(t)
        PROVE  ClimbedBy(u)'
    <3>1. CASE t # u
      BY <2>4, <2>8, <3>1, OthersClimbOn
    <3>2. CASE t = u
      <4>1. CASE ~(steady'[u] /\ ~endpoint'.flaky)
        BY <4>1 DEF ClimbedBy
      <4>2. CASE steady'[u] /\ ~endpoint'.flaky
        BY <2>5, <2>6, <2>7, <2>8, <3>2, <4>2 DEF TaskStep
      <4>3. QED
        BY <4>1, <4>2
    <3>3. QED
      BY <3>1, <3>2
  <2>9. CASE UNCHANGED vars
    BY <2>4, <2>9 DEF vars
  <2>10. QED
    BY <1>2, <2>8, <2>9 DEF Next
<1>3. QED
  BY <1>1, <1>2

\* The strengthened invariant holds initially and is kept by every step.
THEOREM Inductive == Spec => []IInv
<1>1. Init => IInv
  BY ValuesAssumption
     DEF Init, IInv, TypeOK, Stages, Ids, FetchedSoFar, FetchedBy, Working,
         CarriesUsable, LadderClimbed, ClimbedBy, NoPanic, UsableEncodings,
         MemoSpeaks
<1>2. IInv /\ [Next]_vars => IInv'
  BY TypeOKStep, FetchedStep, NoPanicStep, UsableStep, MemoStep, LadderStep
     DEF IInv
<1>3. QED
  BY <1>1, <1>2, PTL DEF Spec

\* The documented panic of the synchronous `encode` is never reached.
THEOREM NeverPanics == Spec => []NoPanic
<1>1. IInv => NoPanic
  BY DEF IInv
<1>2. QED
  BY <1>1, Inductive, PTL

\* The cache never holds the empty tokenization of a non-empty text.
THEOREM CacheUsable == Spec => []UsableEncodings
<1>1. IInv => UsableEncodings
  BY DEF IInv
<1>2. QED
  BY <1>1, Inductive, PTL

\* The remembered combination is one a stable endpoint tokenizes.
THEOREM MemoIsRight == Spec => []MemoSpeaks
<1>1. IInv => MemoSpeaks
  BY DEF IInv
<1>2. QED
  BY <1>1, Inductive, PTL

\* The two URLs of the ladder are the two routes an endpoint may have, however
\* BaseUrl is written.
LEMMA UrlsAreTheRoutes ==
    Routes = {TokenizeUrls(BaseUrl)[1], TokenizeUrls(BaseUrl)[2]}
<1> DEFINE n == Len(BaseUrl)
           front == SubSeq(BaseUrl, 1, n - 1)
           Segments == STRING \cup {"v1", "tokenize"}
<1>1. BaseUrl \in Seq(Segments) /\ n \in Nat
  <2>1. STRING \subseteq Segments
    OBVIOUS
  <2>2. QED
    BY <2>1, BaseUrlAssumption, SeqMonotonic
<1> HIDE DEF Segments
<1>2. CASE n > 0 /\ BaseUrl[n] = "v1"
  <2>1. Host = front /\ front \in Seq(Segments) /\ Len(front) = n - 1
    <3>1. Host = front
      BY <1>2 DEF Host
    <3>2. n - 1 \in Int /\ (1 <= n - 1 => n - 1 - 1 + 1 = n - 1) /\ (~(1 <= n - 1) => n - 1 = 0)
      BY <1>1, <1>2
    <3>3. \A i \in 1..(n - 1) : BaseUrl[i] \in Segments
      <4>1. ASSUME NEW i \in 1..(n - 1)
            PROVE  BaseUrl[i] \in Segments
        <5>1. i \in 1..Len(BaseUrl)
          BY <1>1
        <5>2. QED
          BY <1>1, <5>1, ElementOfSeq
      <4>2. QED
        BY <4>1
    <3>4. front \in Seq(Segments) /\ Len(front) = IF 1 <= n - 1 THEN n - 1 - 1 + 1 ELSE 0
      BY <3>2, <3>3, SubSeqProperties
    <3>5. QED
      BY <3>1, <3>2, <3>4
  <2>2. front \o <<"v1", "tokenize">> = Append(BaseUrl, "tokenize")
    <3>1. \A i \in 1..(n - 1) : front[i] = BaseUrl[i]
      BY <1>1
    <3>2. DEFINE left == front \o <<"v1", "tokenize">>
                 right == Append(BaseUrl, "tokenize")
    <3>3. left \in Seq(Segments) /\ right \in Seq(Segments)
      <4>1. <<"v1", "tokenize">> \in Seq(Segments)
        BY DEF Segments
      <4>2. left \in Seq(Segments)
        BY <2>1, <4>1, ConcatProperties
      <4>3. right \in Seq(Segments)
        BY <1>1, AppendProperties DEF Segments
      <4>4. QED
        BY <4>2, <4>3
    <3>4. Len(left) = n + 1 /\ Len(right) = n + 1
      BY <1>1, <1>2, <2>1
    <3>5. \A i \in 1..(n + 1) : left[i] = right[i]
      BY <1>1, <1>2, <2>1, <3>1
    <3>6. QED
      BY <3>3, <3>4, <3>5, SeqEqual
  <2>3. front \o <<"tokenize">> = Append(front, "tokenize")
    BY <2>1
  <2>4. TokenizeUrls(BaseUrl)[1] = Append(BaseUrl, "tokenize")
        /\ TokenizeUrls(BaseUrl)[2] = Append(front, "tokenize")
    BY <1>2 DEF TokenizeUrls
  <2>5. QED
    BY <2>1, <2>2, <2>3, <2>4 DEF Routes
<1>3. CASE ~(n > 0 /\ BaseUrl[n] = "v1")
  <2>1. Host = BaseUrl
    BY <1>3 DEF Host
  <2>2. BaseUrl \o <<"tokenize">> = Append(BaseUrl, "tokenize")
    BY <1>1
  <2>3. TokenizeUrls(BaseUrl)[1] = Append(BaseUrl, "tokenize")
        /\ TokenizeUrls(BaseUrl)[2] = BaseUrl \o <<"v1", "tokenize">>
    BY <1>3 DEF TokenizeUrls
  <2>4. QED
    BY <2>1, <2>2, <2>3 DEF Routes
<1>4. QED
  BY <1>2, <1>3

\* The four rungs are the two fields on the two routes.
LEMMA RungsAreRoutes ==
    /\ Some("prompt", "tokenizes") <=> Speaks(1) \/ Speaks(2)
    /\ Some("prompt", "ignores") <=> Ignores(1) \/ Ignores(2)
    /\ Some("content", "tokenizes") <=> Speaks(3) \/ Speaks(4)
<1>1. /\ Ladder[1] = Combo(TokenizeUrls(BaseUrl)[1], "prompt")
      /\ Ladder[2] = Combo(TokenizeUrls(BaseUrl)[2], "prompt")
      /\ Ladder[3] = Combo(TokenizeUrls(BaseUrl)[1], "content")
      /\ Ladder[4] = Combo(TokenizeUrls(BaseUrl)[2], "content")
  BY DEF Ladder
<1>2. QED
  BY <1>1, UrlsAreTheRoutes DEF Some, Speaks, Ignores

\* A task fails only by giving up.
LEMMA OnlyGivingUpFails ==
    ASSUME TypeOK, [Next]_vars, NEW u \in Tasks, pc[u] # "failed", pc'[u] = "failed"
    PROVE  \E a \in Ids \cup {Failure} : GiveUp(u, a)
<1>1. ~(Redeploy \/ UNCHANGED vars)
  BY DEF Redeploy, task, vars
<1>2. PICK t \in Tasks :
        (\E job \in Jobs : Prefetch(t, job)) \/ TaskStep(t) \/ DropFuture(t)
  BY <1>1 DEF Next
<1>3. t = u
  BY <1>2, OthersClimbOn
<1>4. ASSUME \/ \E job \in Jobs : Prefetch(u, job)
             \/ CacheHit(u) \/ CacheMiss(u) \/ EncodeOne(u) \/ Store(u)
             \/ Encode(u) \/ DropFuture(u)
             \/ \E a \in Ids \cup {Failure} : AttemptAccepted(u, a) \/ NextAttempt(u, a)
      PROVE  FALSE
  BY <1>4
     DEF Prefetch, CacheHit, CacheMiss, EncodeOne, Store, Encode, DropFuture,
         AttemptAccepted, NextAttempt, NextText, TypeOK
<1>5. QED
  BY <1>2, <1>3, <1>4 DEF TaskStep

\* encode_one fails at an endpoint that stayed and never failed while it ran
\* only when no combination the code is to try there tokenizes, however stale
\* the memo was.
THEOREM DialectFound == Spec => SpokenDialectIsFound
<1>1. IInv /\ [Next]_vars => [\A t \in Tasks : FailsRightly(t)]_vars
  <2>1. SUFFICES ASSUME TypeOK, LadderClimbed, [Next]_vars, NEW u \in Tasks,
                        pc[u] # "failed", pc'[u] = "failed", steady[u],
                        ~endpoint.flaky
                 PROVE  /\ ~Speaks(1) /\ ~Speaks(2)
                        /\ Ignores(1) \/ Ignores(2) => ~Speaks(3) /\ ~Speaks(4)
    BY RungsAreRoutes DEF IInv, FailsRightly
  <2>2. PICK a \in Ids \cup {Failure} : GiveUp(u, a)
    BY <2>1, OnlyGivingUpFails
  <2>3. /\ pc[u] = "posting" /\ AttemptRejected(u, a)
        /\ rung[u] = 4 \/ (rung[u] = 2 /\ ~FieldIgnored(u, a))
    BY <2>2 DEF GiveUp, AttemptRejected, LadderEnds
  <2>4. /\ combo[u] = Ladder[rung[u]]
        /\ \A i \in 1..4 : i < rung[u] => ~Speaks(i)
        /\ \A i \in 1..2 : i < rung[u] /\ Ignores(i) => ignored[u]
    BY <2>1, <2>3 DEF LadderClimbed, ClimbedBy
  <2>5. ~Speaks(rung[u]) /\ (Ignores(rung[u]) => a = NoTokens)
    BY <2>1, <2>3, <2>4, RejectionTells
  <2>6. CASE rung[u] = 4
    BY <2>4, <2>5, <2>6
  <2>7. CASE rung[u] = 2 /\ ~FieldIgnored(u, a)
    <3>1. ~ignored[u] /\ a # NoTokens
      BY <2>7 DEF FieldIgnored
    <3>2. QED
      BY <2>4, <2>5, <2>7, <3>1
  <2>8. QED
    BY <2>3, <2>6, <2>7
<1>2. QED
  BY <1>1, Inductive, PTL DEF Spec, SpokenDialectIsFound

-----------------------------------------------------------------------------
(* The refinement. *)

\* A task's abstract request and status change only when its list and its
\* stage do.
LEMMA UnmovedStatus ==
    ASSUME TypeOK, NEW t \in Tasks, UNCHANGED texts,
           \A u \in Tasks : u # t => pc'[u] = pc[u],
           Status(t)' = Status(t)
    PROVE  /\ UNCHANGED [u \in Tasks |-> Asked(u)]
           /\ UNCHANGED [u \in Tasks |-> Status(u)]
<1>1. \A u \in Tasks : Asked(u)' = Asked(u)
  BY DEF Asked
<1>2. \A u \in Tasks : Status(u)' = Status(u)
  BY DEF Status
<1>3. QED
  BY <1>1, <1>2

\* A task that ends its call changes its own status only.
LEMMA MovedStatus ==
    ASSUME TypeOK, NEW t \in Tasks, UNCHANGED texts,
           \A u \in Tasks : u # t => pc'[u] = pc[u], NEW s, Status(t)' = s
    PROVE  /\ UNCHANGED [u \in Tasks |-> Asked(u)]
           /\ [u \in Tasks |-> Status(u)]' =
                [[u \in Tasks |-> Status(u)] EXCEPT ![t] = s]
<1>1. \A u \in Tasks : Asked(u)' = Asked(u)
  BY DEF Asked
<1>2. \A u \in Tasks : u # t => Status(u)' = Status(u)
  BY DEF Status
<1>3. QED
  BY <1>1, <1>2

\* Every step of the tokenizer is a step of TokenService or changes nothing
\* it speaks of.
LEMMA StepRefines ==
    ASSUME IInv, [Next]_vars
    PROVE  [Service!Next]_(Service!vars)
<1> DEFINE asked == [u \in Tasks |-> Asked(u)]
           status == [u \in Tasks |-> Status(u)]
<1>0. TypeOK /\ FetchedSoFar /\ CarriesUsable /\ NoPanic
  BY DEF IInv
<1>1. ASSUME NEW t \in Tasks, NEW job \in Jobs, Prefetch(t, job)
      PROVE  Service!Next
  <2>1. Status(t) # "pending"
    BY <1>1 DEF Prefetch, Status
  <2>2. Status(t)' = "pending" /\ Asked(t)' = {job[i] : i \in 1..Len(job)}
    BY <1>0, <1>1 DEF Prefetch, Status, Asked, TypeOK
  <2>3. \A u \in Tasks : u # t => Status(u)' = Status(u) /\ Asked(u)' = Asked(u)
    BY <1>0, <1>1 DEF Prefetch, Status, Asked, TypeOK
  <2>4. {job[i] : i \in 1..Len(job)} \in SUBSET Texts
    BY JobsAssumption
  <2>5. /\ asked' = [asked EXCEPT ![t] = {job[i] : i \in 1..Len(job)}]
        /\ status' = [status EXCEPT ![t] = "pending"]
    BY <2>2, <2>3
  <2>6. UNCHANGED cache
    BY <1>1 DEF Prefetch
  <2>7. Service!Ask(t, {job[i] : i \in 1..Len(job)})
    BY <2>1, <2>5, <2>6 DEF Service!Ask
  <2>8. QED
    BY <2>4, <2>7 DEF Service!Next
<1>2. ASSUME NEW t \in Tasks, Store(t)
      PROVE  Service!Next
  <2>1. at[t] <= Len(texts[t])
    BY <1>0, <1>2 DEF FetchedSoFar, FetchedBy, Working, Store
  <2>2. Text(t) \in Asked(t) /\ Text(t) \in Texts
    BY <1>0, <2>1, TextInTexts DEF Asked, Text
  <2>3. got[t] \in Ids /\ Service!Acceptable(Text(t), got[t])
    BY <1>0, <1>2 DEF TypeOK, CarriesUsable, Store, Service!Acceptable
  <2>4. Status(t) = "pending" /\ Status(t)' = Status(t)
    BY <1>0, <1>2 DEF Store, NextText, Status, TypeOK
  <2>5. UNCHANGED asked /\ UNCHANGED status
    BY <1>0, <1>2, <2>4, UnmovedStatus DEF Store, NextText, TypeOK
  <2>6. cache' = [cache EXCEPT ![Text(t)] = got[t]]
    BY <1>2 DEF Store, Stored
  <2>7. Service!Fill(t, Text(t), got[t])
    BY <2>2, <2>3, <2>4, <2>5, <2>6 DEF Service!Fill
  <2>8. QED
    BY <2>2, <2>3, <2>7 DEF Service!Next
<1>3. ASSUME NEW t \in Tasks, Encode(t)
      PROVE  Service!Next
  <2>1. \A x \in Asked(t) : Cached(x)
    BY <1>0, <1>3 DEF FetchedSoFar, FetchedBy, Encode, Asked
  <2>2. pc'[t] = "served" /\ pc[t] = "prefetched"
    BY <1>0, <1>3, <2>1 DEF Encode, Asked, TypeOK
  <2>3. Status(t) = "pending" /\ Status(t)' = "served"
    BY <2>2 DEF Status
  <2>4. UNCHANGED asked /\ status' = [status EXCEPT ![t] = "served"]
    BY <1>0, <1>3, <2>3, MovedStatus DEF Encode, TypeOK
  <2>5. Service!Serve(t)
    BY <1>3, <2>1, <2>3, <2>4 DEF Service!Serve, Service!Stored, Cached, Encode
  <2>6. QED
    BY <2>5 DEF Service!Next
<1>4. ASSUME NEW t \in Tasks, NEW a \in Ids \cup {Failure}, GiveUp(t, a)
      PROVE  Service!Next
  <2>1. Status(t) = "pending" /\ Status(t)' = "failed"
    BY <1>0, <1>4 DEF GiveUp, AttemptRejected, Status, TypeOK
  <2>2. UNCHANGED asked /\ status' = [status EXCEPT ![t] = "failed"]
    BY <1>0, <1>4, <2>1, MovedStatus DEF GiveUp, TypeOK
  <2>3. Service!Refuse(t)
    BY <1>4, <2>1, <2>2 DEF Service!Refuse, GiveUp
  <2>4. QED
    BY <2>3 DEF Service!Next
<1>5. ASSUME NEW t \in Tasks, DropFuture(t)
      PROVE  Service!Next
  <2>1. Status(t) = "pending" /\ Status(t)' = "none"
    BY <1>0, <1>5 DEF DropFuture, Status, TypeOK
  <2>2. UNCHANGED asked /\ status' = [status EXCEPT ![t] = "none"]
    BY <1>0, <1>5, <2>1, MovedStatus DEF DropFuture, TypeOK
  <2>3. Service!Abandon(t)
    BY <1>5, <2>1, <2>2 DEF Service!Abandon, DropFuture
  <2>4. QED
    BY <2>3 DEF Service!Next
<1>6. ASSUME NEW t \in Tasks,
             \/ CacheHit(t) \/ CacheMiss(t) \/ EncodeOne(t)
             \/ \E a \in Ids \cup {Failure} : AttemptAccepted(t, a) \/ NextAttempt(t, a)
      PROVE  UNCHANGED Service!vars
  <2>1. Status(t)' = Status(t) /\ UNCHANGED <<cache, texts>>
    BY <1>0, <1>6
       DEF CacheHit, CacheMiss, EncodeOne, AttemptAccepted, NextAttempt,
           AttemptRejected, NextText, Status, TypeOK
  <2>2. \A u \in Tasks : u # t => pc'[u] = pc[u]
    BY <1>0, <1>6
       DEF CacheHit, CacheMiss, EncodeOne, AttemptAccepted, NextAttempt,
           NextText, TypeOK
  <2>3. QED
    BY <1>0, <2>1, <2>2, UnmovedStatus DEF Service!vars
<1>7. CASE UNCHANGED <<cache, pc, texts>>
  BY <1>7 DEF Service!vars, Asked, Status
<1>8. QED
  BY <1>1, <1>2, <1>3, <1>4, <1>5, <1>6, <1>7
     DEF Next, TaskStep, Redeploy, task, vars

\* HttpTokenizer implements TokenService.
THEOREM Implements == Spec => ImplementsTokenService
<1>1. Init => Service!Init
  BY DEF Init, Service!Init, Asked, Status
<1>2. IInv /\ [Next]_vars => [Service!Next]_(Service!vars)
  BY StepRefines
<1>3. QED
  BY <1>1, <1>2, Inductive, PTL DEF Spec, ImplementsTokenService, Service!Spec
=============================================================================
