---------------------------- MODULE HttpTokenizer ----------------------------
(***************************************************************************)
(* jev_backend::HttpTokenizer: the tokenization client of one jev-server   *)
(* process.  Tasks (the startup check, one task per HTTP request) share    *)
(* two mutexes: `cache` (text -> token ids, never evicted) and `dialect`   *)
(* (the (url, field) combination that last tokenized something).  A task   *)
(* calls `prefetch` on a list of texts; each text is looked up, and on a   *)
(* miss POSTed along a ladder of (url, field) combinations.  Every POST is *)
(* an await, so other tasks, a redeployment of the endpoint and the drop   *)
(* of the caller's future may come between any two steps.                  *)
(***************************************************************************)
EXTENDS Naturals, Sequences

CONSTANTS
    Tasks,
    Texts,        \* texts a task may ask for; Empty may be one of them
    Empty,        \* the text "", the only one that tokenizes to nothing
    Jobs,         \* the text lists prefetch is called with
    Vocabs,       \* the vocabularies a deployment may serve
    NotCached,    \* a text without a cache entry
    NoTokens,     \* the token list []
    BaseUrl,      \* JEV_BASE_URL as a sequence of path segments
    Deployments,  \* what may answer behind BaseUrl, see Behaviours
    Redeploys     \* <<d, e>>: d may be replaced by e while we run

\* How a deployment treats a POST of one field to one URL: it tokenizes the
\* text, it does not know the field and answers 200 with `tokens: []`
\* (llama.cpp), or it fails (404, 400, no `tokens` array, non-integer ids).
Behaviours == {"tokenizes", "ignores", "errors"}

Fields == {"prompt", "content"}

\* What a POST that yields no token list is answered with.
Failure == "failure"

ASSUME ValuesAssumption ==
    /\ NotCached \notin Vocabs \cup {NoTokens}
    /\ NoTokens \notin Vocabs
    /\ Failure \notin Vocabs \cup {NoTokens}

ASSUME JobsAssumption ==
    \A j \in Jobs : j \in Seq(Texts) /\ Len(j) > 0

ASSUME BaseUrlAssumption == BaseUrl \in Seq(STRING)

ASSUME DeploymentsAssumption ==
    \A d \in Deployments :
        /\ d.vocab \in Vocabs
        /\ \A c \in DOMAIN d.speaks : d.speaks[c] \in Behaviours
        /\ d.flaky \in BOOLEAN   \* any POST may fail (connect or 30 s timeout, 5xx)

ASSUME RedeploysAssumption == Redeploys \subseteq Deployments \X Deployments

VARIABLES
    endpoint,  \* the deployment that answers now
    cache,     \* HttpTokenizer.cache
    dialect,   \* HttpTokenizer.dialect
    pc,        \* where task t is
    texts,     \* the list t's prefetch was called with
    at,        \* the text of that list t is working on
    rung,      \* the attempt of encode_one in flight: 0 is the remembered
               \* combination, 1..4 index Ladder
    combo,     \* the combination that attempt was posted to
    ignored,   \* encode_one's field_ignored
    got,       \* what encode_one returned, not yet inserted
    steady     \* a history variable: the endpoint has not been replaced since
               \* the encode_one in flight began

vars == <<endpoint, cache, dialect, pc, texts, at, rung, combo, ignored, got, steady>>
task == <<pc, texts, at, rung, combo, ignored, got>>

-----------------------------------------------------------------------------
(* The ladder. *)

\* Mutant: append "v1" whatever the base already ends in.
TokenizeUrlsAppendsBlindly(base) ==
    << Append(base, "tokenize"), base \o <<"v1", "tokenize">> >>

\* (primary, fallback): the two spellings, never a doubled /v1 segment.
TokenizeUrls(base) ==
    LET n == Len(base) IN
    << Append(base, "tokenize"),
       IF n > 0 /\ base[n] = "v1"
         THEN Append(SubSeq(base, 1, n - 1), "tokenize")
         ELSE base \o <<"v1", "tokenize">> >>

Combo(url, field) == [url |-> url, field |-> field]

\* Phase 1 is rungs 1 and 2 (the reference field), phase 2 rungs 3 and 4.
Ladder ==
    LET urls == TokenizeUrls(BaseUrl) IN
    << Combo(urls[1], "prompt"),  Combo(urls[2], "prompt"),
       Combo(urls[1], "content"), Combo(urls[2], "content") >>

Combos == {Ladder[i] : i \in 1..4}
NoDialect == Combo(<<>>, "none")

Ids == Vocabs \cup {NoTokens}

\* What the deployment does with a combination; an URL it has no route for
\* is a 404.
Treats(d, c) == IF c \in DOMAIN d.speaks THEN d.speaks[c] ELSE "errors"

\* The answers a POST of text x may get.
Answers(c, x) ==
    LET how == Treats(endpoint, c) IN
    { a \in Ids \cup {Failure} :
        \/ how = "tokenizes" /\ a = (IF x = Empty THEN NoTokens ELSE endpoint.vocab)
        \/ how = "ignores" /\ a = NoTokens
        \/ (how = "errors" \/ endpoint.flaky) /\ a = Failure }

-----------------------------------------------------------------------------
Init ==
    /\ endpoint \in Deployments
    /\ cache = [x \in Texts |-> NotCached]
    /\ dialect = NoDialect
    /\ pc = [t \in Tasks |-> "idle"]
    /\ texts = [t \in Tasks |-> <<>>]
    /\ at = [t \in Tasks |-> 1]
    /\ rung = [t \in Tasks |-> 0]
    /\ combo = [t \in Tasks |-> NoDialect]
    /\ ignored = [t \in Tasks |-> FALSE]
    /\ got = [t \in Tasks |-> NoTokens]
    /\ steady = [t \in Tasks |-> FALSE]

Text(t) == texts[t][at[t]]
Cached(x) == cache[x] # NotCached

\* encode_one returns: its locals go away.
LeaveEncodeOne(t) ==
    /\ rung' = [rung EXCEPT ![t] = 0]
    /\ combo' = [combo EXCEPT ![t] = NoDialect]
    /\ ignored' = [ignored EXCEPT ![t] = FALSE]
    /\ steady' = [steady EXCEPT ![t] = FALSE]

\* A caller starts `prefetch(job)`.
Prefetch(t, job) ==
    /\ pc[t] \in {"idle", "served", "failed"}
    /\ pc' = [pc EXCEPT ![t] = "lookup"]
    /\ texts' = [texts EXCEPT ![t] = job]
    /\ at' = [at EXCEPT ![t] = 1]
    /\ UNCHANGED <<endpoint, cache, dialect, rung, combo, ignored, got, steady>>

\* try_encode returned Ok: the loop of prefetch moves on or ends.
NextText(t) ==
    /\ at' = [at EXCEPT ![t] = @ + 1]
    /\ pc' = [pc EXCEPT ![t] = IF at[t] = Len(texts[t]) THEN "prefetched" ELSE "lookup"]

\* try_encode: the text is in the cache.
CacheHit(t) ==
    /\ pc[t] = "lookup"
    /\ Cached(Text(t))
    /\ NextText(t)
    /\ UNCHANGED <<endpoint, cache, dialect, texts, rung, combo, ignored, got, steady>>

\* try_encode: it is not; the lock is released before encode_one runs.
CacheMiss(t) ==
    /\ pc[t] = "lookup"
    /\ ~Cached(Text(t))
    /\ pc' = [pc EXCEPT ![t] = "encode"]
    /\ UNCHANGED <<endpoint, cache, dialect, texts, at, rung, combo, ignored, got, steady>>

\* encode_one: read the remembered combination and post the first attempt.
EncodeOne(t) ==
    /\ pc[t] = "encode"
    /\ pc' = [pc EXCEPT ![t] = "posting"]
    /\ rung' = [rung EXCEPT ![t] = IF dialect = NoDialect THEN 1 ELSE 0]
    /\ combo' = [combo EXCEPT ![t] = IF dialect = NoDialect THEN Ladder[1] ELSE dialect]
    /\ steady' = [steady EXCEPT ![t] = TRUE]
    /\ UNCHANGED <<endpoint, cache, dialect, texts, at, ignored, got>>

\* Mutant: any 200 is a tokenization.
EncodeFieldKeepsEmpty(x, a) == a # Failure

\* encode_field: an answer is a tokenization unless the request failed or the
\* list is empty for a non-empty text.
EncodeField(x, a) == a # Failure /\ (a = NoTokens => x = Empty)

\* Mutant: remember the combination of an empty answer too.
RemembersEvenEmpty(t, a) == combo[t]

\* attempt: only a non-empty tokenization identifies the dialect.
Remembers(t, a) == IF a = NoTokens THEN dialect ELSE combo[t]

\* attempt returned Ok(Some(ids)): encode_one returns ids.
AttemptAccepted(t, a) ==
    /\ pc[t] = "posting"
    /\ a \in Answers(combo[t], Text(t))
    /\ EncodeField(Text(t), a)
    /\ dialect' = Remembers(t, a)
    /\ got' = [got EXCEPT ![t] = a]
    /\ pc' = [pc EXCEPT ![t] = "store"]
    /\ LeaveEncodeOne(t)
    /\ UNCHANGED <<endpoint, cache, texts, at>>

\* field_ignored after answer a: set by phase 1 only, never by the memo.
FieldIgnored(t, a) == ignored[t] \/ (rung[t] \in 1..2 /\ a = NoTokens)

\* encode_one gives up: after phase 1 when no attempt of it was a 200 that
\* ignored the field, and after phase 2.
LadderEnds(t, a) == rung[t] = 4 \/ (rung[t] = 2 /\ ~FieldIgnored(t, a))

\* Mutant: after the reference field failed on both spellings, ask again.
NextRungRetries(t) == IF rung[t] = 2 THEN 1 ELSE rung[t] + 1

\* Mutant: when the remembered combination fails, go on behind it instead of
\* from the first rung.
NextRungBehindMemo(t) ==
    IF rung[t] = 0
      THEN CHOOSE i \in 1..4 : \E j \in 1..4 : combo[t] = Ladder[j] /\ i = (j % 4) + 1
      ELSE rung[t] + 1

NextRung(t) == rung[t] + 1

\* attempt returned Ok(None) or Err.
AttemptRejected(t, a) ==
    /\ pc[t] = "posting"
    /\ a \in Answers(combo[t], Text(t))
    /\ ~EncodeField(Text(t), a)

\* The ladder has another combination to try.
NextAttempt(t, a) ==
    /\ AttemptRejected(t, a)
    /\ ~LadderEnds(t, a)
    /\ ignored' = [ignored EXCEPT ![t] = FieldIgnored(t, a)]
    /\ rung' = [rung EXCEPT ![t] = NextRung(t)]
    /\ combo' = [combo EXCEPT ![t] = Ladder[NextRung(t)]]
    /\ UNCHANGED <<endpoint, cache, dialect, pc, texts, at, got, steady>>

\* It has not: encode_one fails and prefetch with it (the texts it stored
\* before stay stored).
GiveUp(t, a) ==
    /\ AttemptRejected(t, a)
    /\ LadderEnds(t, a)
    /\ pc' = [pc EXCEPT ![t] = "failed"]
    /\ LeaveEncodeOne(t)
    /\ UNCHANGED <<endpoint, cache, dialect, texts, at, got>>

\* Mutant: the insert makes room by dropping another entry.
StoredEvicting(x, ids) ==
    [y \in Texts |-> IF y = x THEN ids ELSE NotCached]

\* The cache after an insert: it replaces x's entry and touches no other.
Stored(x, ids) == [cache EXCEPT ![x] = ids]

\* try_encode: insert what encode_one returned, even if another task has
\* inserted the same text meanwhile.
Store(t) ==
    /\ pc[t] = "store"
    /\ cache' = Stored(Text(t), got[t])
    /\ got' = [got EXCEPT ![t] = NoTokens]
    /\ NextText(t)
    /\ UNCHANGED <<endpoint, dialect, texts, rung, combo, ignored, steady>>

\* SlotVerifier::encode on every text of the job: it panics on a miss.
\* (The panic poisons the mutex, and every later lock() panics too; NoPanic
\* shows that no task gets there.)
Encode(t) ==
    /\ pc[t] = "prefetched"
    /\ pc' = [pc EXCEPT ![t] =
                IF \A i \in 1..Len(texts[t]) : Cached(texts[t][i])
                  THEN "served" ELSE "panicked"]
    /\ UNCHANGED <<endpoint, cache, dialect, texts, at, rung, combo, ignored, got, steady>>

\* The client of the HTTP request disconnects: its future is dropped where it
\* waits, and nothing of the attempt is kept.
DropFuture(t) ==
    /\ pc[t] = "posting"
    /\ pc' = [pc EXCEPT ![t] = "idle"]
    /\ LeaveEncodeOne(t)
    /\ UNCHANGED <<endpoint, cache, dialect, texts, at, got>>

\* The server behind BaseUrl is restarted with another model or program.
Redeploy ==
    /\ \E d \in Deployments : <<endpoint, d>> \in Redeploys /\ endpoint' = d
    /\ steady' = [t \in Tasks |-> FALSE]
    /\ UNCHANGED <<cache, dialect, task>>

TaskStep(t) ==
    \/ CacheHit(t)
    \/ CacheMiss(t)
    \/ EncodeOne(t)
    \/ \E a \in Ids \cup {Failure} :
        \/ AttemptAccepted(t, a)
        \/ NextAttempt(t, a)
        \/ GiveUp(t, a)
    \/ Store(t)
    \/ Encode(t)

Next ==
    \/ \E t \in Tasks :
        \/ \E job \in Jobs : Prefetch(t, job)
        \/ TaskStep(t)
        \/ DropFuture(t)
    \/ Redeploy

Spec == Init /\ [][Next]_vars

\* A task is always polled again, and the client's 30 s timeout ends a POST
\* nobody answers; nothing makes a caller call or an endpoint change.
FairSpec == Spec /\ \A t \in Tasks : WF_vars(TaskStep(t))

-----------------------------------------------------------------------------
(* Properties. *)

Stages == {"idle", "lookup", "encode", "posting", "store", "prefetched",
           "served", "failed", "panicked"}

\* Every variable has the values its declaration says.
TypeOK ==
    /\ endpoint \in Deployments
    /\ cache \in [Texts -> Ids \cup {NotCached}]
    /\ dialect \in Combos \cup {NoDialect}
    /\ pc \in [Tasks -> Stages]
    /\ texts \in [Tasks -> Jobs \cup {<<>>}]
    /\ at \in [Tasks -> Nat \ {0}]
    /\ rung \in [Tasks -> 0..4]
    /\ combo \in [Tasks -> Combos \cup {NoDialect}]
    /\ ignored \in [Tasks -> BOOLEAN]
    /\ got \in [Tasks -> Ids]
    /\ steady \in [Tasks -> BOOLEAN]

\* After `prefetch` returned Ok, the synchronous `encode` of any text of the
\* list finds it in the cache, whatever the other tasks, their failures and
\* the endpoint did meanwhile: the documented panic is never reached.
NoPanic == \A t \in Tasks : pc[t] # "panicked"

\* The silent shape of llama.cpp, `200 {"tokens": []}` for a field it does
\* not know, is never stored as a tokenization: it would move the readout
\* position without an error anywhere.
UsableEncodings == \A x \in Texts : cache[x] = NoTokens => x = Empty

\* No other deployment was replaced by the present one.
Stable == \A d \in Deployments : <<d, endpoint>> \notin Redeploys

\* While the deployment stays the same, the remembered combination is one
\* that does tokenize there, so a text that needs tokens costs one request
\* from then on; an empty text never teaches the memo.
MemoSpeaks ==
    Stable /\ dialect # NoDialect => Treats(endpoint, dialect) = "tokenizes"

\* The two routes the endpoint may have: /tokenize and /v1/tokenize behind
\* the host, whether BaseUrl carries the /v1 segment or not.
Host ==
    LET n == Len(BaseUrl) IN
    IF n > 0 /\ BaseUrl[n] = "v1" THEN SubSeq(BaseUrl, 1, n - 1) ELSE BaseUrl

Routes == {Host \o <<"tokenize">>, Host \o <<"v1", "tokenize">>}

\* Some route treats a field in this way.
Some(field, how) == \E url \in Routes : Treats(endpoint, Combo(url, field)) = how

\* A failure of t at an endpoint that stayed and never failed while encode_one
\* ran: nothing the code is to try there would have tokenized.
FailsRightly(t) ==
    pc[t] # "failed" /\ pc'[t] = "failed" /\ steady[t] /\ ~endpoint.flaky =>
        /\ ~Some("prompt", "tokenizes")
        /\ Some("prompt", "ignores") => ~Some("content", "tokenizes")

\* The memo may have gone stale: it may name a combination that an endpoint
\* replaced long ago spoke.  Still, an endpoint that stays while encode_one
\* runs, and tokenizes the reference field on either route, or ignores it with
\* a 200 on either route and tokenizes the other field, never makes it fail.
SpokenDialectIsFound == [][\A t \in Tasks : FailsRightly(t)]_vars

\* Every call of prefetch ends, in a result or in an error, or its caller
\* goes away.
EveryPrefetchEnds ==
    \A t \in Tasks :
        pc[t] = "lookup" ~> pc[t] \in {"served", "failed", "idle"}

-----------------------------------------------------------------------------
(* The inductive strengthening of the safety properties. *)

Working == {"lookup", "encode", "posting", "store"}

\* A task that is still fetching has stored every text before the one it
\* works on; one that has fetched has stored them all.
FetchedBy(t) ==
    /\ pc[t] \in Working =>
         /\ at[t] <= Len(texts[t])
         /\ \A i \in 1..Len(texts[t]) : i < at[t] => Cached(texts[t][i])
    /\ pc[t] = "prefetched" =>
         \A i \in 1..Len(texts[t]) : Cached(texts[t][i])

FetchedSoFar == \A t \in Tasks : FetchedBy(t)

\* What a task is about to store is usable for the text it stores it for.
CarriesUsable ==
    \A t \in Tasks : pc[t] = "store" /\ got[t] = NoTokens => Text(t) = Empty

Speaks(i) == Treats(endpoint, Ladder[i]) = "tokenizes"
Ignores(i) == Treats(endpoint, Ladder[i]) = "ignores"

\* A task on the ladder of an endpoint that stayed and never failed has learnt
\* that no rung below tokenizes, and whether one of them ignored the reference
\* field.
ClimbedBy(t) ==
    pc[t] = "posting" /\ rung[t] > 0 /\ steady[t] /\ ~endpoint.flaky =>
        /\ combo[t] = Ladder[rung[t]]
        /\ \A i \in 1..4 : i < rung[t] => ~Speaks(i)
        /\ \A i \in 1..2 : i < rung[t] /\ Ignores(i) => ignored[t]

LadderClimbed == \A t \in Tasks : ClimbedBy(t)

IInv ==
    /\ TypeOK
    /\ FetchedSoFar
    /\ CarriesUsable
    /\ LadderClimbed
    /\ NoPanic
    /\ UsableEncodings
    /\ MemoSpeaks

-----------------------------------------------------------------------------
(* HttpTokenizer implements TokenService. *)

Status(t) ==
    CASE pc[t] = "idle" -> "none"
      [] pc[t] \in {"served", "failed", "panicked"} -> pc[t]
      [] OTHER -> "pending"

Asked(t) == {texts[t][i] : i \in 1..Len(texts[t])}

Service == INSTANCE TokenService WITH
    asked <- [t \in Tasks |-> Asked(t)],
    status <- [t \in Tasks |-> Status(t)]

\* Whatever the ladder, the memo and the races between tasks do, a caller
\* sees a store that never loses an entry, and a call that is served only
\* when everything it asked for is in it.
ImplementsTokenService == Service!Spec

=============================================================================
