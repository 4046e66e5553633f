------------------------- MODULE ReadoutBackendProofs -------------------------
(***************************************************************************)
(* Proofs about the batched readout, for every set of calls, batches and   *)
(* replies, and about the benchmark that measures it, for every number of  *)
(* repeats and runs, all prompts and all durations.                        *)
(***************************************************************************)
EXTENDS Bench, FiniteSums

-----------------------------------------------------------------------------
(* Maps of 1..n to itself. *)

\* A map of 1..n onto itself is one to one.
LEMMA OntoItself ==
    ASSUME NEW n \in Nat, NEW f \in [1..n -> 1..n],
           \A t \in 1..n : \E s \in 1..n : f[s] = t
    PROVE  \A a, b \in 1..n : f[a] = f[b] => a = b
<1>1. f \in Surjection(1..n, 1..n)
  BY DEF Surjection
<1>2. f \in Injection(1..n, 1..n)
  BY <1>1, FS_Interval, FS_SurjSameCardinalityImpliesInj
<1>3. QED
  BY <1>2 DEF Injection, IsInjective

\* A map that keeps the order of a set of numbers, onto that set, moves none.
LEMMA OrderedOntoItself ==
    ASSUME NEW n \in Nat, NEW P \in SUBSET (1..n), NEW f \in [1..n -> 1..n],
           \A p \in P : f[p] \in P,
           \A p \in P : \E q \in P : f[q] = p,
           \A p, q \in P : p < q => f[p] < f[q]
    PROVE  \A p \in P : f[p] = p
<1> DEFINE moved == {p \in P : f[p] # p}
<1> SUFFICES ASSUME moved # {}
             PROVE  FALSE
  OBVIOUS
<1>1. PICK m \in moved : \A k \in moved : m <= k
  <2>1. IsFiniteSet(1..n)
    BY FS_Interval
  <2>2. moved \in SUBSET Int /\ moved \in SUBSET (1..n)
    <3>1. moved \subseteq P
      OBVIOUS
    <3>2. 1..n \subseteq Int
      OBVIOUS
    <3> HIDE DEF moved
    <3>3. QED
      BY <3>1, <3>2
  <2>3. IsFiniteSet(moved)
    BY <2>1, <2>2, FS_Subset
  <2> HIDE DEF moved
  <2>4. QED
    BY <2>2, <2>3, LeastElement
<1>2. m \in P /\ f[m] \in P /\ f[m] # m
  OBVIOUS
<1>3. \A p \in P : p < m => f[p] = p
  BY <1>1
<1>4. CASE f[m] < m
  <2>1. f[f[m]] = f[m]
    BY <1>2, <1>3, <1>4
  <2>2. f[f[m]] < f[m]
    BY <1>2, <1>4
  <2>3. QED
    BY <1>2, <2>1, <2>2
<1>5. CASE m < f[m]
  <2>1. PICK q \in P : f[q] = m
    BY <1>2
  <2>2. ~(q < m)
    BY <1>3, <2>1
  <2>3. q # m
    BY <1>2, <2>1
  <2>4. m < q => f[m] < f[q]
    BY <1>2
  <2>5. QED
    BY <1>2, <1>5, <2>1, <2>2, <2>3, <2>4
<1>6. QED
  BY <1>2, <1>4, <1>5

-----------------------------------------------------------------------------
(* The batch. *)

\* Sorted by index, the choices of a trustworthy reply are in prompt order,
\* whichever of them carry an index.
LEMMA SortedIntoPromptOrder ==
    ASSUME NEW cs \in Seq(WireChoices), Permutation(cs), Trustworthy(cs)
    PROVE  \A i \in DOMAIN cs : InIndexOrder(cs)[i].of = i
<1> DEFINE n == Len(cs)
<1> DEFINE of == [p \in 1..n |-> cs[p].of]
<1> DEFINE at == [p \in 1..n |-> IndexAt(cs, p)]
<1> DEFINE bare == {p \in 1..n : cs[p].index = NoIndex}
<1>1. n \in Nat /\ DOMAIN cs = 1..n
  OBVIOUS
<1>2. ASSUME NEW p \in 1..n
      PROVE  /\ p \in bare => IndexAt(cs, p) = p
             /\ p \notin bare => cs[p].index \in Nat /\ IndexAt(cs, p) = cs[p].index
                                 /\ cs[p].of = IndexAt(cs, p)
  <2>1. cs[p] \in WireChoices /\ cs[p].index # NotAnIndex
    BY <1>1 DEF Permutation
  <2>2. p \notin bare => cs[p].index \in Nat
    BY <2>1 DEF WireChoices
  <2>3. QED
    BY <1>1, <2>2 DEF IndexAt, Trustworthy
<1>3. /\ of \in [1..n -> 1..n] /\ \A t \in 1..n : \E s \in 1..n : of[s] = t
  BY <1>1 DEF Trustworthy
<1>4. /\ at \in [1..n -> 1..n] /\ \A t \in 1..n : \E s \in 1..n : at[s] = t
  BY <1>1 DEF Permutation
<1>5. /\ \A a, b \in 1..n : of[a] = of[b] => a = b
      /\ \A a, b \in 1..n : at[a] = at[b] => a = b
  <2> HIDE DEF of, at, n
  <2>1. QED
    BY <1>1, <1>3, <1>4, OntoItself
<1>6. /\ \A p \in bare : at[p] = p
      /\ \A p \in 1..n : p \notin bare => of[p] = at[p]
      /\ \A p, q \in bare : p < q => of[p] < of[q]
  BY <1>1, <1>2 DEF Trustworthy
<1>7. bare \in SUBSET (1..n)
  OBVIOUS
<1> HIDE DEF of, at, bare, n
<1>8. ASSUME NEW p \in bare
      PROVE  of[p] \in bare
  <2>1. PICK r \in 1..n : at[r] = of[p]
    BY <1>3, <1>4, <1>7
  <2>2. CASE r \in bare
    BY <1>6, <2>1, <2>2
  <2>3. CASE r \notin bare
    BY <1>5, <1>6, <1>7, <2>1, <2>3
  <2>4. QED
    BY <2>2, <2>3
<1>9. ASSUME NEW p \in bare
      PROVE  \E q \in bare : of[q] = p
  <2>1. PICK r \in 1..n : of[r] = p
    BY <1>3, <1>7
  <2>2. CASE r \notin bare
    BY <1>5, <1>6, <1>7, <2>1, <2>2
  <2>3. QED
    BY <2>1, <2>2
<1>10. \A p \in bare : of[p] = p
  <2>1. n \in Nat /\ bare \in SUBSET (1..n) /\ of \in [1..n -> 1..n]
    BY <1>1, <1>3, <1>7
  <2>2. \A p \in bare : of[p] \in bare
    BY <1>8
  <2>3. \A p \in bare : \E q \in bare : of[q] = p
    BY <1>9
  <2>4. \A p, q \in bare : p < q => of[p] < of[q]
    BY <1>6
  <2>5. QED
    BY <2>1, <2>2, <2>3, <2>4, OrderedOntoItself
<1>11. \A p \in 1..n : of[p] = at[p]
  BY <1>6, <1>7, <1>10
<1>12. ASSUME NEW i \in 1..n
       PROVE  InIndexOrder(cs)[i].of = i
  <2> DEFINE pos == CHOOSE p \in 1..n : IndexAt(cs, p) = i
  <2>1. \E p \in 1..n : IndexAt(cs, p) = i
    BY <1>4 DEF at
  <2>2. pos \in 1..n /\ IndexAt(cs, pos) = i
    BY <2>1
  <2>3. InIndexOrder(cs)[i] = cs[pos]
    BY <1>1 DEF InIndexOrder
  <2> HIDE DEF pos
  <2>4. of[pos] = cs[pos].of /\ at[pos] = IndexAt(cs, pos)
    BY <2>2 DEF of, at
  <2>5. QED
    BY <1>11, <2>2, <2>3, <2>4
<1>13. QED
  BY <1>1, <1>12

\* The readouts of ps, in the order of ps.
InPromptOrder(rs, ps) ==
    /\ Len(rs) = Len(ps)
    /\ rs \in Seq([prompt : Range(ps), prompt_tokens : Usages \cup {0}])
    /\ \A i \in DOMAIN rs : rs[i].prompt = ps[i]

IsBatch(ps) == ps \in Seq(Range(ps)) /\ Len(ps) \in DOMAIN ChoiceLists \cup {0}

AllReplies == UNION {RepliesTo(n) : n \in DOMAIN ChoiceLists}

\* What a reply holds.
LEMMA RepliesAre ==
    ASSUME NEW n \in DOMAIN ChoiceLists, NEW a \in RepliesTo(n)
    PROVE  /\ a \in AllReplies
           /\ a.status \in Nat
           /\ a.status = 200 => a.usage \in Usages /\ a.choices \in ChoiceLists[n]
           /\ a.status # 200 => a.choices = NoChoices
<1>1. a \in AllReplies
  BY DEF AllReplies
<1>2. CASE \E st \in Statuses : a = Refusal(st)
  BY <1>1, <1>2, StatusesAssumption DEF Refusal
<1>3. CASE \E cs \in ChoiceLists[n], u \in Usages : a = Success(cs, u)
  BY <1>1, <1>3, StatusesAssumption DEF Success
<1>4. QED
  BY <1>2, <1>3 DEF RepliesTo

\* What the batch comes to.
LEMMA Verdicts ==
    ASSUME NEW cs, NEW n
    PROVE  /\ BatchVerdict(cs, n) \in {"ok", "Decode", "NoLogprobs"}
           /\ BatchVerdict(cs, n) = "ok" =>
                cs \notin {NoChoices, NotJson} /\ Len(cs) = n /\ Permutation(cs)
  BY DEF BatchVerdict, TopLogprobs

\* A batch that is accepted gives the readouts in the order of the prompts.
LEMMA BatchInPromptOrder ==
    ASSUME NEW ps, IsBatch(ps), NEW usage \in Usages, NEW cs \in ChoiceLists[Len(ps)],
           Len(ps) \in DOMAIN ChoiceLists,
           BatchVerdict(cs, Len(ps)) = "ok", Trustworthy(cs)
    PROVE  InPromptOrder(BatchReadouts(ps, cs, usage), ps)
<1> DEFINE rs == BatchReadouts(ps, cs, usage)
<1>1. cs \in Seq(WireChoices) /\ Len(cs) = Len(ps) /\ Permutation(cs)
  BY Verdicts, ChoiceListsAssumption
<1>2. DOMAIN cs = 1..Len(ps) /\ DOMAIN ps = 1..Len(ps) /\ Len(ps) \in Nat
  BY <1>1 DEF IsBatch
<1>3. \A i \in 1..Len(ps) : InIndexOrder(cs)[i].of = i
  BY <1>1, <1>2, SortedIntoPromptOrder
<1>4. rs = [i \in 1..Len(ps) |-> Reads(ps[i], BatchUsage(i, usage))]
  BY <1>2, <1>3 DEF BatchReadouts
<1>5. \A i \in 1..Len(ps) :
        /\ Reads(ps[i], BatchUsage(i, usage)) \in [prompt : Range(ps), prompt_tokens : Usages \cup {0}]
        /\ Reads(ps[i], BatchUsage(i, usage)).prompt = ps[i]
  BY <1>2 DEF Reads, BatchUsage, Range
<1> HIDE DEF rs
<1>6. rs \in Seq([prompt : Range(ps), prompt_tokens : Usages \cup {0}]) /\ Len(rs) = Len(ps)
  BY <1>2, <1>4, <1>5
<1>7. QED
  BY <1>2, <1>4, <1>5, <1>6 DEF InPromptOrder, rs

-----------------------------------------------------------------------------
(* The invariant of one call: what it has heard and what it holds. *)

\* The shape was refused, and the prompts read so far had a 200 each.
Falling(c) ==
    /\ heard[c] \in Seq(AllReplies)
    /\ Len(heard[c]) = Len(readouts[c]) + 1
    /\ heard[c][1].status \in RequestShape
    /\ heard[c][1].choices = NoChoices
    /\ \A i \in 2..Len(heard[c]) : Answered(heard[c][i])
    /\ readouts[c] \in Seq([prompt : Range(prompts[c]), prompt_tokens : Usages \cup {0}])
    /\ Len(readouts[c]) <= Len(prompts[c])
    /\ \A i \in DOMAIN readouts[c] : readouts[c][i].prompt = prompts[c][i]

\* The one reply was a 200, and the readouts are its own, one per prompt.
ByArray(c) ==
    /\ heard[c] \in Seq(AllReplies) /\ Len(heard[c]) = 1 /\ Answered(heard[c][1])
    /\ Len(readouts[c]) = Len(prompts[c])
    /\ NotMisled(c) => InPromptOrder(readouts[c], prompts[c])

Stage(c) ==
    /\ pc[c] = "none" => prompts[c] = <<>> /\ readouts[c] = <<>> /\ heard[c] = <<>>
    /\ pc[c] = "array" => prompts[c] # <<>> /\ readouts[c] = <<>> /\ heard[c] = <<>>
    /\ pc[c] = "single" => Falling(c) /\ Len(readouts[c]) < Len(prompts[c])
    /\ pc[c] = "ok" =>
        \/ prompts[c] = <<>> /\ readouts[c] = <<>> /\ heard[c] = <<>>
        \/ ByArray(c)
        \/ Falling(c) /\ Len(readouts[c]) = Len(prompts[c])

Call(c) == IsBatch(prompts[c]) /\ pc[c] \in Over \cup {"none", "array", "single"} /\ Stage(c)

Families ==
    DOMAIN pc = Calls /\ DOMAIN prompts = Calls /\ DOMAIN readouts = Calls /\ DOMAIN heard = Calls

BackendInv == Families /\ \A c \in Calls : Call(c)

Same(c) ==
    /\ pc'[c] = pc[c] /\ prompts'[c] = prompts[c]
    /\ readouts'[c] = readouts[c] /\ heard'[c] = heard[c]

\* A call that does not move keeps what it has.
LEMMA CallStays ==
    ASSUME NEW c \in Calls, Call(c), Same(c)
    PROVE  Call(c)'
  BY DEF Call, Same, Stage, Falling, ByArray, NotMisled

StepOf(c) ==
    \/ \E ps \in Batches[c] : TokenLogprobsBatch(c, ps)
    \/ ArrayAnswered(c) \/ FallBack(c) \/ ArrayFailed(c)
    \/ SingleAnswered(c) \/ SingleFailed(c) \/ DropFuture(c)

\* A step moves one call.
LEMMA OneCall ==
    ASSUME Families, NEW c \in Calls, StepOf(c)
    PROVE  Families' /\ \A d \in Calls : d # c => Same(d)
<1> USE DEF Families, Same, Hears
<1>1. ASSUME NEW ps \in Batches[c], TokenLogprobsBatch(c, ps)
      PROVE  Families' /\ \A d \in Calls : d # c => Same(d)
  BY <1>1 DEF TokenLogprobsBatch
<1>2. CASE ArrayAnswered(c)
  BY <1>2 DEF ArrayAnswered
<1>3. CASE FallBack(c) \/ ArrayFailed(c)
  BY <1>3 DEF FallBack, ArrayFailed
<1>4. CASE SingleAnswered(c) \/ SingleFailed(c)
  BY <1>4 DEF SingleAnswered, SingleFailed
<1>5. CASE DropFuture(c)
  BY <1>5 DEF DropFuture
<1>6. QED
  BY <1>1, <1>2, <1>3, <1>4, <1>5 DEF StepOf

-----------------------------------------------------------------------------
(* The steps of one call. *)

\* One more reply behind those that were heard.
LEMMA HeardOneMore ==
    ASSUME NEW h \in Seq(AllReplies), NEW a \in AllReplies
    PROVE  /\ Append(h, a) \in Seq(AllReplies)
           /\ Len(Append(h, a)) = Len(h) + 1 /\ Len(h) \in Nat
           /\ \A i \in 1..Len(h) : Append(h, a)[i] = h[i]
           /\ Append(h, a)[Len(h) + 1] = a
  OBVIOUS

\* The first reply to a call.
LEMMA HeardFirst ==
    ASSUME NEW a \in AllReplies
    PROVE  /\ Append(<<>>, a) \in Seq(AllReplies) /\ Len(Append(<<>>, a)) = 1
           /\ Append(<<>>, a)[1] = a /\ Append(<<>>, a) # <<>>
  BY HeardOneMore, EmptySeq

\* A batch that is posted is not empty.
LEMMA BatchLength ==
    ASSUME NEW ps, IsBatch(ps), ps # <<>>
    PROVE  /\ Len(ps) \in Nat \ {0} /\ Len(ps) \in DOMAIN ChoiceLists
           /\ DOMAIN ps = 1..Len(ps)
  BY EmptySeq DEF IsBatch

\* The reply to the array.
LEMMA ArrayStep ==
    ASSUME BackendInv, NEW c \in Calls,
           ArrayAnswered(c) \/ FallBack(c) \/ ArrayFailed(c)
    PROVE  Call(c)'
<1>0. Families /\ IsBatch(prompts[c]) /\ Stage(c)
  BY DEF BackendInv, Call
<1>1. /\ pc[c] = "array" /\ prompts[c] # <<>> /\ readouts[c] = <<>> /\ heard[c] = <<>>
      /\ prompts'[c] = prompts[c]
  BY <1>0 DEF Stage, ArrayAnswered, FallBack, ArrayFailed
<1>2. Len(prompts[c]) \in Nat \ {0} /\ Len(prompts[c]) \in DOMAIN ChoiceLists
  BY <1>0, <1>1, BatchLength
<1>3. CASE ArrayAnswered(c)
  <2>1. PICK a \in RepliesTo(Len(prompts[c])) :
           /\ a.status = 200
           /\ pc'[c] = BatchVerdict(a.choices, Len(prompts[c]))
           /\ pc'[c] = "ok" =>
                readouts'[c] = BatchReadouts(prompts[c], a.choices, a.usage)
           /\ heard'[c] = Append(<<>>, a)
    BY <1>0, <1>1, <1>3 DEF ArrayAnswered, Families, Hears
  <2>2. a \in AllReplies /\ a.usage \in Usages /\ a.choices \in ChoiceLists[Len(prompts[c])]
    BY <1>2, <2>1, RepliesAre
  <2>3. /\ heard'[c] \in Seq(AllReplies) /\ heard'[c] # <<>>
        /\ Len(heard'[c]) = 1 /\ heard'[c][1] = a
    BY <2>1, <2>2, HeardFirst
  <2>4. ASSUME pc'[c] = "ok"
        PROVE  ByArray(c)'
    <3>1. NotMisled(c)' => Trustworthy(a.choices)
      BY <2>1, <2>3, <2>4, Verdicts DEF NotMisled
    <3>2. BatchVerdict(a.choices, Len(prompts[c])) = "ok"
      BY <2>1, <2>4
    <3>3. Trustworthy(a.choices) =>
            InPromptOrder(BatchReadouts(prompts[c], a.choices, a.usage), prompts[c])
      BY <1>0, <1>2, <2>2, <3>2, BatchInPromptOrder
    <3>4. readouts'[c] = BatchReadouts(prompts[c], a.choices, a.usage)
      BY <2>1, <2>4
    <3>5. Len(readouts'[c]) = Len(prompts[c])
      <4>1. Len(a.choices) = Len(prompts[c]) /\ a.choices \in Seq(WireChoices)
        BY <1>2, <2>2, <3>2, Verdicts, ChoiceListsAssumption
      <4>2. DOMAIN readouts'[c] = 1..Len(prompts[c])
        BY <3>4, <4>1 DEF BatchReadouts
      <4>3. readouts'[c] = [i \in 1..Len(prompts[c]) |-> readouts'[c][i]]
        BY <3>4, <4>2 DEF BatchReadouts
      <4>4. QED
        BY <1>2, <4>3
    <3>6. QED
      BY <1>1, <2>1, <2>3, <3>1, <3>3, <3>4, <3>5 DEF ByArray, Answered
  <2>5. pc'[c] \in {"ok", "Decode", "NoLogprobs"}
    BY <2>1, Verdicts
  <2>6. QED
    BY <1>0, <1>1, <2>4, <2>5 DEF Call, Stage, Over
<1>4. CASE FallBack(c)
  <2>1. PICK a \in RepliesTo(Len(prompts[c])) :
           /\ a.status \in RequestShape
           /\ pc'[c] = "single" /\ readouts'[c] = <<>> /\ heard'[c] = Append(<<>>, a)
    BY <1>0, <1>1, <1>4 DEF FallBack, Families, Hears
  <2>2. a \in AllReplies /\ a.choices = NoChoices
    BY <1>2, <2>1, RepliesAre DEF RequestShape
  <2>3. heard'[c] \in Seq(AllReplies) /\ Len(heard'[c]) = 1 /\ heard'[c][1] = a
    BY <2>1, <2>2, HeardFirst
  <2>4. Len(<<>>) = 0 /\ DOMAIN <<>> = {}
        /\ <<>> \in Seq([prompt : Range(prompts[c]), prompt_tokens : Usages \cup {0}])
    BY EmptySeq
  <2>5. Falling(c)'
    BY <1>1, <1>2, <2>1, <2>2, <2>3, <2>4 DEF Falling
  <2>6. QED
    BY <1>0, <1>1, <1>2, <2>1, <2>4, <2>5 DEF Call, Stage
<1>5. CASE ArrayFailed(c)
  <2>1. pc'[c] = "Http"
    BY <1>0, <1>5 DEF ArrayFailed, Families
  <2>2. QED
    BY <1>0, <1>1, <2>1 DEF Call, Stage, Over
<1>6. QED
  BY <1>3, <1>4, <1>5

\* One more prompt of a fallback is read.
LEMMA SingleFalls ==
    ASSUME BackendInv, NEW c \in Calls, SingleAnswered(c)
    PROVE  /\ Falling(c)' /\ prompts'[c] = prompts[c] /\ IsBatch(prompts[c])
           /\ pc'[c] = "single" => Len(readouts'[c]) < Len(prompts[c])
           /\ pc'[c] = "ok" => Len(readouts'[c]) = Len(prompts[c])
           /\ pc'[c] \in {"ok", "single"}
<1>0. Families /\ IsBatch(prompts[c]) /\ Stage(c)
  BY DEF BackendInv, Call
<1>1. /\ pc[c] = "single" /\ Falling(c) /\ Len(readouts[c]) < Len(prompts[c])
      /\ prompts'[c] = prompts[c]
  BY <1>0 DEF Stage, SingleAnswered
<1> DEFINE n == Len(readouts[c])
<1> DEFINE Readouts == [prompt : Range(prompts[c]), prompt_tokens : Usages \cup {0}]
<1>2. PICK a \in RepliesTo(1) :
         /\ SingleVerdict(a) = "ok"
         /\ readouts'[c] = Append(readouts[c], Reads(prompts[c][n + 1], a.usage))
         /\ heard'[c] = Append(heard[c], a)
         /\ pc'[c] = IF Len(readouts'[c]) = Len(prompts[c]) THEN "ok" ELSE "single"
  BY <1>0, <1>1 DEF SingleAnswered, Families, Hears
<1>3. a.status = 200
  BY <1>2 DEF SingleVerdict
<1>4. a \in AllReplies /\ a.usage \in Usages
  BY <1>2, <1>3, RepliesAre, ChoiceListsAssumption
<1>5. /\ heard'[c] \in Seq(AllReplies) /\ Len(heard'[c]) = Len(heard[c]) + 1
      /\ \A i \in 1..Len(heard[c]) : heard'[c][i] = heard[c][i]
      /\ heard'[c][Len(heard[c]) + 1] = a
  BY <1>1, <1>2, <1>4, HeardOneMore DEF Falling
<1>6. /\ n \in Nat /\ Len(prompts[c]) \in Nat /\ n < Len(prompts[c])
      /\ DOMAIN prompts[c] = 1..Len(prompts[c])
  BY <1>0, <1>1 DEF Falling, IsBatch
<1>7. /\ prompts[c][n + 1] \in Range(prompts[c])
      /\ Reads(prompts[c][n + 1], a.usage) \in Readouts
  <2>1. n + 1 \in DOMAIN prompts[c]
    BY <1>6
  <2>2. QED
    BY <1>4, <2>1 DEF Range, Reads
<1>8. /\ readouts'[c] \in Seq(Readouts) /\ Len(readouts'[c]) = n + 1
      /\ DOMAIN readouts'[c] = 1..(n + 1)
      /\ \A i \in 1..n : readouts'[c][i] = readouts[c][i]
      /\ readouts'[c][n + 1].prompt = prompts[c][n + 1]
  BY <1>1, <1>2, <1>6, <1>7 DEF Falling, Reads
<1>9. Len(heard[c]) = n + 1
  BY <1>1 DEF Falling
<1>10. \A i \in 2..Len(heard'[c]) : Answered(heard'[c][i])
  <2>1. \A i \in 2..Len(heard'[c]) : i \in 2..Len(heard[c]) \/ i = Len(heard[c]) + 1
    BY <1>5, <1>6, <1>9
  <2>2. \A i \in 2..Len(heard[c]) : i \in 1..Len(heard[c])
    BY <1>6, <1>9
  <2>3. \A i \in 2..Len(heard[c]) : Answered(heard'[c][i])
    <3>1. \A i \in 2..Len(heard[c]) : heard'[c][i] = heard[c][i]
      BY <1>5, <2>2
    <3>2. \A i \in 2..Len(heard[c]) : Answered(heard[c][i])
      BY <1>1 DEF Falling
    <3>3. QED
      BY <3>1, <3>2
  <2>4. Answered(heard'[c][Len(heard[c]) + 1])
    BY <1>3, <1>5 DEF Answered
  <2>5. QED
    BY <2>1, <2>3, <2>4
<1>11. \A i \in DOMAIN readouts'[c] : readouts'[c][i].prompt = prompts[c][i]
  <2>1. DOMAIN readouts[c] = 1..n
    BY <1>1 DEF Falling
  <2>2. \A i \in 1..(n + 1) : i \in 1..n \/ i = n + 1
    BY <1>6
  <2>3. QED
    BY <1>1, <1>8, <2>1, <2>2 DEF Falling
<1>12. heard'[c][1] = heard[c][1]
  BY <1>5, <1>6, <1>9
<1>13. n + 1 <= Len(prompts[c]) /\ Len(heard'[c]) = Len(readouts'[c]) + 1
  BY <1>5, <1>6, <1>8, <1>9
<1>14. Falling(c)'
  BY <1>1, <1>5, <1>8, <1>10, <1>11, <1>12, <1>13 DEF Falling
<1>15. pc'[c] = "single" => Len(readouts'[c]) < Len(prompts'[c])
  BY <1>1, <1>2, <1>6, <1>8, <1>13
<1>16. pc'[c] = "ok" => Len(readouts'[c]) = Len(prompts'[c])
  BY <1>1, <1>2
<1>17. pc'[c] \in {"ok", "single"}
  BY <1>2
<1>18. QED
  BY <1>0, <1>1, <1>14, <1>15, <1>16, <1>17

\* The reply to one prompt of a fallback.
LEMMA SingleStep ==
    ASSUME BackendInv, NEW c \in Calls,
           SingleAnswered(c) \/ SingleFailed(c)
    PROVE  Call(c)'
<1>0. Families /\ IsBatch(prompts[c]) /\ Stage(c)
  BY DEF BackendInv, Call
<1>1. pc[c] = "single" /\ prompts'[c] = prompts[c]
  BY <1>0 DEF SingleAnswered, SingleFailed
<1>2. CASE SingleAnswered(c)
  BY <1>2, SingleFalls DEF Call, Stage, Over
<1>3. CASE SingleFailed(c)
  <2>1. \E a \in RepliesTo(1) : SingleVerdict(a) # "ok" /\ pc'[c] = SingleVerdict(a)
    BY <1>0, <1>3 DEF SingleFailed, Families
  <2>2. pc'[c] \in {"Http", "Decode", "NoLogprobs"}
    BY <2>1 DEF SingleVerdict, TopLogprobs
  <2>3. QED
    BY <1>0, <1>1, <2>2 DEF Call, Stage, Over
<1>4. QED
  BY <1>2, <1>3

-----------------------------------------------------------------------------
(* The invariant of the backend. *)

\* No call has been made.
LEMMA BackendStarts == Init => BackendInv
<1> SUFFICES ASSUME Init PROVE BackendInv
  OBVIOUS
<1>1. Families
  BY DEF Init, Families
<1>2. <<>> \in Seq(Range(<<>>)) /\ Len(<<>>) = 0
  BY EmptySeq
<1>3. \A c \in Calls : Call(c)
  BY <1>2 DEF Init, Call, IsBatch, Stage
<1>4. QED
  BY <1>1, <1>3 DEF BackendInv

\* No step breaks the invariant.
LEMMA BackendKeeps == BackendInv /\ [Next]_vars => BackendInv'
<1> SUFFICES ASSUME BackendInv, [Next]_vars
             PROVE  BackendInv'
  OBVIOUS
<1>1. ASSUME NEW c \in Calls, StepOf(c)
      PROVE  BackendInv'
  <2>1. Families' /\ \A d \in Calls : d # c => Same(d)
    BY <1>1, OneCall DEF BackendInv
  <2>2. ASSUME NEW ps \in Batches[c], TokenLogprobsBatch(c, ps)
        PROVE  Call(c)'
    <3>1. /\ pc[c] = "none" /\ readouts[c] = <<>> /\ heard[c] = <<>>
          /\ UNCHANGED <<readouts, heard>>
          /\ prompts'[c] = ps /\ pc'[c] = IF ps = <<>> THEN "ok" ELSE "array"
      BY <2>2 DEF TokenLogprobsBatch, BackendInv, Call, Stage, Families
    <3>2. IsBatch(ps)
      BY BatchesAssumption DEF IsBatch
    <3>3. QED
      BY <3>1, <3>2 DEF Call, Stage, Over
  <2>3. ASSUME DropFuture(c)
        PROVE  Call(c)'
    <3>1. pc'[c] = "dropped" /\ prompts'[c] = prompts[c]
      BY <2>3 DEF DropFuture, BackendInv, Families
    <3>2. QED
      BY <3>1 DEF BackendInv, Call, Stage, Over
  <2>4. Call(c)'
    BY <1>1, <2>2, <2>3, ArrayStep, SingleStep DEF StepOf
  <2>5. \A d \in Calls : d # c => Call(d)'
    BY <2>1, CallStays DEF BackendInv
  <2>6. QED
    BY <2>1, <2>4, <2>5 DEF BackendInv
<1>2. CASE UNCHANGED vars
  <2>1. Families'
    BY <1>2 DEF BackendInv, Families, vars
  <2>2. \A c \in Calls : Same(c)
    BY <1>2 DEF Same, vars
  <2>3. QED
    BY <2>1, <2>2, CallStays DEF BackendInv
<1>3. QED
  BY <1>1, <1>2 DEF Next, StepOf

\* The invariant the theorems below follow from.
THEOREM BackendInvariant == Spec => []BackendInv
  BY BackendStarts, BackendKeeps, PTL DEF Spec

\* A call that succeeds unmisled holds the readouts of its prompts in order.
LEMMA SuccessInPromptOrder ==
    ASSUME BackendInv, NEW c \in Calls, pc[c] = "ok", NotMisled(c)
    PROVE  InPromptOrder(readouts[c], prompts[c])
<1>1. IsBatch(prompts[c]) /\ Stage(c)
  BY DEF BackendInv, Call
<1>2. CASE prompts[c] = <<>> /\ readouts[c] = <<>>
  BY <1>2, EmptySeq DEF InPromptOrder
<1>3. CASE ByArray(c)
  BY <1>3 DEF ByArray
<1>4. CASE Falling(c) /\ Len(readouts[c]) = Len(prompts[c])
  BY <1>4 DEF Falling, InPromptOrder
<1>5. QED
  BY <1>1, <1>2, <1>3, <1>4 DEF Stage

\* Every readout of a call that succeeds was read from its own prompt's
\* choice, in whatever order and with whichever indexes the choices came.
THEOREM ReadoutsStayAligned == Spec => []AlignedOrRefused
<1>1. BackendInv => AlignedOrRefused
  <2> SUFFICES ASSUME BackendInv, NEW c \in Calls, pc[c] = "ok", NotMisled(c)
               PROVE  [i \in DOMAIN readouts[c] |-> readouts[c][i].prompt] = prompts[c]
    BY DEF AlignedOrRefused
  <2>1. InPromptOrder(readouts[c], prompts[c]) /\ IsBatch(prompts[c])
    BY SuccessInPromptOrder DEF BackendInv, Call
  <2>2. DOMAIN readouts[c] = 1..Len(prompts[c])
    BY <2>1 DEF InPromptOrder
  <2>3. prompts[c] = [i \in 1..Len(prompts[c]) |-> prompts[c][i]]
    BY <2>1 DEF IsBatch
  <2>4. QED
    BY <2>1, <2>2, <2>3 DEF InPromptOrder
<1>2. QED
  BY <1>1, BackendInvariant, PTL

\* A call succeeds only when the array had a 200, or its shape was refused and
\* every prompt had a 200 of its own.
THEOREM SuccessIsAnsweredInFull == Spec => []AnsweredInFull
<1>1. BackendInv => AnsweredInFull
  <2> SUFFICES ASSUME BackendInv, NEW c \in Calls, pc[c] = "ok"
               PROVE  \/ Len(prompts[c]) = 0 /\ heard[c] = <<>>
                      \/ Len(heard[c]) = 1 /\ Answered(heard[c][1])
                      \/ /\ Len(heard[c]) = Len(prompts[c]) + 1
                         /\ heard[c][1].status \in {400, 404, 405, 415, 422}
                         /\ \A i \in 2..(Len(prompts[c]) + 1) : Answered(heard[c][i])
    BY DEF AnsweredInFull
  <2>1. Stage(c)
    BY DEF BackendInv, Call
  <2>2. CASE prompts[c] = <<>> /\ heard[c] = <<>>
    BY <2>2, EmptySeq
  <2>3. CASE ByArray(c)
    BY <2>3 DEF ByArray
  <2>4. CASE Falling(c) /\ Len(readouts[c]) = Len(prompts[c])
    BY <2>4 DEF Falling, RequestShape
  <2>5. QED
    BY <2>1, <2>2, <2>3, <2>4 DEF Stage
<1>2. QED
  BY <1>1, BackendInvariant, PTL

-----------------------------------------------------------------------------
(* Token counts. *)

\* What a call has heard and what it holds come to the same number of tokens.
Accounted(c) ==
    pc[c] \in {"none", "array", "single", "ok"} =>
        SumFunction(TokenCounts(readouts[c])) = SumFunction(UsagesOf(heard[c]))

\* Nothing counts for nothing.
LEMMA CountsOfNothing ==
    SumFunction(TokenCounts(<<>>)) = 0 /\ SumFunction(UsagesOf(<<>>)) = 0
<1>1. DOMAIN TokenCounts(<<>>) = {} /\ DOMAIN UsagesOf(<<>>) = {}
  BY DEF TokenCounts, UsagesOf
<1>2. QED
  BY <1>1, SumOfFunction, SumOfNothing

\* One readout more.
LEMMA TokensOfOneMore ==
    ASSUME NEW S, NEW rs \in Seq(S), NEW r, \A x \in S \cup {r} : x.prompt_tokens \in Int
    PROVE  SumFunction(TokenCounts(Append(rs, r)))
              = SumFunction(TokenCounts(rs)) + r.prompt_tokens
<1> DEFINE n == Len(rs)
           t == Append(rs, r)
           f == TokenCounts(rs)
           g == TokenCounts(t)
<1>1. /\ n \in Nat /\ DOMAIN rs = 1..n /\ DOMAIN t = 1..(n + 1)
      /\ \A i \in 1..n : t[i] = rs[i] /\ rs[i] \in S
      /\ t[n + 1] = r
  OBVIOUS
<1>2. /\ \A i \in 1..(n + 1) : g[i] \in Int
      /\ \A i \in 1..n : g[i] = f[i]
      /\ g[n + 1] = r.prompt_tokens
      /\ DOMAIN f = 1..n /\ DOMAIN g = 1..(n + 1)
  BY <1>1 DEF TokenCounts
<1> HIDE DEF n, f, g, t
<1>3. SumFunctionOnSet(g, 1..(n + 1)) = SumFunctionOnSet(f, 1..n) + g[n + 1]
  BY <1>1, <1>2, SumAppended
<1>4. QED
  BY <1>2, <1>3, SumOfFunction DEF f, g, t

\* One reply more.
LEMMA UsageOfOneMore ==
    ASSUME NEW h \in Seq(AllReplies), NEW a \in AllReplies
    PROVE  /\ SumFunction(UsagesOf(Append(h, a)))
                = SumFunction(UsagesOf(h)) + IF Answered(a) THEN a.usage ELSE 0
           /\ SumFunction(UsagesOf(h)) \in Int
<1> DEFINE n == Len(h)
           t == Append(h, a)
           f == UsagesOf(h)
           g == UsagesOf(t)
<1>0. \A x \in AllReplies : Answered(x) => x.usage \in Int
  BY RepliesAre, StatusesAssumption DEF AllReplies, Answered
<1>1. /\ n \in Nat /\ DOMAIN h = 1..n /\ DOMAIN t = 1..(n + 1)
      /\ \A i \in 1..n : t[i] = h[i] /\ h[i] \in AllReplies
      /\ t[n + 1] = a
  OBVIOUS
<1>2. /\ \A i \in 1..(n + 1) : g[i] \in Int
      /\ \A i \in 1..n : g[i] = f[i] /\ f[i] \in Int
      /\ g[n + 1] = IF Answered(a) THEN a.usage ELSE 0
      /\ DOMAIN f = 1..n /\ DOMAIN g = 1..(n + 1)
  BY <1>0, <1>1 DEF UsagesOf
<1> HIDE DEF n, f, g, t
<1>3. SumFunctionOnSet(g, 1..(n + 1)) = SumFunctionOnSet(f, 1..n) + g[n + 1]
  BY <1>1, <1>2, SumAppended
<1>4. SumFunctionOnSet(f, 1..n) \in Int
  BY <1>1, <1>2, FS_Interval, SumIsInt
<1>5. QED
  BY <1>2, <1>3, <1>4, SumOfFunction DEF f, g, t

\* The readouts of a batch carry its usage between them.
LEMMA BatchCarriesUsage ==
    ASSUME NEW ps, NEW cs, DOMAIN cs = 1..Len(ps), Len(ps) \in Nat \ {0}, NEW usage \in Nat
    PROVE  SumFunction(TokenCounts(BatchReadouts(ps, cs, usage))) = usage
<1> DEFINE n == Len(ps)
           f == TokenCounts(BatchReadouts(ps, cs, usage))
<1>1. /\ DOMAIN f = 1..n
      /\ \A i \in 1..n : f[i] = BatchUsage(i, usage)
  BY DEF TokenCounts, BatchReadouts, Reads
<1>2. /\ \A i \in 1..n : f[i] \in Int
      /\ 1 \in 1..n /\ f[1] = usage /\ \A i \in (1..n) \ {1} : f[i] = 0
  BY <1>1 DEF BatchUsage
<1> HIDE DEF f
<1>3. IsFiniteSet(1..n) /\ IsFiniteSet((1..n) \ {1})
  <2>1. n \in Int
    OBVIOUS
  <2> HIDE DEF n
  <2>2. IsFiniteSet(1..n)
    BY <2>1, FS_Interval
  <2>3. QED
    BY <2>2, FS_Subset
<1>4. SumFunctionOnSet(f, 1..n) = f[1] + SumFunctionOnSet(f, (1..n) \ {1})
  BY <1>2, <1>3, SumWithout
<1>5. SumFunctionOnSet(f, (1..n) \ {1}) = 0
  BY <1>2, <1>3, SumOfZeros
<1>6. QED
  BY <1>1, <1>2, <1>4, <1>5, SumOfFunction DEF f

\* A call that does not move keeps its account.
LEMMA AccountStays ==
    ASSUME NEW c \in Calls, Accounted(c), Same(c)
    PROVE  Accounted(c)'
  BY DEF Accounted, Same, TokenCounts, UsagesOf, Answered

\* The step of one call keeps its account.
LEMMA AccountKept ==
    ASSUME BackendInv, NEW c \in Calls, Accounted(c), StepOf(c)
    PROVE  Accounted(c)'
<1>0. Families /\ IsBatch(prompts[c]) /\ Stage(c)
  BY DEF BackendInv, Call
<1>1. ASSUME NEW ps \in Batches[c], TokenLogprobsBatch(c, ps)
      PROVE  Accounted(c)'
  <2>1. /\ pc[c] = "none" /\ readouts'[c] = readouts[c] /\ heard'[c] = heard[c]
    BY <1>1 DEF TokenLogprobsBatch
  <2>2. QED
    BY <2>1 DEF Accounted, TokenCounts, UsagesOf, Answered
<1>2. CASE ArrayAnswered(c)
  <2>1. prompts[c] # <<>> /\ heard[c] = <<>>
    BY <1>0, <1>2 DEF Stage, ArrayAnswered
  <2>2. Len(prompts[c]) \in Nat \ {0} /\ Len(prompts[c]) \in DOMAIN ChoiceLists
    BY <1>0, <2>1, BatchLength
  <2>3. PICK a \in RepliesTo(Len(prompts[c])) :
           /\ a.status = 200
           /\ pc'[c] = BatchVerdict(a.choices, Len(prompts[c]))
           /\ pc'[c] = "ok" =>
                readouts'[c] = BatchReadouts(prompts[c], a.choices, a.usage)
           /\ heard'[c] = Append(<<>>, a)
    BY <1>0, <1>2, <2>1 DEF ArrayAnswered, Families, Hears
  <2>4. a \in AllReplies /\ a.usage \in Nat /\ a.choices \in ChoiceLists[Len(prompts[c])]
    BY <2>2, <2>3, RepliesAre, StatusesAssumption
  <2>5. SumFunction(UsagesOf(heard'[c])) = a.usage
    <3>1. SumFunction(UsagesOf(Append(<<>>, a))) = SumFunction(UsagesOf(<<>>)) + a.usage
      <4>1. Answered(a) /\ <<>> \in Seq(AllReplies)
        BY <2>3, EmptySeq DEF Answered
      <4>2. QED
        BY <2>4, <4>1, UsageOfOneMore
    <3>2. QED
      BY <2>3, <2>4, <3>1, CountsOfNothing
  <2>6. CASE pc'[c] = "ok"
    <3>1. a.choices \in Seq(WireChoices) /\ Len(a.choices) = Len(prompts[c])
      <4>1. BatchVerdict(a.choices, Len(prompts[c])) = "ok"
        BY <2>3, <2>6
      <4>2. a.choices \notin {NoChoices, NotJson} /\ Len(a.choices) = Len(prompts[c])
        BY <4>1, Verdicts
      <4>3. QED
        BY <2>2, <2>4, <4>2, ChoiceListsAssumption
    <3>2. DOMAIN a.choices = 1..Len(prompts[c])
      BY <3>1
    <3>3. SumFunction(TokenCounts(readouts'[c])) = a.usage
      BY <2>2, <2>3, <2>4, <2>6, <3>2, BatchCarriesUsage
    <3>4. QED
      BY <2>5, <3>3 DEF Accounted, TokenCounts, UsagesOf, Answered
  <2>7. CASE pc'[c] # "ok"
    BY <2>3, <2>7, Verdicts DEF Accounted
  <2>8. QED
    BY <2>6, <2>7
<1>3. CASE FallBack(c)
  <2>1. prompts[c] # <<>> /\ heard[c] = <<>> /\ readouts[c] = <<>>
    BY <1>0, <1>3 DEF Stage, FallBack
  <2>2. Len(prompts[c]) \in DOMAIN ChoiceLists
    BY <1>0, <2>1, BatchLength
  <2>3. PICK a \in RepliesTo(Len(prompts[c])) :
           /\ a.status \in RequestShape
           /\ readouts'[c] = <<>> /\ heard'[c] = Append(<<>>, a)
    BY <1>0, <1>3, <2>1 DEF FallBack, Families, Hears
  <2>4. a \in AllReplies /\ ~Answered(a)
    BY <2>2, <2>3, RepliesAre DEF RequestShape, Answered
  <2>5. SumFunction(UsagesOf(Append(<<>>, a))) = 0 + 0
    BY <2>4, EmptySeq, UsageOfOneMore, CountsOfNothing
  <2>6. QED
    BY <2>3, <2>5, CountsOfNothing DEF Accounted, TokenCounts, UsagesOf, Answered
<1>4. CASE SingleAnswered(c)
  <2>1. pc[c] = "single" /\ Falling(c)
    BY <1>0, <1>4 DEF Stage, SingleAnswered
  <2>2. PICK a \in RepliesTo(1) :
           /\ SingleVerdict(a) = "ok"
           /\ readouts'[c] = Append(readouts[c],
                  Reads(prompts[c][Len(readouts[c]) + 1], a.usage))
           /\ heard'[c] = Append(heard[c], a)
    BY <1>0, <1>4 DEF SingleAnswered, Families, Hears
  <2>3. Answered(a)
    BY <2>2 DEF SingleVerdict, Answered
  <2>4. a \in AllReplies /\ a.usage \in Nat
    BY <2>2, <2>3, RepliesAre, ChoiceListsAssumption, StatusesAssumption DEF Answered
  <2>5. SumFunction(UsagesOf(heard'[c])) = SumFunction(UsagesOf(heard[c])) + a.usage
    BY <2>1, <2>2, <2>3, <2>4, UsageOfOneMore DEF Falling
  <2>6. SumFunction(TokenCounts(readouts'[c])) = SumFunction(TokenCounts(readouts[c])) + a.usage
    <3> DEFINE S == [prompt : Range(prompts[c]), prompt_tokens : Usages \cup {0}]
               r == Reads(prompts[c][Len(readouts[c]) + 1], a.usage)
    <3>1. readouts[c] \in Seq(S) /\ r.prompt_tokens = a.usage
      BY <2>1 DEF Falling, Reads
    <3>2. \A x \in S \cup {r} : x.prompt_tokens \in Int
      <4>1. \A x \in S : x.prompt_tokens \in Int
        <5>1. \A x \in S : x.prompt_tokens \in Usages \cup {0}
          OBVIOUS
        <5>2. Usages \cup {0} \subseteq Int
          BY StatusesAssumption
        <5> HIDE DEF S
        <5>3. QED
          BY <5>1, <5>2
      <4>2. r.prompt_tokens \in Int
        BY <2>4, <3>1
      <4> HIDE DEF S, r
      <4>3. QED
        BY <4>1, <4>2
    <3> HIDE DEF S, r
    <3>3. SumFunction(TokenCounts(Append(readouts[c], r)))
             = SumFunction(TokenCounts(readouts[c])) + r.prompt_tokens
      BY <3>1, <3>2, TokensOfOneMore
    <3>4. QED
      BY <2>2, <3>1, <3>3 DEF r
  <2>7. QED
    BY <2>1, <2>5, <2>6 DEF Accounted, TokenCounts, UsagesOf, Answered
<1>5. CASE ArrayFailed(c) \/ SingleFailed(c) \/ DropFuture(c)
  <2>1. pc'[c] \notin {"none", "array", "single", "ok"}
    BY <1>0, <1>5 DEF ArrayFailed, SingleFailed, SingleVerdict, TopLogprobs, DropFuture, Families
  <2>2. QED
    BY <2>1 DEF Accounted
<1>6. QED
  BY <1>1, <1>2, <1>3, <1>4, <1>5 DEF StepOf

\* Summing the readouts of a call that succeeds gives the tokens the endpoint
\* reported with the answers they came from, in one batch or one by one.
THEOREM TokensAreConserved == Spec => []UsageConserved
<1> DEFINE AllAccounted == \A c \in Calls : Accounted(c)
<1>1. Init => AllAccounted
  BY CountsOfNothing DEF Init, Accounted
<1>2. BackendInv /\ AllAccounted /\ [Next]_vars => AllAccounted'
  <2> SUFFICES ASSUME BackendInv, AllAccounted, [Next]_vars, NEW d \in Calls
               PROVE  Accounted(d)'
    OBVIOUS
  <2>1. ASSUME NEW c \in Calls, StepOf(c)
        PROVE  Accounted(d)'
    <3>1. CASE c = d
      BY <2>1, <3>1, AccountKept
    <3>2. CASE c # d
      BY <2>1, <3>2, OneCall, AccountStays DEF BackendInv
    <3>3. QED
      BY <3>1, <3>2
  <2>2. CASE UNCHANGED vars
    BY <2>2, AccountStays DEF vars, Same
  <2>3. QED
    BY <2>1, <2>2 DEF Next, StepOf
<1>3. AllAccounted => UsageConserved
  BY DEF Accounted, UsageConserved
<1> HIDE DEF AllAccounted
<1>4. QED
  BY <1>1, <1>2, <1>3, BackendInvariant, PTL DEF Spec

-----------------------------------------------------------------------------
(* The trait's promise. *)

\* What the endpoint may say of the order is true, or refused.
HonestOrder ==
    \A n \in DOMAIN ChoiceLists : \A cs \in ChoiceLists[n] :
        BatchVerdict(cs, n) = "ok" => Trustworthy(cs)

StatusView == [c \in Calls |-> Status(c)]
Returned(c) == IF pc[c] = "ok" THEN readouts[c] ELSE <<>>
ReturnedView == [c \in Calls |-> Returned(c)]

\* A sequence is the function of its elements.
LEMMA ElementsOf ==
    ASSUME NEW S, NEW rs \in Seq(S)
    PROVE  rs = [i \in 1..Len(rs) |-> rs[i]] /\ \A i \in 1..Len(rs) : rs[i] \in S
  OBVIOUS

\* Readouts in prompt order are what the trait promises.
LEMMA InTheService ==
    ASSUME NEW ps, IsBatch(ps), NEW rs, InPromptOrder(rs, ps)
    PROVE  rs \in Service!ReadoutsOf(ps)
<1>1. Len(ps) \in Nat /\ DOMAIN ps = 1..Len(ps) /\ Range(ps) = {ps[i] : i \in 1..Len(ps)}
  BY DEF IsBatch, Range
<1>2. rs \in Seq([prompt : Range(ps), prompt_tokens : Usages \cup {0}]) /\ Len(rs) = Len(ps)
  BY DEF InPromptOrder
<1>3. /\ rs = [i \in 1..Len(ps) |-> rs[i]]
      /\ \A i \in 1..Len(ps) : rs[i] \in [prompt : Range(ps), prompt_tokens : Usages \cup {0}]
  BY <1>2, ElementsOf
<1>4. \A i \in 1..Len(ps) : rs[i].prompt = ps[i]
  BY <1>1, <1>2 DEF InPromptOrder
<1> DEFINE Readouts == {Service!Readout(p, n) : p \in {ps[i] : i \in 1..Len(ps)}, n \in Usages \cup {0}}
<1>5. ASSUME NEW i \in 1..Len(ps)
      PROVE  rs[i] \in Readouts
  <2>1. rs[i] = Service!Readout(ps[i], rs[i].prompt_tokens) /\ rs[i].prompt_tokens \in Usages \cup {0}
    BY <1>3, <1>4 DEF Service!Readout
  <2>2. QED
    BY <2>1
<1>6. rs \in [1..Len(ps) -> Readouts]
  <2> HIDE DEF Readouts
  <2>1. QED
    BY <1>3, <1>5
<1>7. QED
  BY <1>4, <1>6 DEF Service!ReadoutsOf

\* The views of the other calls stay.
LEMMA ViewsOfOneCall ==
    ASSUME BackendInv, NEW c \in Calls, StepOf(c)
    PROVE  /\ StatusView' = [StatusView EXCEPT ![c] = Status(c)']
           /\ ReturnedView' = [ReturnedView EXCEPT ![c] = Returned(c)']
<1>1. \A d \in Calls : d # c => Same(d)
  BY OneCall DEF BackendInv
<1>2. \A d \in Calls : d # c => Status(d)' = Status(d) /\ Returned(d)' = Returned(d)
  BY <1>1 DEF Same, Status, Returned
<1>3. QED
  BY <1>2 DEF StatusView, ReturnedView

\* A step that the caller does not see.
LEMMA Unseen ==
    ASSUME BackendInv, NEW c \in Calls, StepOf(c),
           Status(c)' = Status(c), Returned(c)' = Returned(c)
    PROVE  StatusView' = StatusView /\ ReturnedView' = ReturnedView
<1>1. StatusView[c] = Status(c) /\ ReturnedView[c] = Returned(c)
  BY DEF StatusView, ReturnedView
<1>2. QED
  BY <1>1, ViewsOfOneCall DEF StatusView, ReturnedView

\* A call that is over and seen to have failed.
LEMMA SeenToFail ==
    ASSUME BackendInv, NEW c \in Calls, StepOf(c), prompts' = prompts,
           pc[c] \in {"array", "single"}, pc'[c] \in {"Http", "Decode", "NoLogprobs"}
    PROVE  Service!Fail(c)
<1>1. /\ Status(c) = "pending" /\ Status(c)' = "failed"
      /\ Returned(c) = <<>> /\ Returned(c)' = <<>>
  BY DEF Status, Returned
<1>2. StatusView[c] = "pending" /\ StatusView' = [StatusView EXCEPT ![c] = "failed"]
  BY <1>1, ViewsOfOneCall DEF StatusView
<1>3. ReturnedView' = ReturnedView
  BY <1>1, ViewsOfOneCall DEF ReturnedView
<1>4. QED
  BY <1>2, <1>3 DEF Service!Fail, StatusView, ReturnedView, Returned

\* A call that is over and seen to be answered.
LEMMA SeenToAnswer ==
    ASSUME BackendInv, NEW c \in Calls, StepOf(c), prompts' = prompts,
           pc[c] \in {"array", "single"}, pc'[c] = "ok",
           InPromptOrder(readouts'[c], prompts[c])
    PROVE  \E rs \in Service!ReadoutsOf(prompts[c]) : Service!Answer(c, rs)
<1>1. /\ Status(c) = "pending" /\ Status(c)' = "answered"
      /\ Returned(c)' = readouts'[c]
  BY DEF Status, Returned
<1>2. StatusView[c] = "pending" /\ StatusView' = [StatusView EXCEPT ![c] = "answered"]
  BY <1>1, ViewsOfOneCall DEF StatusView
<1>3. ReturnedView' = [ReturnedView EXCEPT ![c] = readouts'[c]]
  BY <1>1, ViewsOfOneCall
<1>4. PICK rs \in Service!ReadoutsOf(prompts[c]) : rs = readouts'[c]
  BY InTheService DEF BackendInv, Call
<1>5. Service!Answer(c, rs)
  BY <1>2, <1>3, <1>4 DEF Service!Answer, StatusView, ReturnedView, Returned
<1>6. QED
  BY <1>5

\* Every step is one of the trait's, or none.
LEMMA StepsOfTheService ==
    ASSUME HonestOrder, BackendInv, NEW c \in Calls, StepOf(c)
    PROVE  [Service!ServiceNext]_Service!serviceVars
<1> DEFINE Seen == \/ \E ps \in UNION {Batches[d] : d \in Calls} : Service!Ask(c, ps)
                   \/ \E rs \in Service!ReadoutsOf(prompts[c]) : Service!Answer(c, rs)
                   \/ Service!Fail(c)
                   \/ Service!Abandon(c)
<1> DEFINE Same0 == prompts' = prompts /\ StatusView' = StatusView /\ ReturnedView' = ReturnedView
<1>0. Families /\ IsBatch(prompts[c]) /\ Stage(c) /\ BackendInv'
  BY BackendKeeps DEF BackendInv, Call, Next, StepOf
<1>1. ASSUME NEW ps \in Batches[c], TokenLogprobsBatch(c, ps)
      PROVE  Seen
  <2>1. /\ pc[c] = "none" /\ readouts[c] = <<>> /\ readouts'[c] = <<>>
        /\ prompts' = [prompts EXCEPT ![c] = ps]
        /\ pc'[c] = IF ps = <<>> THEN "ok" ELSE "array"
    BY <1>0, <1>1 DEF TokenLogprobsBatch, Families, Stage
  <2>2. /\ Status(c) = "none"
        /\ Status(c)' = IF ps = <<>> THEN "answered" ELSE "pending"
        /\ Returned(c) = <<>> /\ Returned(c)' = <<>>
    BY <2>1 DEF Status, Returned
  <2>3. /\ StatusView[c] = "none"
        /\ StatusView' = [StatusView EXCEPT ![c] = IF ps = <<>> THEN "answered" ELSE "pending"]
    BY <2>2, ViewsOfOneCall DEF StatusView
  <2>4. ReturnedView' = ReturnedView
    BY <2>2, ViewsOfOneCall DEF ReturnedView
  <2>5. Service!Ask(c, ps)
    BY <2>1, <2>3, <2>4 DEF Service!Ask, StatusView, ReturnedView, Returned
  <2>6. QED
    BY <2>5
<1>2. CASE ArrayAnswered(c)
  <2>1. pc[c] = "array" /\ prompts' = prompts
    BY <1>2 DEF ArrayAnswered
  <2>2. Len(prompts[c]) \in DOMAIN ChoiceLists
    BY <1>0, <2>1, BatchLength DEF Stage
  <2>3. PICK a \in RepliesTo(Len(prompts[c])) :
           /\ a.status = 200
           /\ pc'[c] = BatchVerdict(a.choices, Len(prompts[c]))
           /\ pc'[c] = "ok" =>
                readouts'[c] = BatchReadouts(prompts[c], a.choices, a.usage)
    BY <1>0, <1>2, <2>1 DEF ArrayAnswered, Families, Stage
  <2>4. a.usage \in Usages /\ a.choices \in ChoiceLists[Len(prompts[c])]
    BY <2>2, <2>3, RepliesAre
  <2>5. CASE pc'[c] = "ok"
    <3>1. Trustworthy(a.choices)
      <4>1. BatchVerdict(a.choices, Len(prompts[c])) = "ok"
        BY <2>3, <2>5
      <4>2. QED
        BY <2>2, <2>4, <4>1 DEF HonestOrder
    <3>2. BatchVerdict(a.choices, Len(prompts[c])) = "ok"
      BY <2>3, <2>5
    <3>3. InPromptOrder(BatchReadouts(prompts[c], a.choices, a.usage), prompts[c])
      BY <1>0, <2>2, <2>4, <3>1, <3>2, BatchInPromptOrder
    <3>4. InPromptOrder(readouts'[c], prompts[c])
      BY <2>3, <2>5, <3>3
    <3>5. Seen
      BY <2>1, <2>5, <3>4, SeenToAnswer
    <3>6. QED
      BY <3>5 DEF Service!ServiceNext
  <2>6. CASE pc'[c] # "ok"
    <3>1. pc'[c] \in {"Decode", "NoLogprobs"}
      BY <2>3, <2>6, Verdicts
    <3>2. Seen
      BY <2>1, <3>1, SeenToFail
    <3>3. QED
      BY <3>2 DEF Service!ServiceNext
  <2>7. QED
    BY <2>5, <2>6
<1>3. ASSUME FallBack(c)
      PROVE  Same0
  <2>1. pc[c] = "array" /\ pc'[c] = "single" /\ prompts' = prompts
    BY <1>0, <1>3 DEF FallBack, Families
  <2>2. QED
    BY <2>1, Unseen DEF Status, Returned
<1>4. ASSUME ArrayFailed(c)
      PROVE  Seen
  <2>1. pc[c] = "array" /\ pc'[c] = "Http" /\ prompts' = prompts
    BY <1>0, <1>4 DEF ArrayFailed, Families
  <2>2. QED
    BY <2>1, SeenToFail
<1>5. ASSUME SingleAnswered(c)
      PROVE  Seen \/ Same0
  <2>1. /\ pc[c] = "single" /\ prompts' = prompts
        /\ pc'[c] = IF Len(readouts'[c]) = Len(prompts[c]) THEN "ok" ELSE "single"
    BY <1>0, <1>5 DEF SingleAnswered, Families
  <2>2. CASE pc'[c] = "ok"
    <3>1. Falling(c)'
      BY <1>5, SingleFalls
    <3>2. InPromptOrder(readouts'[c], prompts[c])
      BY <2>1, <2>2, <3>1 DEF Falling, InPromptOrder
    <3>3. QED
      BY <2>1, <2>2, <3>2, SeenToAnswer
  <2>3. CASE pc'[c] = "single"
    BY <2>1, <2>3, Unseen DEF Status, Returned
  <2>4. QED
    BY <2>1, <2>2, <2>3
<1>6. ASSUME SingleFailed(c)
      PROVE  Seen
  <2>1. /\ pc[c] = "single" /\ prompts' = prompts
        /\ \E a \in RepliesTo(1) : SingleVerdict(a) # "ok" /\ pc'[c] = SingleVerdict(a)
    BY <1>0, <1>6 DEF SingleFailed, Families
  <2>2. pc'[c] \in {"Http", "Decode", "NoLogprobs"}
    BY <2>1 DEF SingleVerdict, TopLogprobs
  <2>3. QED
    BY <2>1, <2>2, SeenToFail
<1>7. ASSUME DropFuture(c)
      PROVE  Seen
  <2>1. pc[c] \in {"array", "single"} /\ pc'[c] = "dropped" /\ prompts' = prompts
    BY <1>0, <1>7 DEF DropFuture, Families
  <2>2. /\ Status(c) = "pending" /\ Status(c)' = "abandoned"
        /\ Returned(c) = <<>> /\ Returned(c)' = <<>>
    BY <2>1 DEF Status, Returned
  <2>3. StatusView[c] = "pending" /\ StatusView' = [StatusView EXCEPT ![c] = "abandoned"]
    BY <2>2, ViewsOfOneCall DEF StatusView
  <2>4. ReturnedView' = ReturnedView
    BY <2>2, ViewsOfOneCall DEF ReturnedView
  <2>5. Service!Abandon(c)
    BY <2>1, <2>3, <2>4 DEF Service!Abandon, StatusView, ReturnedView, Returned
  <2>6. QED
    BY <2>5
<1>8. Same0 => UNCHANGED Service!serviceVars
  BY DEF Service!serviceVars, StatusView, ReturnedView, Returned
<1>9. Seen => Service!ServiceNext
  BY DEF Service!ServiceNext
<1>10. QED
  <2> HIDE DEF Seen, Same0
  <2>1. QED
    BY <1>1, <1>2, <1>3, <1>4, <1>5, <1>6, <1>7, <1>8, <1>9 DEF StepOf

\* For an endpoint that tells no falsehood about the order, the backend keeps
\* the promise of its trait: one readout per prompt, in order, or an error.
THEOREM RefinesReadoutService ==
    ASSUME HonestOrder
    PROVE  Spec => ImplementsReadoutService
<1>1. Init => Service!ServiceInit
  <2> SUFFICES ASSUME Init PROVE Service!ServiceInit
    OBVIOUS
  <2>1. \A c \in Calls : Status(c) = "none" /\ pc[c] # "ok"
    BY DEF Init, Status
  <2>2. QED
    BY <2>1 DEF Init, Service!ServiceInit
<1>2. BackendInv /\ [Next]_vars => [Service!ServiceNext]_Service!serviceVars
  <2> SUFFICES ASSUME BackendInv, [Next]_vars
               PROVE  [Service!ServiceNext]_Service!serviceVars
    OBVIOUS
  <2>1. CASE \E c \in Calls : StepOf(c)
    BY <2>1, StepsOfTheService
  <2>2. CASE UNCHANGED vars
    BY <2>2 DEF vars, Service!serviceVars, Status
  <2>3. QED
    BY <2>1, <2>2 DEF Next, StepOf
<1>3. QED
  BY <1>1, <1>2, BackendInvariant, PTL DEF Spec, ImplementsReadoutService, Service!ServiceSpec

-----------------------------------------------------------------------------
(* The percentiles of the benchmark. *)

\* The samples up to a value, and those below it.
UpTo(s, v) == {i \in DOMAIN s : s[i] <= v}
Below(s, v) == {i \in DOMAIN s : s[i] < v}

\* The samples on either side of a hundredfold value.
Higher(s, v) == {i \in DOMAIN s : 100 * s[i] > v}
Lower(s, v) == {i \in DOMAIN s : 100 * s[i] < v}

\* Samples are finitely many numbers.
LEMMA Samples ==
    ASSUME NEW s \in Seq(Nat)
    PROVE  /\ Len(s) \in Nat /\ DOMAIN s = 1..Len(s) /\ Range(s) \subseteq Nat
           /\ \A i \in DOMAIN s : s[i] \in Nat /\ s[i] \in Range(s)
           /\ IsFiniteSet(DOMAIN s) /\ Cardinality(DOMAIN s) = Len(s)
<1>1. Len(s) \in Nat /\ DOMAIN s = 1..Len(s)
  OBVIOUS
<1>2. Range(s) \subseteq Nat /\ \A i \in DOMAIN s : s[i] \in Nat /\ s[i] \in Range(s)
  BY DEF Range
<1>3. IsFiniteSet(DOMAIN s) /\ Cardinality(DOMAIN s) = Len(s)
  BY <1>1, FS_Interval
<1>4. QED
  BY <1>1, <1>2, <1>3

\* So are those on one side of a value.
LEMMA SamplesOnOneSide ==
    ASSUME NEW s \in Seq(Nat), NEW T \in SUBSET DOMAIN s
    PROVE  IsFiniteSet(T) /\ Cardinality(T) \in Nat /\ Cardinality(T) <= Len(s)
  BY Samples, FS_Subset, FS_CardinalityType

\* There is a k-th sample: the least of those that k samples do not exceed.
LEMMA SortedIs ==
    ASSUME NEW s \in Seq(Nat), NEW k \in 1..Len(s)
    PROVE  /\ Sorted(s, k) \in Nat
           /\ Cardinality(Below(s, Sorted(s, k))) < k
           /\ k <= Cardinality(UpTo(s, Sorted(s, k)))
<1> DEFINE enough == {v \in Range(s) : k <= Cardinality(UpTo(s, v))}
           D == DOMAIN s
<1>1. /\ Len(s) \in Nat /\ D = 1..Len(s) /\ Range(s) \subseteq Nat
      /\ \A i \in D : s[i] \in Nat /\ s[i] \in Range(s)
      /\ IsFiniteSet(D) /\ Cardinality(D) = Len(s)
  BY Samples
<1>2. enough # {}
  <2>1. D # {} /\ \A i \in D : s[i] \in Int
    BY <1>1
  <2>2. PICK x \in D : \A y \in D : s[y] <= s[x]
    <3> HIDE DEF D
    <3>1. QED
      BY <1>1, <2>1, LargestExists
  <2>3. UpTo(s, s[x]) = D /\ s[x] \in Range(s)
    BY <1>1, <2>2 DEF UpTo
  <2>4. k <= Cardinality(UpTo(s, s[x]))
    BY <1>1, <2>3
  <2>5. QED
    BY <2>3, <2>4
<1>3. enough \subseteq Int /\ IsFiniteSet(enough)
  <2>1. IsFiniteSet(Range(s))
    <3>1. Range(s) = {s[i] : i \in D}
      BY DEF Range
    <3>2. s \in [D -> Range(s)]
      BY <1>1
    <3>3. s \in Surjection(D, Range(s))
      BY <3>1, <3>2 DEF Surjection
    <3> HIDE DEF D
    <3>4. QED
      BY <1>1, <3>3, FS_Surjection
  <2>2. enough \subseteq Range(s)
    OBVIOUS
  <2>3. QED
    BY <1>1, <2>1, <2>2, FS_Subset
<1>4. PICK v \in enough : \A w \in enough : v <= w
  <2> HIDE DEF enough
  <2>1. QED
    BY <1>2, <1>3, LeastElement
<1>5. v \in Nat /\ v \in Range(s) /\ k <= Cardinality(UpTo(s, v)) /\ k \in Nat
  BY <1>1
<1>6. Cardinality(Below(s, v)) < k
  <2> SUFFICES ASSUME ~(Cardinality(Below(s, v)) < k) PROVE FALSE
    OBVIOUS
  <2>1. Cardinality(Below(s, v)) \in Nat /\ IsFiniteSet(Below(s, v))
    BY SamplesOnOneSide DEF Below
  <2>2. Below(s, v) # {}
    BY <1>5, <2>1, FS_EmptySet
  <2>3. \A i \in Below(s, v) : s[i] \in Int
    BY <1>1 DEF Below
  <2>4. PICK x \in Below(s, v) : \A y \in Below(s, v) : s[y] <= s[x]
    BY <2>1, <2>2, <2>3, LargestExists
  <2>5. x \in D /\ s[x] < v /\ s[x] \in Nat /\ s[x] \in Range(s)
    BY <1>1, <2>4 DEF Below
  <2>6. UpTo(s, s[x]) = Below(s, v)
    <3>1. \A i \in D : s[i] <= s[x] <=> s[i] < v
      BY <1>1, <1>5, <2>4, <2>5 DEF Below
    <3>2. QED
      BY <3>1 DEF UpTo, Below
  <2>7. s[x] \in enough
    BY <1>5, <2>1, <2>5, <2>6
  <2>8. QED
    BY <1>4, <1>5, <2>5, <2>7
<1>7. \E w \in Range(s) : /\ Cardinality({i \in DOMAIN s : s[i] < w}) < k
                          /\ k <= Cardinality({i \in DOMAIN s : s[i] <= w})
  BY <1>5, <1>6 DEF Below, UpTo
<1>8. QED
  BY <1>1, <1>7 DEF Sorted, Below, UpTo

\* Later samples of the sorted ones are not smaller.
LEMMA SortedRises ==
    ASSUME NEW s \in Seq(Nat), NEW j \in 1..Len(s), NEW k \in 1..Len(s), j <= k
    PROVE  Sorted(s, j) <= Sorted(s, k)
<1> DEFINE u == Sorted(s, j)
           v == Sorted(s, k)
<1>1. /\ u \in Nat /\ v \in Nat
      /\ Cardinality(Below(s, u)) < j /\ k <= Cardinality(UpTo(s, v))
  BY SortedIs
<1> HIDE DEF u, v
<1> SUFFICES ASSUME v < u PROVE FALSE
  BY <1>1 DEF u, v
<1>2. UpTo(s, v) \subseteq Below(s, u)
  <2>1. \A i \in DOMAIN s : s[i] \in Nat
    OBVIOUS
  <2>2. QED
    BY <1>1, <2>1 DEF UpTo, Below
<1>3. /\ IsFiniteSet(Below(s, u)) /\ Cardinality(Below(s, u)) \in Nat
      /\ Cardinality(UpTo(s, v)) \in Nat
  BY SamplesOnOneSide DEF Below, UpTo
<1>4. Cardinality(UpTo(s, v)) <= Cardinality(Below(s, u))
  BY <1>2, <1>3, FS_Subset
<1>5. QED
  BY <1>1, <1>3, <1>4

\* A percentile lies between two neighbours of the sorted samples.
LEMMA PercentileIs ==
    ASSUME NEW s \in Seq(Nat), Len(s) >= 1, NEW p \in 0..99
    PROVE  LET l == (p * (Len(s) - 1)) \div 100
               w == (p * (Len(s) - 1)) % 100
               P == Percentile(s, p)
           IN  /\ l \in Nat /\ w \in 0..99 /\ 100 * l + w = p * (Len(s) - 1)
               /\ l + 1 \in 1..Len(s) /\ P \in Nat
               /\ P = 100 * Sorted(s, l + 1) + IF w = 0 THEN 0
                        ELSE w * (Sorted(s, l + 2) - Sorted(s, l + 1))
               /\ w # 0 => l + 2 \in 1..Len(s)
<1> DEFINE n == Len(s)
           a == p * (n - 1)
           l == a \div 100
           w == a % 100
           P == Percentile(s, p)
<1>1. n \in Nat /\ n >= 1 /\ s # <<>> /\ p \in Nat /\ p <= 99
  BY EmptySeq
<1>2. a \in Nat /\ a <= 99 * (n - 1)
  BY <1>1
<1>3. l \in Nat /\ w \in 0..99 /\ 100 * l + w = a
  <2> HIDE DEF a
  <2>1. QED
    BY <1>2
<1>4. l + 1 \in 1..n /\ (w # 0 => l + 2 \in 1..n)
  <2> HIDE DEF a, l, w, n
  <2>1. QED
    BY <1>1, <1>2, <1>3
<1>5. P = IF w = 0 THEN 100 * Sorted(s, l + 1)
          ELSE Sorted(s, l + 1) * (100 - w) + Sorted(s, l + 2) * w
  BY <1>1 DEF Percentile
<1>6. Sorted(s, l + 1) \in Nat /\ (w # 0 => Sorted(s, l + 2) \in Nat
                                       /\ Sorted(s, l + 1) <= Sorted(s, l + 2))
  <2> HIDE DEF l, w
  <2>1. l + 1 <= l + 2
    BY <1>3
  <2>2. QED
    BY <1>4, <2>1, SortedIs, SortedRises
<1> HIDE DEF l, w, a, P
<1>7. CASE w = 0
  BY <1>1, <1>3, <1>4, <1>5, <1>6, <1>7 DEF l, w, a, P
<1>8. CASE w # 0
  <2> DEFINE x == Sorted(s, l + 1)
             y == Sorted(s, l + 2)
  <2>1. x \in Nat /\ y \in Nat /\ x <= y /\ P = x * (100 - w) + y * w
    BY <1>5, <1>6, <1>8
  <2> HIDE DEF x, y
  <2>2. w \in Nat /\ w * (y - x) \in Nat /\ P = 100 * x + w * (y - x)
    BY <1>3, <2>1
  <2>3. P \in Nat
    BY <2>1, <2>2
  <2>4. QED
    BY <1>1, <1>3, <1>4, <1>8, <2>2, <2>3 DEF l, w, a, P, x, y, n
<1>9. QED
  BY <1>7, <1>8

\* A value between two neighbours of the sorted samples.
LEMMA BetweenNeighbours ==
    ASSUME NEW x \in Nat, NEW y \in Nat, x <= y, NEW w \in 0..99
    PROVE  /\ 100 * x <= 100 * x + w * (y - x)
           /\ 100 * x + w * (y - x) <= 100 * y
           /\ w * (y - x) \in Nat
           /\ \A v \in 0..99 : w <= v => w * (y - x) <= v * (y - x)
  OBVIOUS

\* What lies above a percentile is what is left of the samples, and what lies
\* below it does not reach the next one.
LEMMA AroundPercentile ==
    ASSUME NEW s \in Seq(Nat), Len(s) >= 1, NEW p \in 0..99
    PROVE  LET l == (p * (Len(s) - 1)) \div 100
               w == (p * (Len(s) - 1)) % 100
               above == Cardinality(Higher(s, Percentile(s, p)))
               below == Cardinality(Lower(s, Percentile(s, p)))
           IN  /\ above \in Nat /\ below \in Nat
               /\ above + l + 1 <= Len(s)
               /\ below <= IF w = 0 THEN l ELSE l + 1
<1> DEFINE n == Len(s)
           l == (p * (n - 1)) \div 100
           w == (p * (n - 1)) % 100
           P == Percentile(s, p)
           x == Sorted(s, l + 1)
           y == Sorted(s, l + 2)
           above == Higher(s, P)
           below == Lower(s, P)
<1>1. /\ l \in Nat /\ w \in 0..99 /\ l + 1 \in 1..n /\ P \in Nat
      /\ P = 100 * x + IF w = 0 THEN 0 ELSE w * (y - x)
      /\ w # 0 => l + 2 \in 1..n
  BY PercentileIs
<1>2. /\ n \in Nat /\ IsFiniteSet(DOMAIN s) /\ Cardinality(DOMAIN s) = n
      /\ \A i \in DOMAIN s : s[i] \in Nat
  BY Samples
<1> HIDE DEF l, w, P, n
<1>3. x \in Nat /\ Cardinality(Below(s, x)) < l + 1 /\ l + 1 <= Cardinality(UpTo(s, x))
  BY <1>1, SortedIs DEF n
<1>4. w # 0 => y \in Nat /\ Cardinality(Below(s, y)) < l + 2 /\ x <= y
  <2> SUFFICES ASSUME w # 0 PROVE y \in Nat /\ Cardinality(Below(s, y)) < l + 2 /\ x <= y
    OBVIOUS
  <2>1. l + 1 \in 1..Len(s) /\ l + 2 \in 1..Len(s) /\ l + 1 <= l + 2
    BY <1>1 DEF n
  <2>2. QED
    BY <2>1, SortedIs, SortedRises
<1> HIDE DEF x, y
<1>5. 100 * x <= P /\ (w = 0 => P = 100 * x) /\ (w # 0 => P <= 100 * y)
  <2>1. CASE w = 0
    BY <1>1, <1>3, <2>1
  <2>2. CASE w # 0
    <3>1. 100 * x <= 100 * x + w * (y - x) /\ 100 * x + w * (y - x) <= 100 * y
      BY <1>1, <1>3, <1>4, <2>2, BetweenNeighbours
    <3>2. QED
      BY <1>1, <2>2, <3>1
  <2>3. QED
    BY <2>1, <2>2
<1>6. Cardinality(above) \in Nat /\ Cardinality(below) \in Nat /\ IsFiniteSet(above)
  BY SamplesOnOneSide DEF Higher, Lower
<1>7. Cardinality(above) + l + 1 <= n
  <2> DEFINE U == UpTo(s, x)
  <2>1. U \subseteq DOMAIN s
    BY DEF UpTo
  <2>2. IsFiniteSet(U) /\ Cardinality(U) \in Nat
    BY <2>1, SamplesOnOneSide
  <2>3. above \subseteq DOMAIN s \ U
    BY <1>1, <1>2, <1>3, <1>5 DEF UpTo, Higher
  <2>4. Cardinality(DOMAIN s \ U) = n - Cardinality((DOMAIN s) \cap U)
        /\ IsFiniteSet(DOMAIN s \ U)
    BY <1>2, FS_Difference
  <2>5. (DOMAIN s) \cap U = U
    BY <2>1
  <2>6. Cardinality(above) <= Cardinality(DOMAIN s \ U)
    BY <2>3, <2>4, FS_Subset
  <2> DEFINE a == Cardinality(above)
             b == Cardinality(DOMAIN s \ U)
             c == Cardinality(U)
  <2>7. a \in Nat /\ a <= b /\ b = n - c /\ c \in Nat /\ l + 1 <= c
    BY <1>3, <1>6, <2>2, <2>4, <2>5, <2>6
  <2> HIDE DEF a, b, c
  <2>8. a + l + 1 <= n
    BY <1>1, <1>2, <2>7
  <2>9. QED
    BY <2>8 DEF a
<1>8. Cardinality(below) <= IF w = 0 THEN l ELSE l + 1
  <2>1. CASE w = 0
    <3>1. below \subseteq Below(s, x) /\ Below(s, x) \subseteq DOMAIN s
      BY <1>1, <1>2, <1>3, <1>5, <2>1 DEF Below, Lower
    <3>2. Cardinality(below) <= Cardinality(Below(s, x)) /\ Cardinality(Below(s, x)) \in Nat
      BY <3>1, SamplesOnOneSide, FS_Subset
    <3> HIDE DEF below
    <3>3. QED
      BY <1>1, <1>3, <1>6, <2>1, <3>2
  <2>2. CASE w # 0
    <3>1. below \subseteq Below(s, y) /\ Below(s, y) \subseteq DOMAIN s
      BY <1>1, <1>2, <1>4, <1>5, <2>2 DEF Below, Lower
    <3>2. Cardinality(below) <= Cardinality(Below(s, y)) /\ Cardinality(Below(s, y)) \in Nat
      BY <3>1, SamplesOnOneSide, FS_Subset
    <3> HIDE DEF below
    <3>3. QED
      BY <1>1, <1>4, <1>6, <2>2, <3>2
  <2>3. QED
    BY <2>1, <2>2
<1>9. QED
  BY <1>6, <1>7, <1>8 DEF l, w, P, n

\* A higher percentile is not below a lower one.
LEMMA PercentilesRise ==
    ASSUME NEW s \in Seq(Nat), Len(s) >= 1, NEW p \in 0..99, NEW q \in 0..99, p <= q
    PROVE  Percentile(s, p) <= Percentile(s, q)
<1> DEFINE n == Len(s)
           l == (p * (n - 1)) \div 100
           w == (p * (n - 1)) % 100
           P == Percentile(s, p)
           m == (q * (n - 1)) \div 100
           v == (q * (n - 1)) % 100
           R == Percentile(s, q)
           x == Sorted(s, l + 1)
           y == Sorted(s, l + 2)
           t == Sorted(s, m + 1)
           u == Sorted(s, m + 2)
<1>1. /\ l \in Nat /\ w \in 0..99 /\ 100 * l + w = p * (n - 1)
      /\ l + 1 \in 1..n /\ P \in Nat
      /\ P = 100 * x + IF w = 0 THEN 0 ELSE w * (y - x)
      /\ w # 0 => l + 2 \in 1..n
  BY PercentileIs
<1>2. /\ m \in Nat /\ v \in 0..99 /\ 100 * m + v = q * (n - 1)
      /\ m + 1 \in 1..n /\ R \in Nat
      /\ R = 100 * t + IF v = 0 THEN 0 ELSE v * (u - t)
      /\ v # 0 => m + 2 \in 1..n
  BY PercentileIs
<1>3. n \in Nat /\ n >= 1 /\ p * (n - 1) <= q * (n - 1)
  <2>1. n \in Nat /\ n >= 1
    OBVIOUS
  <2> HIDE DEF n
  <2>2. p * (n - 1) <= q * (n - 1)
    BY <2>1
  <2>3. QED
    BY <2>1, <2>2
<1> HIDE DEF l, w, m, v, P, R
<1>4. l <= m /\ (l = m => w <= v)
  <2> DEFINE a == p * (n - 1)
             b == q * (n - 1)
  <2>1. a <= b /\ a \in Int /\ b \in Int /\ 100 * l + w = a /\ 100 * m + v = b
    BY <1>1, <1>2, <1>3
  <2> HIDE DEF a, b
  <2>2. QED
    BY <1>1, <1>2, <2>1
<1>5. x \in Nat /\ t \in Nat
  BY <1>1, <1>2, SortedIs
<1>6. w # 0 => y \in Nat /\ x <= y
  <2> SUFFICES ASSUME w # 0 PROVE y \in Nat /\ x <= y
    OBVIOUS
  <2>1. l + 2 \in 1..Len(s) /\ l + 1 \in 1..Len(s) /\ l + 1 <= l + 2
    BY <1>1
  <2>2. QED
    BY <2>1, SortedIs, SortedRises
<1>7. v # 0 => u \in Nat /\ t <= u
  <2> SUFFICES ASSUME v # 0 PROVE u \in Nat /\ t <= u
    OBVIOUS
  <2>1. m + 2 \in 1..Len(s) /\ m + 1 \in 1..Len(s) /\ m + 1 <= m + 2
    BY <1>2
  <2>2. QED
    BY <2>1, SortedIs, SortedRises
<1>8. 100 * t <= R
  <2>1. v # 0 => 100 * t <= 100 * t + v * (u - t)
    BY <1>2, <1>5, <1>7, BetweenNeighbours
  <2> HIDE DEF t, u
  <2>2. QED
    BY <1>2, <1>5, <2>1
<1>9. CASE l = m
  <2>1. x = t /\ y = u
    BY <1>9
  <2>2. w # 0 => v # 0 /\ w * (u - t) <= v * (u - t)
    <3>0. w <= v /\ w \in Nat /\ v \in Nat
      BY <1>1, <1>2, <1>4, <1>9
    <3>1. w # 0 => v # 0
      BY <3>0
    <3>2. QED
      BY <1>1, <1>2, <1>5, <1>7, <3>0, <3>1, BetweenNeighbours
  <2>3. CASE w = 0
    <3>1. P = 100 * t
      BY <1>1, <1>5, <2>1, <2>3
    <3>2. QED
      BY <1>8, <3>1 DEF P, R
  <2>4. CASE w # 0
    <3>1. w * (u - t) \in Nat /\ v * (u - t) \in Nat
      BY <1>1, <1>2, <1>5, <1>7, <2>2, <2>4, BetweenNeighbours
    <3>2. P = 100 * t + w * (u - t) /\ R = 100 * t + v * (u - t)
      BY <1>1, <1>2, <2>1, <2>2, <2>4
    <3> HIDE DEF t, u
    <3>3. QED
      BY <1>5, <2>2, <2>4, <3>1, <3>2 DEF P, R
  <2>5. QED
    BY <2>3, <2>4
<1>10. CASE l < m
  <2>1. P <= 100 * t
    <3>1. CASE w = 0
      <4>1. x <= t
        BY <1>1, <1>2, <1>10, SortedRises
      <4> HIDE DEF x, t
      <4>2. QED
        BY <1>1, <1>5, <3>1, <4>1
    <3>2. CASE w # 0
      <4>1. y <= t
        <5>1. l + 2 <= m + 1 /\ l + 2 \in 1..Len(s) /\ m + 1 \in 1..Len(s)
          BY <1>1, <1>2, <1>10, <3>2
        <5>2. QED
          BY <5>1, SortedRises
      <4>2. P <= 100 * y
        BY <1>1, <1>5, <1>6, <3>2, BetweenNeighbours
      <4> HIDE DEF y, t
      <4>3. QED
        BY <1>1, <1>5, <1>6, <3>2, <4>1, <4>2
    <3>3. QED
      BY <3>1, <3>2
  <2> HIDE DEF t
  <2>2. QED
    BY <1>1, <1>2, <1>5, <1>8, <2>1 DEF P, R
<1>11. QED
  BY <1>1, <1>2, <1>4, <1>9, <1>10

\* A division by 100.
LEMMA HalfAndTwentieth ==
    ASSUME NEW n \in Nat, n >= 1, NEW l \in Nat, NEW w \in 0..99,
           NEW above \in Nat, above + l + 1 <= n
    PROVE  /\ 100 * l + w = 95 * (n - 1) => 20 * above <= n + 18
           /\ 100 * l + w = 50 * (n - 1) =>
                 /\ 2 * above <= n
                 /\ 2 * (IF w = 0 THEN l ELSE l + 1) <= n
<1>1. 100 * l + w = 95 * (n - 1) => 20 * above <= n + 18
  OBVIOUS
<1>2. 100 * l + w = 50 * (n - 1) => 2 * above <= n
  OBVIOUS
<1>3. 100 * l + w = 50 * (n - 1) => 2 * (IF w = 0 THEN l ELSE l + 1) <= n
  OBVIOUS
<1>4. QED
  BY <1>1, <1>2, <1>3

\* The published percentiles are those of the samples.
LEMMA TimingIsSound ==
    ASSUME NEW s \in Seq(Nat), Len(s) >= 1
    PROVE  SoundTiming(Timing(s))
<1> DEFINE n == Len(s)
<1>1. n \in Nat /\ n >= 1
  OBVIOUS
<1>2. Percentile(s, 50) <= Percentile(s, 95)
  BY PercentilesRise
<1>3. 20 * Cardinality(Higher(s, Percentile(s, 95))) <= n + 18
  <2> DEFINE l == (95 * (n - 1)) \div 100
             w == (95 * (n - 1)) % 100
             a == Cardinality(Higher(s, Percentile(s, 95)))
  <2>1. l \in Nat /\ w \in 0..99 /\ 100 * l + w = 95 * (n - 1)
    BY PercentileIs
  <2>2. a \in Nat /\ a + l + 1 <= n
    BY AroundPercentile
  <2> HIDE DEF l, w, a, n
  <2>3. 20 * a <= n + 18
    BY <1>1, <2>1, <2>2, HalfAndTwentieth
  <2>4. QED
    BY <2>3 DEF a
<1>4. 2 * Cardinality(Higher(s, Percentile(s, 50))) <= n /\ 2 * Cardinality(Lower(s, Percentile(s, 50))) <= n
  <2> DEFINE l == (50 * (n - 1)) \div 100
             w == (50 * (n - 1)) % 100
             a == Cardinality(Higher(s, Percentile(s, 50)))
             b == Cardinality(Lower(s, Percentile(s, 50)))
  <2>1. l \in Nat /\ w \in 0..99 /\ 100 * l + w = 50 * (n - 1)
    BY PercentileIs
  <2>2. a \in Nat /\ a + l + 1 <= n /\ b \in Nat /\ b <= IF w = 0 THEN l ELSE l + 1
    BY AroundPercentile
  <2> HIDE DEF l, w, a, b, n
  <2>3. 2 * a <= n /\ 2 * (IF w = 0 THEN l ELSE l + 1) <= n
    BY <1>1, <2>1, <2>2, HalfAndTwentieth
  <2>4. 2 * b <= n
    BY <1>1, <2>1, <2>2, <2>3
  <2>5. QED
    BY <2>3, <2>4 DEF a, b
<1>5. QED
  BY <1>2, <1>3, <1>4 DEF SoundTiming, Timing, Higher, Lower

-----------------------------------------------------------------------------
(* The benchmark's backend. *)

\* The call was refused as an array.
Fallen(c) == heard[c] # <<>> /\ heard[c][1].status \in RequestShape

\* The counter says how many calls were.
RefusalsCounted == fallbacks = Cardinality({c \in Calls : Fallen(c)})

\* One element more.
LEMMA OneMoreOf ==
    ASSUME NEW S, IsFiniteSet(S), NEW x \in S, NEW P, NEW R, P \subseteq S,
           x \notin P, R = P \cup {x}
    PROVE  Cardinality(R) = Cardinality(P) + 1
  BY FS_Subset, FS_AddElement

\* The step of one call keeps the count.
LEMMA RefusalsStayCounted ==
    ASSUME BackendInv, IsFiniteSet(Calls), RefusalsCounted, NEW c \in Calls, StepOf(c)
    PROVE  RefusalsCounted'
<1> DEFINE fallen == {d \in Calls : Fallen(d)}
           then == {d \in Calls : Fallen(d)'}
<1>0. /\ Families /\ IsBatch(prompts[c]) /\ Stage(c)
      /\ \A d \in Calls : d # c => heard'[d] = heard[d]
  BY OneCall DEF BackendInv, Call, Same
<1>1. \A d \in Calls : d # c => (Fallen(d)' <=> Fallen(d))
  BY <1>0 DEF Fallen
<1>2. CASE FallBack(c)
  <2>1. heard[c] = <<>> /\ prompts[c] # <<>>
    BY <1>0, <1>2 DEF Stage, FallBack
  <2>2. Len(prompts[c]) \in DOMAIN ChoiceLists
    BY <1>0, <2>1, BatchLength
  <2>3. PICK a \in RepliesTo(Len(prompts[c])) :
           a.status \in RequestShape /\ heard'[c] = Append(<<>>, a)
    BY <1>0, <1>2, <2>1 DEF FallBack, Families, Hears
  <2>4. a \in AllReplies
    BY <2>2, <2>3, RepliesAre
  <2>5. Fallen(c)' /\ ~Fallen(c)
    BY <2>1, <2>3, <2>4, HeardFirst DEF Fallen
  <2>6. fallen \subseteq Calls /\ c \notin fallen /\ then = fallen \cup {c}
    BY <1>1, <2>5
  <2> HIDE DEF fallen, then
  <2>7. Cardinality(then) = Cardinality(fallen) + 1
    BY <2>6, OneMoreOf
  <2>8. fallbacks' = fallbacks + 1
    BY <1>2 DEF FallBack, Counted
  <2>9. QED
    BY <2>7, <2>8 DEF RefusalsCounted, fallen, then
<1>3. ASSUME ~FallBack(c)
      PROVE  fallbacks' = fallbacks /\ (Fallen(c)' <=> Fallen(c))
  <2>1. CASE ArrayAnswered(c) \/ ArrayFailed(c)
    <3>1. heard[c] = <<>> /\ prompts[c] # <<>>
      BY <1>0, <2>1 DEF Stage, ArrayAnswered, ArrayFailed
    <3>2. Len(prompts[c]) \in DOMAIN ChoiceLists
      BY <1>0, <3>1, BatchLength
    <3>3. PICK a \in RepliesTo(Len(prompts[c])) :
             a.status \notin RequestShape /\ heard'[c] = Append(<<>>, a)
      BY <1>0, <2>1, <3>1 DEF ArrayAnswered, ArrayFailed, Families, Hears, RequestShape
    <3>4. a \in AllReplies
      BY <3>2, <3>3, RepliesAre
    <3>5. ~Fallen(c)' /\ ~Fallen(c)
      BY <3>1, <3>3, <3>4, HeardFirst DEF Fallen
    <3>6. QED
      BY <2>1, <3>5 DEF ArrayAnswered, ArrayFailed
  <2>2. CASE SingleAnswered(c) \/ SingleFailed(c)
    <3>1. Falling(c)
      BY <1>0, <2>2 DEF Stage, SingleAnswered, SingleFailed
    <3>2. PICK a \in RepliesTo(1) : heard'[c] = Append(heard[c], a)
      BY <1>0, <2>2 DEF SingleAnswered, SingleFailed, Families, Hears
    <3>3. a \in AllReplies
      BY <3>2, RepliesAre, ChoiceListsAssumption
    <3>4. heard[c] \in Seq(AllReplies) /\ Len(heard[c]) \in Nat /\ Len(heard[c]) >= 1
      <4>1. heard[c] \in Seq(AllReplies) /\ Len(heard[c]) = Len(readouts[c]) + 1
        BY <3>1 DEF Falling
      <4>2. Len(readouts[c]) \in Nat
        BY <3>1 DEF Falling
      <4>3. QED
        BY <4>1, <4>2
    <3>5. heard[c] # <<>> /\ heard'[c] # <<>> /\ heard'[c][1] = heard[c][1]
      BY <3>2, <3>3, <3>4, HeardOneMore, EmptySeq
    <3>6. QED
      BY <2>2, <3>5 DEF Fallen, SingleAnswered, SingleFailed
  <2>3. CASE DropFuture(c) \/ \E ps \in Batches[c] : TokenLogprobsBatch(c, ps)
    BY <2>3 DEF DropFuture, TokenLogprobsBatch, Fallen
  <2>4. QED
    BY <1>3, <2>1, <2>2, <2>3 DEF StepOf
<1>4. CASE ~FallBack(c)
  <2>1. then = fallen
    BY <1>1, <1>3, <1>4
  <2>2. QED
    BY <1>3, <1>4, <2>1 DEF RefusalsCounted
<1>5. QED
  BY <1>2, <1>4

BatchesInv == BackendInv /\ (\A c \in Calls : Accounted(c)) /\ RefusalsCounted

\* A new process has a backend that was never called.
LEMMA BatchesStart == Init => BatchesInv
<1> SUFFICES ASSUME Init PROVE BatchesInv
  OBVIOUS
<1>1. BackendInv
  BY BackendStarts
<1>2. \A c \in Calls : Accounted(c)
  BY CountsOfNothing DEF Init, Accounted
<1>3. {c \in Calls : Fallen(c)} = {} /\ fallbacks = 0
  BY DEF Init, Fallen
<1>4. QED
  BY <1>1, <1>2, <1>3, FS_EmptySet DEF BatchesInv, RefusalsCounted

\* A call's step keeps what is known of the backend.
LEMMA BatchesKeep ==
    ASSUME BatchesInv, NEW c \in Calls, StepOf(c)
    PROVE  BatchesInv' /\ \A d \in Calls : d # c => Same(d)
<1>1. IsFiniteSet(Calls)
  BY BenchAssumption, FS_Interval
<1>2. BackendInv'
  BY BackendKeeps DEF BatchesInv, Next, StepOf
<1>3. \A d \in Calls : d # c => Same(d)
  BY OneCall DEF BatchesInv, BackendInv
<1>4. \A d \in Calls : Accounted(d)'
  BY <1>3, AccountKept, AccountStays DEF BatchesInv
<1>5. RefusalsCounted'
  BY <1>1, RefusalsStayCounted DEF BatchesInv
<1>6. QED
  BY <1>2, <1>3, <1>4, <1>5 DEF BatchesInv

\* A call that stands still does, too.
LEMMA BatchesStay == BatchesInv /\ UNCHANGED vars => BatchesInv'
<1> SUFFICES ASSUME BatchesInv, UNCHANGED vars PROVE BatchesInv'
  OBVIOUS
<1>1. BackendInv'
  BY BackendKeeps DEF BatchesInv
<1>2. \A c \in Calls : Same(c)
  BY DEF vars, Same
<1>3. \A c \in Calls : Accounted(c)'
  BY <1>2, AccountStays DEF BatchesInv
<1>4. RefusalsCounted'
  BY DEF BatchesInv, RefusalsCounted, Fallen, vars
<1>5. QED
  BY <1>1, <1>3, <1>4 DEF BatchesInv

\* A batch that was read has a readout for every prompt, and its tokens add up.
LEMMA BatchIsRead ==
    ASSUME BatchesInv, NEW c \in Calls, pc[c] = "ok", prompts[c] = Prompts
    PROVE  /\ Len(readouts[c]) = Q
           /\ PromptTokens(readouts[c]) = SumFunction(UsagesOf(heard[c]))
           /\ PromptTokens(readouts[c]) \in Int
           /\ Fallen(c) <=> Len(heard[c]) > 1
<1>1. IsBatch(prompts[c]) /\ Stage(c) /\ Accounted(c)
  BY DEF BatchesInv, BackendInv, Call
<1>2. /\ heard[c] \in Seq(AllReplies) /\ heard[c] # <<>> /\ Len(readouts[c]) = Q
      /\ Fallen(c) <=> Len(heard[c]) > 1
  <2>1. CASE ByArray(c)
    BY <2>1, EmptySeq DEF ByArray, Answered, Q, Fallen, RequestShape
  <2>2. CASE Falling(c) /\ Len(readouts[c]) = Len(prompts[c])
    <3>1. heard[c] \in Seq(AllReplies) /\ Len(heard[c]) = Q + 1 /\ heard[c][1].status \in RequestShape
      BY <2>2 DEF Falling, Q
    <3>2. Q \in Nat \ {0}
      BY <1>1, BenchAssumption, BatchLength DEF Q
    <3>3. heard[c] # <<>> /\ Len(heard[c]) > 1
      BY <3>1, <3>2, EmptySeq
    <3>4. QED
      BY <2>2, <3>1, <3>3 DEF Fallen, Q
  <2>3. QED
    BY <1>1, <2>1, <2>2, BenchAssumption DEF Stage
<1>3. PromptTokens(readouts[c]) = SumFunction(UsagesOf(heard[c]))
  BY <1>1 DEF Accounted, PromptTokens
<1>4. SumFunction(UsagesOf(heard[c])) \in Int
  <2>1. heard[c][1] \in AllReplies
    BY <1>2, EmptySeq
  <2>2. QED
    BY <1>2, <2>1, UsageOfOneMore
<1>5. QED
  BY <1>2, <1>3, <1>4

-----------------------------------------------------------------------------
(* The benchmark. *)

Kept == Len(shared_ms)
Alive == stage \notin {"failed", "crashed"}
ByRepeat == [c \in Calls |-> PromptTokens(readouts[c])]

BenchTypes ==
    /\ stage \in {"fresh", "ask", "shared", "report", "writing", "done", "failed", "crashed"}
    /\ fresh_ms \in Seq(Nat) /\ shared_ms \in Seq(Nat) /\ ratios \in Seq(Int \X Nat)

\* How far both arms are.
Progress ==
    /\ Len(ratios) = Kept
    /\ coverage_total = Len(fresh_ms) + Q * Kept
    /\ stage = "fresh" => Q * Kept <= Len(fresh_ms) /\ Len(fresh_ms) < Q * (Kept + 1) /\ Kept < Repeats
    /\ stage \in {"ask", "shared"} => Len(fresh_ms) = Q * (Kept + 1) /\ Kept < Repeats
    /\ stage \in {"report", "writing", "done"} => Len(fresh_ms) = Q * Kept /\ Kept = Repeats

\* What a block took is what its requests took, and the rest.
BlockIs(r, x, y) == \E o, p \in 0..MaxOverhead : r = <<x + o, y + p>>

\* The repeats that are over.
Blocks ==
    /\ SumFunctionOnSet([i \in 1..Kept |-> OneByOne(fresh_ms, i)], 1..Kept)
          = SumFunctionOnSet(fresh_ms, 1..(Q * Kept))
    /\ \A i \in 1..Kept : shared_ms[i] > 0 /\ BlockIs(ratios[i], OneByOne(fresh_ms, i), shared_ms[i])

\* The batches that are over are answered, and their tokens are counted.
Answers ==
    /\ \A c \in Calls : c <= Kept => pc[c] = "ok" /\ prompts[c] = Prompts
    /\ stage = "shared" => prompts[Repeat] = Prompts
    /\ shared_prompt_tokens = SumFunctionOnSet(ByRepeat, 1..Kept)

BenchInv ==
    /\ BatchesInv /\ BenchTypes
    /\ Alive => Progress /\ Blocks /\ Answers

\* The constants.
LEMMA BenchFacts ==
    /\ Repeats \in Nat \ {0} /\ Calls = 1..Repeats /\ Durations \subseteq Nat \ {0}
    /\ Prompts # <<>> /\ \A c \in Calls : Batches[c] = {Prompts}
    /\ Q \in Nat \ {0} /\ MaxOverhead \in Nat /\ Overheads \subseteq 0..MaxOverhead
<1>1. 1 \in Calls
  BY BenchAssumption
<1>2. Batches[1] = {Prompts}
  BY <1>1, BenchAssumption
<1>3. IsBatch(Prompts)
  BY <1>1, <1>2, BatchesAssumption DEF IsBatch
<1>4. Q \in Nat \ {0}
  BY <1>3, BatchLength, BenchAssumption DEF Q
<1>5. QED
  BY <1>4, BenchAssumption

\* The next repeat's batch is a call of its own.
LEMMA RepeatIsACall ==
    ASSUME BenchTypes, Progress, stage \in {"ask", "shared"}
    PROVE  /\ Kept \in Nat /\ Repeat = Kept + 1 /\ Repeat \in Calls
           /\ \A c \in Calls : c <= Kept => c # Repeat
<1>1. Kept \in Nat /\ Repeat = Kept + 1 /\ Kept < Repeats
  BY DEF BenchTypes, Progress, Kept, Repeat
<1>2. QED
  BY <1>1, BenchFacts

\* The samples of a repeat that is over are among those of all that are.
LEMMA OneByOneIs ==
    ASSUME NEW k \in Nat, NEW s, NEW u, NEW i \in 1..k,
           \A j \in 1..(Q * k) : s[j] \in Int /\ u[j] = s[j]
    PROVE  OneByOne(s, i) \in Int /\ OneByOne(u, i) = OneByOne(s, i)
<1> DEFINE a == Q * (i - 1) + 1
           b == Q * i
           S == a..b
<1>1. Q \in Nat /\ a \in Int /\ b \in Int
  BY BenchFacts
<1>2. a >= 1 /\ b <= Q * k
  <2> DEFINE e == k - i
             h == i - 1
  <2>1. e \in Nat /\ k = i + e /\ h \in Nat
    OBVIOUS
  <2> HIDE DEF e
  <2>2. Q * k = Q * i + Q * e /\ Q * e \in Nat
    BY <1>1, <2>1
  <2> HIDE DEF h
  <2>3. Q * h \in Nat
    BY <1>1, <2>1
  <2>4. a = Q * h + 1
    BY DEF h
  <2>5. QED
    BY <1>1, <2>2, <2>3, <2>4
<1> HIDE DEF a, b
<1>3. IsFiniteSet(S)
  BY <1>1, FS_Interval
<1>4. \A j \in S : j \in 1..(Q * k)
  BY <1>1, <1>2, BenchFacts
<1>5. \A j \in S : s[j] \in Int /\ u[j] = s[j]
  BY <1>4
<1>6. OneByOne(s, i) = SumFunctionOnSet(s, S) /\ OneByOne(u, i) = SumFunctionOnSet(u, S)
  BY DEF OneByOne, a, b
<1> HIDE DEF S
<1>7. SumFunctionOnSet(s, S) \in Int /\ SumFunctionOnSet(u, S) = SumFunctionOnSet(s, S)
  BY <1>3, <1>5, SumIsInt, SumEqual
<1>8. QED
  BY <1>6, <1>7

Begun ==
    /\ stage = "fresh" /\ fresh_ms = <<>> /\ shared_ms = <<>> /\ ratios = <<>>
    /\ shared_prompt_tokens = 0 /\ coverage_total = 0

\* A run starts with nothing done.
LEMMA BenchBegins == BatchesInv /\ Begun => BenchInv
<1> SUFFICES ASSUME BatchesInv, Begun
             PROVE  BenchInv
  OBVIOUS
<1> USE DEF Begun
<1>1. BenchTypes
  BY EmptySeq DEF BenchTypes
<1>2. Kept = 0 /\ Len(fresh_ms) = 0 /\ Len(ratios) = 0
  BY EmptySeq DEF Kept
<1>3. Q * Kept = 0 /\ Q * (Kept + 1) = Q
  BY <1>2, BenchFacts
<1>4. Progress
  BY <1>2, <1>3, BenchFacts DEF Progress
<1>5. 1..Kept = {} /\ 1..(Q * Kept) = {}
  BY <1>2, <1>3
<1>6. Blocks
  BY <1>5, SumOfNothing DEF Blocks
<1>7. Answers
  BY <1>2, <1>5, SumOfNothing, BenchFacts DEF Answers
<1>8. QED
  BY <1>1, <1>4, <1>6, <1>7 DEF BenchInv

\* One sample more in the first arm.
LEMMA FreshKeeps ==
    ASSUME BenchInv, FreshAnswered
    PROVE  BenchInv'
<1>0. PICK t \in Durations : fresh_ms' = Append(fresh_ms, t)
  BY DEF FreshAnswered
<1>1. /\ BatchesInv /\ BenchTypes /\ Progress /\ Blocks /\ Answers
      /\ stage = "fresh"
  BY DEF BenchInv, Alive, FreshAnswered
<1>2. /\ Kept' = Kept /\ Kept \in Nat /\ Repeat = Kept + 1
      /\ shared_ms' = shared_ms /\ ratios' = ratios
      /\ stage' = IF Len(fresh_ms') = Q * (Kept + 1) THEN "ask" ELSE "fresh"
      /\ shared_prompt_tokens' = shared_prompt_tokens
      /\ coverage_total' = coverage_total + 1
  BY <1>1 DEF FreshAnswered, Kept, Repeat, BenchTypes
<1>3. BatchesInv'
  BY <1>1, BatchesStay DEF FreshAnswered
<1>4. /\ fresh_ms' \in Seq(Nat) /\ Len(fresh_ms') = Len(fresh_ms) + 1 /\ Len(fresh_ms) \in Nat
      /\ \A i \in 1..Len(fresh_ms) : fresh_ms'[i] = fresh_ms[i]
  BY <1>0, <1>1, BenchFacts DEF BenchTypes
<1>5. BenchTypes'
  BY <1>1, <1>2, <1>4 DEF BenchTypes
<1>6. Q * Kept \in Nat /\ Q * (Kept + 1) \in Nat
  BY <1>2, BenchFacts
<1>7. Progress'
  BY <1>1, <1>2, <1>4, <1>6 DEF Progress
<1>8. Blocks'
  <2>1. \A i \in 1..(Q * Kept) : fresh_ms'[i] = fresh_ms[i]
    <3> DEFINE m == Q * Kept
    <3>1. m \in Nat /\ m <= Len(fresh_ms)
      BY <1>1, <1>6 DEF Progress
    <3> HIDE DEF m
    <3>2. \A i \in 1..m : fresh_ms'[i] = fresh_ms[i]
      BY ONLY <1>4, <3>1
    <3>3. QED
      BY ONLY <3>2 DEF m
  <2>2. SumFunctionOnSet(fresh_ms', 1..(Q * Kept)) = SumFunctionOnSet(fresh_ms, 1..(Q * Kept))
    <3> DEFINE S == 1..(Q * Kept)
    <3>1. IsFiniteSet(S)
      BY <1>6, FS_Interval
    <3>2. \A i \in S : fresh_ms'[i] = fresh_ms[i]
      BY <2>1
    <3> HIDE DEF S
    <3>3. SumFunctionOnSet(fresh_ms', S) = SumFunctionOnSet(fresh_ms, S)
      BY <3>1, <3>2, SumEqual
    <3>4. QED
      BY <3>3 DEF S
  <2>3. \A i \in 1..Kept : OneByOne(fresh_ms', i) = OneByOne(fresh_ms, i)
    <3>1. \A j \in 1..(Q * Kept) : fresh_ms[j] \in Int
      BY <1>1, <1>6 DEF BenchTypes, Progress
    <3>2. QED
      BY <1>2, <2>1, <3>1, OneByOneIs
  <2>4. [i \in 1..Kept |-> OneByOne(fresh_ms', i)] = [i \in 1..Kept |-> OneByOne(fresh_ms, i)]
    BY <2>3
  <2>5. \A i \in 1..Kept : BlockIs(ratios[i], OneByOne(fresh_ms', i), shared_ms[i])
    BY <1>1, <2>3 DEF Blocks
  <2>6. QED
    BY <1>1, <1>2, <2>2, <2>4, <2>5 DEF Blocks
<1>9. Answers'
  BY <1>1, <1>2 DEF Answers, FreshAnswered, vars, ByRepeat
<1>10. QED
  BY <1>3, <1>5, <1>7, <1>8, <1>9 DEF BenchInv

\* A step of the batch under way leaves the others alone.
LEMMA SharedKeeps ==
    ASSUME BenchInv, AskBatch \/ BackendStep
    PROVE  BenchInv'
<1>1. /\ BatchesInv /\ BenchTypes /\ Progress /\ Blocks /\ Answers
      /\ stage \in {"ask", "shared"} /\ stage' = "shared"
      /\ UNCHANGED <<fresh_ms, shared_ms, shared_prompt_tokens, coverage_total, ratios>>
  BY DEF BenchInv, Alive, AskBatch, BackendStep, benchVars
<1>2. /\ Kept \in Nat /\ Repeat = Kept + 1 /\ Repeat \in Calls
      /\ \A c \in Calls : c <= Kept => c # Repeat
  BY <1>1, RepeatIsACall
<1>3. StepOf(Repeat)
  BY <1>2, BenchFacts DEF AskBatch, BackendStep, StepOf
<1>4. BatchesInv' /\ \A d \in Calls : d # Repeat => Same(d)
  BY <1>1, <1>2, <1>3, BatchesKeep
<1>5. BenchTypes' /\ Progress' /\ Blocks' /\ Kept' = Kept
  BY <1>1 DEF BenchTypes, Progress, Blocks, Kept
<1>6. prompts'[Repeat] = Prompts
  <2>1. Repeat \in DOMAIN prompts
    BY <1>1, <1>2 DEF BatchesInv, BackendInv, Families
  <2>2. CASE AskBatch
    BY <2>1, <2>2 DEF AskBatch, TokenLogprobsBatch
  <2>3. CASE BackendStep
    BY <1>1, <2>3 DEF BackendStep, ArrayAnswered, FallBack, ArrayFailed,
         SingleAnswered, SingleFailed, Answers
  <2>4. QED
    BY <2>2, <2>3
<1>7. \A c \in Calls : c <= Kept => pc'[c] = "ok" /\ prompts'[c] = Prompts
  BY <1>1, <1>2, <1>4 DEF Answers, Same
<1>8. SumFunctionOnSet(ByRepeat', 1..Kept) = SumFunctionOnSet(ByRepeat, 1..Kept)
  <2>1. \A c \in 1..Kept : c \in Calls /\ c <= Kept
    BY <1>1, <1>2, BenchFacts DEF Progress
  <2>2. \A c \in 1..Kept : ByRepeat'[c] = ByRepeat[c]
    BY <1>2, <1>4, <2>1 DEF ByRepeat, Same, PromptTokens, TokenCounts
  <2> DEFINE S == 1..Kept
  <2>3. IsFiniteSet(S)
    BY <1>2, FS_Interval
  <2>4. \A c \in S : ByRepeat'[c] = ByRepeat[c]
    BY <2>2
  <2> HIDE DEF S
  <2>5. SumFunctionOnSet(ByRepeat', S) = SumFunctionOnSet(ByRepeat, S)
    BY <2>3, <2>4, SumEqual
  <2>6. QED
    BY <2>5 DEF S
<1>9. Answers'
  BY <1>1, <1>2, <1>5, <1>6, <1>7, <1>8 DEF Answers, Repeat, Kept
<1>10. QED
  BY <1>4, <1>5, <1>9 DEF BenchInv

\* The block of fresh requests that ends with a repeat.
LEMMA FreshBlockIs ==
    ASSUME fresh_ms \in Seq(Nat), Kept \in Nat, Len(fresh_ms) = Q * (Kept + 1)
    PROVE  /\ OneByOne(fresh_ms, Repeat) \in Int
           /\ SumFunctionOnSet(fresh_ms, 1..(Q * (Kept + 1)))
                = SumFunctionOnSet(fresh_ms, 1..(Q * Kept)) + OneByOne(fresh_ms, Repeat)
<1> DEFINE a == Q * Kept
           b == Q * (Kept + 1)
           S == 1..a
           T == (a + 1)..b
<1>1. a \in Nat /\ b \in Nat /\ a <= b
  BY BenchFacts
<1>2. Repeat - 1 = Kept /\ Repeat = Kept + 1
  BY DEF Repeat, Kept
<1>3. OneByOne(fresh_ms, Repeat) = SumFunctionOnSet(fresh_ms, T)
  BY <1>2 DEF OneByOne
<1>4. \A i \in 1..b : fresh_ms[i] \in Int
  OBVIOUS
<1> HIDE DEF a, b
<1>5. IsFiniteSet(S) /\ IsFiniteSet(T) /\ S \cap T = {} /\ S \cup T = 1..b
  <2>1. a \in Int /\ b \in Int /\ a + 1 \in Int
    BY <1>1
  <2>2. IsFiniteSet(1..a) /\ IsFiniteSet((a + 1)..b)
    <3> DEFINE c == a + 1
    <3>1. c \in Int
      BY <2>1
    <3> HIDE DEF c
    <3>2. IsFiniteSet(1..a)
      BY <2>1, FS_Interval
    <3>3. IsFiniteSet(c..b)
      BY <2>1, <3>1, FS_Interval
    <3>4. QED
      BY <3>2, <3>3 DEF c
  <2>3. S \cap T = {} /\ S \cup T = 1..b
    BY <1>1
  <2>4. QED
    BY <2>2, <2>3
<1> HIDE DEF S, T
<1>6. SumFunctionOnSet(fresh_ms, S \cup T)
         = SumFunctionOnSet(fresh_ms, S) + SumFunctionOnSet(fresh_ms, T)
  BY <1>4, <1>5, SumOfBoth
<1>7. SumFunctionOnSet(fresh_ms, T) \in Int
  BY <1>4, <1>5, SumIsInt
<1>8. QED
  BY <1>3, <1>5, <1>6, <1>7 DEF S, a, b

\* The end of a repeat.
LEMMA RepeatKeeps ==
    ASSUME BenchInv, BatchAnswered
    PROVE  BenchInv'
<1> DEFINE block == OneByOne(fresh_ms, Repeat)
<1>0. PICK t \in Durations, o \in Overheads, p \in Overheads :
         shared_ms' = Append(shared_ms, t) /\ ratios' = Append(ratios, <<block + o, t + p>>)
  BY DEF BatchAnswered, BlocksOf
<1>1. /\ BatchesInv /\ BenchTypes /\ Progress /\ Blocks /\ Answers
      /\ stage = "shared" /\ pc[Repeat] = "ok" /\ prompts[Repeat] = Prompts
      /\ fresh_ms' = fresh_ms /\ stage' = AfterBatch
      /\ UNCHANGED vars
  BY DEF BenchInv, Alive, BatchAnswered, Answers
<1>2. /\ Kept \in Nat /\ Repeat = Kept + 1 /\ Repeat \in Calls
      /\ \A c \in Calls : c <= Kept => c # Repeat
  BY <1>1, RepeatIsACall
<1>3. BatchesInv'
  BY <1>1, BatchesStay
<1>4. Len(fresh_ms) = Q * (Kept + 1) /\ fresh_ms \in Seq(Nat)
  BY <1>1 DEF Progress, BenchTypes
<1>5. /\ block \in Int /\ block = OneByOne(fresh_ms, Kept + 1)
      /\ SumFunctionOnSet(fresh_ms, 1..(Q * (Kept + 1)))
           = SumFunctionOnSet(fresh_ms, 1..(Q * Kept)) + block
  BY <1>2, <1>4, FreshBlockIs
<1> HIDE DEF block
<1>6. /\ shared_ms' \in Seq(Nat) /\ Kept' = Kept + 1
      /\ \A i \in 1..Kept : shared_ms'[i] = shared_ms[i]
      /\ shared_ms'[Kept + 1] = t /\ t \in Nat /\ t > 0 /\ o \in 0..MaxOverhead /\ p \in 0..MaxOverhead
  BY <1>0, <1>1, BenchFacts DEF BenchTypes, Kept
<1>7. /\ ratios' \in Seq(Int \X Nat) /\ Len(ratios') = Kept + 1
      /\ \A i \in 1..Kept : ratios'[i] = ratios[i]
      /\ ratios'[Kept + 1] = <<block + o, t + p>>
  <2> DEFINE r == <<block + o, t + p>>
  <2>1. r \in Int \X Nat /\ ratios \in Seq(Int \X Nat) /\ Len(ratios) = Kept
    BY <1>1, <1>5, <1>6 DEF BenchTypes, Progress
  <2>2. ratios' = Append(ratios, r)
    BY <1>0
  <2> HIDE DEF r
  <2>3. /\ ratios' \in Seq(Int \X Nat) /\ Len(ratios') = Kept + 1
        /\ \A i \in 1..Kept : ratios'[i] = ratios[i]
        /\ ratios'[Kept + 1] = r
    BY <2>1, <2>2, <1>2
  <2>4. QED
    BY <2>3 DEF r
<1>8. BenchTypes'
  BY <1>1, <1>6, <1>7 DEF BenchTypes, AfterBatch
<1>9. /\ Len(readouts[Repeat]) = Q /\ PromptTokens(readouts[Repeat]) \in Int
  BY <1>1, <1>2, BatchIsRead
<1>10. Progress'
  <2>1. coverage_total' = coverage_total + Q
    BY <1>9 DEF BatchAnswered
  <2>2. /\ Q \in Nat \ {0} /\ Q * Kept \in Nat /\ Q * (Kept + 1) = Q * Kept + Q
        /\ Q * (Kept + 2) = Q * Kept + Q + Q
    BY <1>2, BenchFacts
  <2>3. Kept' + 1 = Kept + 2
    BY <1>2, <1>6
  <2>4. coverage_total' = Len(fresh_ms) + Q * (Kept + 1)
    BY <1>1, <1>4, <2>1, <2>2 DEF Progress
  <2>5. Kept < Repeats /\ Repeats \in Nat
    BY <1>1, BenchFacts DEF Progress
  <2>6. stage' = IF Kept + 1 < Repeats THEN "fresh" ELSE "report"
    BY <1>1, <1>2 DEF AfterBatch
  <2>7. Q * (Kept + 1) < Q * (Kept + 2)
    BY <2>2
  <2>8. Q * Kept' = Q * (Kept + 1) /\ Q * (Kept' + 1) = Q * (Kept + 2)
    BY <1>6, <2>3
  <2>9. QED
    BY <1>1, <1>2, <1>4, <1>6, <1>7, <2>4, <2>5, <2>6, <2>7, <2>8 DEF Progress
<1>11. Blocks'
  <2> DEFINE f == [i \in 1..Kept |-> OneByOne(fresh_ms, i)]
             g == [i \in 1..(Kept + 1) |-> OneByOne(fresh_ms, i)]
  <2>1. \A i \in 1..(Kept + 1) : OneByOne(fresh_ms, i) \in Int
    <3>1. \A j \in 1..(Q * (Kept + 1)) : fresh_ms[j] \in Int
      BY <1>4
    <3>2. QED
      BY <1>2, <3>1, OneByOneIs
  <2>2. /\ \A i \in 1..(Kept + 1) : g[i] \in Int
        /\ \A i \in 1..Kept : g[i] = f[i]
        /\ g[Kept + 1] = block
    BY <1>2, <1>5, <2>1
  <2> HIDE DEF f, g
  <2>3. SumFunctionOnSet(g, 1..(Kept + 1)) = SumFunctionOnSet(f, 1..Kept) + block
    BY <1>2, <2>2, SumAppended
  <2>4. SumFunctionOnSet(f, 1..Kept) = SumFunctionOnSet(fresh_ms, 1..(Q * Kept))
    BY <1>1 DEF Blocks, f
  <2>5. SumFunctionOnSet(g, 1..(Kept + 1)) = SumFunctionOnSet(fresh_ms, 1..(Q * (Kept + 1)))
    BY <1>5, <2>3, <2>4
  <2>6. \A i \in 1..(Kept + 1) :
           shared_ms'[i] > 0 /\ BlockIs(ratios'[i], OneByOne(fresh_ms, i), shared_ms'[i])
    <3>1. \A i \in 1..Kept :
             shared_ms'[i] > 0 /\ BlockIs(ratios'[i], OneByOne(fresh_ms, i), shared_ms'[i])
      BY <1>1, <1>6, <1>7 DEF Blocks
    <3>2. shared_ms'[Kept + 1] > 0 /\ BlockIs(ratios'[Kept + 1], block, shared_ms'[Kept + 1])
      BY <1>6, <1>7 DEF BlockIs
    <3>3. \A i \in 1..(Kept + 1) : i \in 1..Kept \/ i = Kept + 1
      BY <1>2
    <3>4. QED
      BY <1>5, <3>1, <3>2, <3>3
  <2>7. QED
    BY <1>1, <1>6, <2>5, <2>6 DEF Blocks, g
<1>12. Answers'
  <2>1. ByRepeat' = ByRepeat /\ pc' = pc /\ prompts' = prompts
    BY <1>1 DEF ByRepeat, vars
  <2>2. \A c \in 1..(Kept + 1) : c \in Calls /\ (c <= Kept \/ c = Repeat)
    BY <1>1, <1>2, BenchFacts
  <2>3. \A c \in 1..(Kept + 1) : pc[c] = "ok" /\ prompts[c] = Prompts
    BY <1>1, <2>2 DEF Answers
  <2>4. \A c \in 1..(Kept + 1) : ByRepeat[c] \in Int
    BY <1>1, <2>2, <2>3, BatchIsRead DEF ByRepeat
  <2> DEFINE f == ByRepeat
  <2> HIDE DEF f
  <2>5. SumFunctionOnSet(f, 1..(Kept + 1)) = SumFunctionOnSet(f, 1..Kept) + f[Kept + 1]
    <3>1. \A c \in 1..(Kept + 1) : f[c] \in Int
      BY <2>4 DEF f
    <3>2. QED
      BY <1>2, <3>1, SumAppended
  <2>6. shared_prompt_tokens' = shared_prompt_tokens + f[Kept + 1]
    BY <1>2 DEF BatchAnswered, ByRepeat, f
  <2>7. shared_prompt_tokens' = SumFunctionOnSet(ByRepeat', 1..(Kept + 1))
    BY <1>1, <2>1, <2>5, <2>6 DEF Answers, f
  <2>8. stage' # "shared"
    BY <1>1 DEF AfterBatch
  <2>9. \A c \in Calls : c <= Kept + 1 => c \in 1..(Kept + 1)
    BY <1>2, BenchFacts
  <2>10. QED
    BY <1>6, <2>1, <2>3, <2>7, <2>8, <2>9 DEF Answers
<1>13. QED
  BY <1>3, <1>8, <1>10, <1>11, <1>12 DEF BenchInv

\* No step of the benchmark breaks its invariant.
LEMMA BenchKeeps == BenchInv /\ [BenchNext]_allVars => BenchInv'
<1> SUFFICES ASSUME BenchInv, [BenchNext]_allVars
             PROVE  BenchInv'
  OBVIOUS
<1>1. CASE FreshAnswered
  BY <1>1, FreshKeeps
<1>2. CASE AskBatch \/ BackendStep
  BY <1>2, SharedKeeps
<1>3. CASE BatchAnswered
  BY <1>3, RepeatKeeps
<1>4. CASE FreshFails \/ BatchFails \/ Crash
  <2>1. BatchesInv'
    BY <1>4, BatchesStay DEF BenchInv, FreshFails, BatchFails, Crash
  <2>2. BenchTypes' /\ ~Alive'
    BY <1>4 DEF BenchInv, BenchTypes, Alive, FreshFails, BatchFails, AfterBatchFailure, Crash
  <2>3. QED
    BY <2>1, <2>2 DEF BenchInv
<1>5. CASE Truncate \/ Write
  <2>1. BatchesInv'
    BY <1>5, BatchesStay DEF BenchInv, Truncate, Write
  <2>2. /\ UNCHANGED <<vars, fresh_ms, shared_ms, shared_prompt_tokens, coverage_total, ratios>>
        /\ stage \in {"report", "writing"} /\ stage' \in {"writing", "done"}
    BY <1>5 DEF Truncate, Write
  <2>3. BenchTypes'
    BY <2>2 DEF BenchInv, BenchTypes
  <2>4. Progress /\ Blocks /\ Answers
    BY <2>2 DEF BenchInv, Alive
  <2>5. Kept' = Kept /\ ByRepeat' = ByRepeat
    BY <2>2 DEF Kept, ByRepeat, vars
  <2>6. Progress' /\ Blocks' /\ Answers'
    BY <2>2, <2>4, <2>5 DEF Progress, Blocks, Answers, vars
  <2>7. QED
    BY <2>1, <2>3, <2>6 DEF BenchInv
<1>6. CASE RunAgain
  <2>1. Init'
    BY <1>6 DEF RunAgain, Init
  <2>2. BatchesInv'
    <3>1. Init' => BatchesInv'
      BY BatchesStart, PTL
    <3>2. QED
      BY <2>1, <3>1
  <2>3. Begun'
    BY <1>6 DEF RunAgain, Begun
  <2>4. (BatchesInv /\ Begun)' => BenchInv'
    BY BenchBegins, PTL
  <2>5. QED
    BY <2>2, <2>3, <2>4
<1>7. CASE UNCHANGED allVars
  <2>1. BatchesInv'
    BY <1>7, BatchesStay DEF BenchInv, allVars
  <2>2. UNCHANGED <<vars, stage, fresh_ms, shared_ms, shared_prompt_tokens, coverage_total, ratios>>
    BY <1>7 DEF allVars, benchVars
  <2>3. BenchTypes' /\ (Alive' <=> Alive) /\ Kept' = Kept /\ ByRepeat' = ByRepeat /\ Repeat' = Repeat
    BY <2>2 DEF BenchInv, BenchTypes, Alive, Kept, ByRepeat, vars, Repeat
  <2>4. (Progress' <=> Progress) /\ (Blocks' <=> Blocks) /\ (Answers' <=> Answers)
    BY <2>2, <2>3 DEF Progress, Blocks, Answers, vars
  <2>5. QED
    BY <2>1, <2>3, <2>4 DEF BenchInv
<1>8. QED
  BY <1>1, <1>2, <1>3, <1>4, <1>5, <1>6, <1>7 DEF BenchNext

\* The invariant of the benchmark's runs.
LEMMA BenchInvariant == BenchSpec => []BenchInv
<1>1. BenchInit => BenchInv
  BY BatchesStart, BenchBegins DEF BenchInit, Begun
<1>2. QED
  BY <1>1, BenchKeeps, PTL DEF BenchSpec

\* The speedup is no smaller than every repeat's, and no larger.
LEMMA SpeedupBetween ==
    ASSUME NEW n \in Nat \ {0}, NEW f, NEW g,
           \A i \in 1..n : f[i] \in Int /\ g[i] \in Int
    PROVE  LET F == SumFunctionOnSet(f, 1..n) G == SumFunctionOnSet(g, 1..n) IN
           /\ \E i \in 1..n : f[i] * G <= F * g[i]
           /\ \E i \in 1..n : F * g[i] <= f[i] * G
<1> DEFINE S == 1..n
           F == SumFunctionOnSet(f, S)
           G == SumFunctionOnSet(g, S)
<1>1. IsFiniteSet(S) /\ Cardinality(S) = n /\ \A i \in S : f[i] \in Int /\ g[i] \in Int
  BY FS_Interval
<1> DEFINE d == -1
<1>0. d \in Int /\ n * d = -n
  OBVIOUS
<1> HIDE DEF S, d
<1>2. F \in Int /\ G \in Int
  BY <1>1, SumIsInt
<1> HIDE DEF F, G
<1>3. ASSUME \A i \in S : ~(f[i] * G <= F * g[i])
      PROVE  FALSE
  <2>1. \A i \in S : F * g[i] <= G * f[i] + d
    BY <1>1, <1>2, <1>3 DEF d
  <2>2. F * SumFunctionOnSet(g, S) <= G * SumFunctionOnSet(f, S) + Cardinality(S) * d
    BY <1>0, <1>1, <1>2, <2>1, SumWithin
  <2>3. F * G <= G * F + n * d
    BY <1>1, <2>2 DEF F, G
  <2>4. QED
    BY <1>0, <1>2, <2>3
<1>4. ASSUME \A i \in S : ~(F * g[i] <= f[i] * G)
      PROVE  FALSE
  <2>1. \A i \in S : G * f[i] <= F * g[i] + d
    BY <1>1, <1>2, <1>4 DEF d
  <2>2. G * SumFunctionOnSet(f, S) <= F * SumFunctionOnSet(g, S) + Cardinality(S) * d
    BY <1>0, <1>1, <1>2, <2>1, SumWithin
  <2>3. G * F <= F * G + n * d
    BY <1>1, <2>2 DEF F, G
  <2>4. QED
    BY <1>0, <1>2, <2>3
<1>5. QED
  BY <1>3, <1>4 DEF S, F, G

\* The samples of a repeat add up to a natural number.
LEMMA BlockIsNatural ==
    ASSUME NEW s \in Seq(Nat), Len(s) = Q * Repeats, NEW i \in 1..Repeats
    PROVE  OneByOne(s, i) \in Nat
<1> DEFINE a == Q * (i - 1) + 1
           b == Q * i
           S == a..b
<1>1. a \in Int /\ b \in Int /\ a >= 1 /\ b <= Q * Repeats
  <2> DEFINE e == Repeats - i
             h == i - 1
  <2>1. e \in Nat /\ Repeats = i + e /\ h \in Nat /\ Q \in Nat /\ a = Q * h + 1
    BY BenchFacts
  <2> HIDE DEF e, h
  <2>2. Q * Repeats = Q * i + Q * e /\ Q * e \in Nat /\ Q * h \in Nat /\ Q * i \in Nat
    BY <2>1
  <2>3. QED
    BY <2>1, <2>2
<1> HIDE DEF a, b
<1>2. IsFiniteSet(S)
  BY <1>1, FS_Interval
<1>3. \A j \in S : s[j] \in Nat
  <2>1. DOMAIN s = 1..(Q * Repeats)
    OBVIOUS
  <2>2. \A j \in S : j \in 1..(Q * Repeats)
    BY <1>1
  <2>3. QED
    BY <2>1, <2>2
<1>4. OneByOne(s, i) = SumFunctionOnSet(s, S)
  BY DEF OneByOne, a, b
<1> HIDE DEF S
<1>5. QED
  BY <1>2, <1>3, <1>4, SumOfNaturals

\* A quotient grows with its numerator and falls with its denominator.
LEMMA Widened ==
    ASSUME NEW x \in Nat, NEW y \in Nat, NEW m \in Nat, NEW o \in 0..m, NEW p \in 0..m
    PROVE  /\ x * (y + p) <= (x + o) * (y + m)
           /\ (x + o) * y <= (x + m) * (y + p)
<1>1. PICK r \in Nat : m = p + r
  BY m - p \in Nat
<1>2. PICK q \in Nat : m = o + q
  BY m - o \in Nat
<1>3. /\ (x + o) * (y + m) = x * (y + p) + x * r + o * (y + m)
      /\ x * r \in Nat /\ o * (y + m) \in Nat
  BY <1>1
<1>4. /\ (x + m) * (y + p) = (x + o) * y + (x + o) * p + q * (y + p)
      /\ (x + o) * p \in Nat /\ q * (y + p) \in Nat
  BY <1>2
<1>5. x * (y + p) \in Nat /\ (x + o) * y \in Nat
  OBVIOUS
<1>6. QED
  BY <1>3, <1>4, <1>5

\* What a run has to write is whole.
LEMMA WhatIsWrittenIsWhole ==
    ASSUME BenchInv, stage \in {"writing", "done"}
    PROVE  WholeReport(TheReport)
<1>1. BenchTypes /\ Progress /\ Blocks
  BY DEF BenchInv, Alive
<1>2. /\ Kept = Repeats /\ Len(fresh_ms) = Q * Repeats /\ Len(shared_ms) = Repeats
      /\ fresh_ms \in Seq(Nat) /\ shared_ms \in Seq(Nat)
      /\ ratios \in Seq(Int \X Nat) /\ Len(ratios) = Repeats
  BY <1>1 DEF BenchTypes, Progress, Kept
<1>3. Q * Repeats \in Nat /\ Q * Repeats >= 1
  BY BenchFacts
<1>4. SoundTiming(Timing(fresh_ms)) /\ SoundTiming(Timing(shared_ms))
  BY <1>2, <1>3, BenchFacts, TimingIsSound
<1>5. coverage_total = 2 * Q * Repeats
  <2>1. coverage_total = Q * Repeats + Q * Repeats
    BY <1>1, <1>2 DEF Progress
  <2>2. 2 * Q * Repeats = Q * Repeats + Q * Repeats
    BY BenchFacts
  <2>3. QED
    BY <2>1, <2>2
<1> DEFINE f == [i \in 1..Repeats |-> OneByOne(fresh_ms, i)]
           F == SumFunctionOnSet(f, 1..Repeats)
           G == SumFunctionOnSet(shared_ms, 1..Repeats)
<1>6. Total(fresh_ms) = F /\ Total(shared_ms) = G
  <2>1. DOMAIN fresh_ms = 1..(Q * Repeats) /\ DOMAIN shared_ms = 1..Repeats
    BY <1>2
  <2>2. QED
    BY <1>1, <1>2, <2>1, SumOfFunction DEF Total, Blocks
<1>7. \A i \in 1..Repeats : /\ shared_ms[i] \in Nat /\ shared_ms[i] > 0
                            /\ BlockIs(ratios[i], f[i], shared_ms[i])
                            /\ f[i] \in Int /\ f[i] = OneByOne(fresh_ms, i)
  <2>1. \A j \in 1..(Q * Repeats) : fresh_ms[j] \in Int
    BY <1>2
  <2>2. \A i \in 1..Repeats : OneByOne(fresh_ms, i) \in Int
    BY <2>1, BenchFacts, OneByOneIs
  <2>3. QED
    BY <1>1, <1>2, <2>2 DEF Blocks
<1>8. G \in Nat /\ G > 0
  <2>1. 1 \in 1..Repeats
    BY BenchFacts
  <2>2. IsFiniteSet(1..Repeats)
    BY BenchFacts, FS_Interval
  <2>3. G \in Nat /\ shared_ms[1] <= G
    BY <1>7, <2>1, <2>2, SumOfNaturals
  <2> HIDE DEF G
  <2>4. QED
    BY <1>7, <2>1, <2>3
<1> DEFINE n == Repeats
<1>9. /\ \E i \in 1..n : f[i] * G <= F * shared_ms[i]
      /\ \E i \in 1..n : F * shared_ms[i] <= f[i] * G
  <2> HIDE DEF f
  <2>1. \A i \in 1..n : f[i] \in Int /\ shared_ms[i] \in Int
    BY <1>7
  <2>2. QED
    BY <2>1, BenchFacts, SpeedupBetween
<1>10. TheReport.speedup = <<F, G>>
  BY <1>6, <1>8 DEF TheReport, Quotient
<1> DEFINE rs == [i \in DOMAIN ratios |-> Quotient(ratios[i][1], ratios[i][2])]
<1>11. TheReport.ratios = rs /\ DOMAIN rs = 1..Repeats /\ Len(rs) = Repeats
  <2>1. DOMAIN rs = 1..Repeats
    BY <1>2
  <2>2. Len(rs) = Repeats
    BY <1>2, <2>1
  <2>3. QED
    BY <2>1, <2>2 DEF TheReport
<1>12. ASSUME NEW i \in 1..Repeats
       PROVE  /\ Leq(<<f[i], shared_ms[i] + MaxOverhead>>, rs[i])
              /\ Leq(rs[i], <<f[i] + MaxOverhead, shared_ms[i]>>)
  <2>1. PICK o \in 0..MaxOverhead, p \in 0..MaxOverhead : ratios[i] = <<f[i] + o, shared_ms[i] + p>>
    BY <1>7 DEF BlockIs
  <2>2. /\ f[i] \in Nat /\ shared_ms[i] \in Nat /\ shared_ms[i] > 0
        /\ o \in Nat /\ p \in Nat /\ o <= MaxOverhead /\ p <= MaxOverhead /\ MaxOverhead \in Nat
    <3>1. f[i] \in Nat
      BY <1>2, <1>7, BlockIsNatural
    <3>2. QED
      BY <1>7, <3>1, BenchFacts
  <2>3. rs[i] = <<f[i] + o, shared_ms[i] + p>>
    <3>1. i \in DOMAIN ratios
      BY <1>2
    <3>2. rs[i] = Quotient(f[i] + o, shared_ms[i] + p)
      BY <2>1, <3>1
    <3>3. QED
      BY <2>2, <3>2 DEF Quotient
  <2> DEFINE x == f[i]
             y == shared_ms[i]
  <2>4. /\ Leq(<<x, y + MaxOverhead>>, <<x + o, y + p>>)
        /\ Leq(<<x + o, y + p>>, <<x + MaxOverhead, y>>)
    <3> HIDE DEF x, y
    <3>1. x \in Nat /\ y \in Nat
      BY <2>2 DEF x, y
    <3>2. x * (y + p) <= (x + o) * (y + MaxOverhead) /\ (x + o) * y <= (x + MaxOverhead) * (y + p)
      BY <2>2, <3>1, Widened
    <3>3. QED
      BY <3>2 DEF Leq
  <2>5. QED
    BY <2>3, <2>4 DEF x, y
<1>13. /\ \E i \in 1..Repeats : Leq(<<f[i], shared_ms[i]>>, TheReport.speedup)
       /\ \E i \in 1..Repeats : Leq(TheReport.speedup, <<f[i], shared_ms[i]>>)
  <2> HIDE DEF f, F, G
  <2>1. \A i \in 1..Repeats :
           /\ Leq(<<f[i], shared_ms[i]>>, <<F, G>>) <=> f[i] * G <= F * shared_ms[i]
           /\ Leq(<<F, G>>, <<f[i], shared_ms[i]>>) <=> F * shared_ms[i] <= f[i] * G
    BY DEF Leq
  <2>2. QED
    BY <1>9, <1>10, <2>1
<1>14. /\ TheReport.fresh = Timing(fresh_ms) /\ TheReport.shared = Timing(shared_ms)
       /\ TheReport.coverage_total = coverage_total
  BY DEF TheReport
<1>15. /\ Timing(fresh_ms).raw_ms = fresh_ms /\ Timing(shared_ms).raw_ms = shared_ms
       /\ Timing(fresh_ms).decisions = Timing(shared_ms).decisions
  BY DEF Timing
<1>16. \A i \in 1..Repeats : /\ f[i] = OneByOne(TheReport.fresh.raw_ms, i)
                             /\ shared_ms[i] = TheReport.shared.raw_ms[i]
  BY <1>14, <1>15
<1> HIDE DEF rs, f, F, G
<1>17. QED
  BY <1>2, <1>4, <1>5, <1>11, <1>12, <1>13, <1>14, <1>15, <1>16 DEF WholeReport

\* A report that can be read is about one whole run, whatever failed or crashed
\* before: its percentiles and its speedup are those of its samples, and so are
\* its ratios but for what the two clocks of a block differ by.
THEOREM ReportsAreWhole == BenchSpec => []ReportIsWhole
<1> DEFINE WrittenWhole == Published => WholeReport(file.report)
<1>1. BenchInit => WrittenWhole
  BY DEF BenchInit, Published
<1>2. BenchInv /\ WrittenWhole /\ [BenchNext]_allVars => WrittenWhole'
  <2> SUFFICES ASSUME BenchInv, WrittenWhole, [BenchNext]_allVars
               PROVE  WrittenWhole'
    OBVIOUS
  <2>1. CASE Truncate
    BY <2>1 DEF Truncate, Published
  <2>2. CASE Write
    <3>1. file' = [whole |-> TRUE, report |-> TheReport] /\ stage = "writing"
      BY <2>2 DEF Write
    <3>2. WholeReport(TheReport)
      BY <3>1, WhatIsWrittenIsWhole
    <3>3. file'.report = TheReport
      BY <3>1
    <3>4. WholeReport(file'.report)
      BY <3>2, <3>3
    <3>5. QED
      BY <3>4 DEF WholeReport, SoundTiming, Leq, OneByOne
  <2>3. CASE file' = file
    BY <2>3 DEF Published, WholeReport, SoundTiming, Leq, OneByOne
  <2>4. QED
    BY <2>1, <2>2, <2>3 DEF BenchNext, FreshAnswered, FreshFails, AskBatch, BackendStep,
       BatchAnswered, BatchFails, Crash, RunAgain, allVars, benchVars
<1>3. WrittenWhole => ReportIsWhole
  BY DEF WholeReport, ReportIsWhole
<1> HIDE DEF WrittenWhole
<1>4. QED
  BY <1>1, <1>2, <1>3, BenchInvariant, PTL DEF BenchSpec

\* The report of a run that ends says how many of its blocks were sequential,
\* and its tokens are those the endpoint reported.
THEOREM BatchesAreAccountedFor == BenchSpec => []BatchedArmIsAccountedFor
<1> DEFINE WrittenNow == stage = "done" => file.report = TheReport
<1>1. BenchInit => WrittenNow
  BY DEF BenchInit
<1>2. WrittenNow /\ [BenchNext]_allVars => WrittenNow'
  <2> SUFFICES ASSUME WrittenNow, [BenchNext]_allVars
               PROVE  WrittenNow'
    OBVIOUS
  <2>1. CASE Write
    BY <2>1 DEF Write, TheReport, Timing, NotedFallbacks, vars, Percentile, Sorted, Total
  <2>2. CASE UNCHANGED allVars
    BY <2>2 DEF allVars, benchVars, vars, TheReport, Timing, NotedFallbacks
  <2>3. CASE stage' # "done"
    BY <2>3
  <2>4. QED
    BY <2>1, <2>2, <2>3 DEF BenchNext, FreshAnswered, FreshFails, AskBatch, BackendStep,
       BatchAnswered, AfterBatch, BatchFails, AfterBatchFailure, Truncate, Crash, RunAgain, benchVars
<1>3. BenchInv /\ WrittenNow => BatchedArmIsAccountedFor
  <2> SUFFICES ASSUME BenchInv, WrittenNow, stage = "done"
               PROVE  BatchedArmIsAccountedFor
    BY DEF BatchedArmIsAccountedFor, JustWritten
  <2>1. /\ BatchesInv /\ Answers /\ Kept = Repeats
        /\ TheReport.fallbacks = fallbacks
        /\ TheReport.shared_prompt_tokens = shared_prompt_tokens
    BY DEF BenchInv, Alive, Progress, TheReport, NotedFallbacks
  <2>2. \A c \in Calls : pc[c] = "ok" /\ prompts[c] = Prompts
    BY <2>1, BenchFacts DEF Answers
  <2>3. {c \in Calls : Fallen(c)} = SequentialBlocks
    BY <2>1, <2>2, BatchIsRead DEF SequentialBlocks
  <2>4. file.report.fallbacks = Cardinality(SequentialBlocks)
    BY <2>1, <2>3 DEF BatchesInv, RefusalsCounted
  <2> DEFINE g == [c \in Calls |-> SumFunction(UsagesOf(heard[c]))]
  <2>5. \A c \in Calls : ByRepeat[c] = g[c]
    BY <2>1, <2>2, BatchIsRead DEF ByRepeat
  <2>6. IsFiniteSet(Calls) /\ 1..Kept = Calls /\ DOMAIN g = Calls
    <3>1. Repeats \in Nat /\ Calls = 1..Repeats
      BY BenchFacts
    <3>2. IsFiniteSet(1..Repeats)
      BY <3>1, FS_Interval
    <3>3. QED
      BY <2>1, <3>1, <3>2
  <2> HIDE DEF g
  <2>7. SumFunctionOnSet(ByRepeat, Calls) = SumFunctionOnSet(g, Calls)
    BY <2>5, <2>6, SumEqual
  <2>8. shared_prompt_tokens = SumFunction(g)
    BY <2>1, <2>6, <2>7, SumOfFunction DEF Answers
  <2>9. QED
    BY <2>1, <2>4, <2>8 DEF BatchedArmIsAccountedFor, g
<1> HIDE DEF WrittenNow
<1>4. QED
  BY <1>1, <1>2, <1>3, BenchInvariant, PTL DEF BenchSpec
=============================================================================
