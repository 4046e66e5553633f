----------------------------- MODULE EvalDriver -----------------------------
(***************************************************************************)
(* scripts/run-eval-paired.py: drivers that send the items of a zh and an  *)
(* en set through the server one at a time, each twice at most, keep the   *)
(* answers in memory and write three files at the end, all named after the *)
(* second of the write.  The server is what SystemOneService promises; a   *)
(* driver whose wait ends without a reply does not know where its request  *)
(* stands, and the server may go on with it.                               *)
(***************************************************************************)
EXTENDS Ordering, SequencesExt

CONSTANTS
    Drivers,          \* processes that run the script, in one out-dir
    Jobs,             \* [zh, en]: the keys ("0031" of "zh-ev-0031") of each set
    MaxSecond,        \* bound on the clock, in seconds
    MaxSilences,      \* bound on the waits that end without a reply
    MaxKills,         \* bound on the drivers that are killed
    OneRunPerSecond,  \* TRUE: no two runs of the out-dir end in the same second
    Mixed             \* the author of a file that two processes wrote

ASSUME DriverAssumption ==
    /\ MaxSecond \in Nat /\ MaxSilences \in Nat /\ MaxKills \in Nat
    /\ OneRunPerSecond \in BOOLEAN /\ "nobody" \notin Drivers
    /\ IsFiniteSet(Jobs) /\ Jobs # {} /\ Jobs \subseteq [zh : Seq(Int), en : Seq(Int)]

Langs == {"zh", "en"}
Seconds == 0..MaxSecond
Names == <<"zh", "en", "meta">>      \* <date>-answers-zh, -answers-en, -run-meta
MaxPlan == 2 * Max({Len(j.zh) : j \in Jobs})

\* An item is <<language, key>>, and so is the prompt it is rendered to.
Items == Langs \X UNION {Range(j.zh) \cup Range(j.en) : j \in Jobs}

\* Request <<d, n, a>>: attempt a at the n-th item of d's plan.
Requests == Drivers \X (1..MaxPlan) \X (1..2)

VARIABLES
    status, asked, paid, answers,  \* SystemOneService
    pc,
    job,
    at, attempt,   \* the item of the plan the driver is at, and the try
    sent,          \* the requests that have been sent
    got,           \* got[d][lang]: item -> the prompt its answer is about
    failed,
    usage,         \* usage[d][lang]: output tokens
    date,
    todo,          \* the files still to be written
    code,          \* the exit code
    files,         \* files[s, name]
    clock

Server == INSTANCE SystemOneService WITH Bodies <- {<<i>> : i \in Items}

serviceVars == <<status, asked, paid, answers>>
runVars == <<pc, job, at, attempt, sent, got, failed, usage>>
endVars == <<date, todo, code>>
vars == <<serviceVars, runVars, endVars, files, clock>>

NoFile == [by |-> "nobody", whole |-> FALSE, answers |-> <<>>]
NoJob == [zh |-> <<>>, en |-> <<>>]

Init ==
    /\ Server!ServiceInit
    /\ pc = [d \in Drivers |-> "idle"]
    /\ job = [d \in Drivers |-> NoJob]
    /\ at = [d \in Drivers |-> 1]
    /\ attempt = [d \in Drivers |-> 1]
    /\ sent = {}
    /\ got = [d \in Drivers |-> [l \in Langs |-> <<>>]]
    /\ failed = [d \in Drivers |-> {}]
    /\ usage = [d \in Drivers |-> [l \in Langs |-> 0]]
    /\ date = [d \in Drivers |-> -1]
    /\ todo = [d \in Drivers |-> <<>>]
    /\ code = [d \in Drivers |-> 0]
    /\ files = [f \in Seconds \X Range(Names) |-> NoFile]
    /\ clock = 0

Goto(d, stage) == pc' = [pc EXCEPT ![d] = stage]

-----------------------------------------------------------------------------
(* The plan. *)

IdsPair(j) ==
    /\ Range(j.zh) = Range(j.en)
    /\ IsInjective(j.zh)
    /\ IsInjective(j.en)

\* zh 0001, en 0001, zh 0002, en 0002, ...
Plan(j) ==
    LET keys == InOrder(Range(j.zh))
    IN  [n \in 1 .. 2 * Len(keys) |->
            <<IF n % 2 = 1 THEN "zh" ELSE "en", keys[(n + 1) \div 2]>>]

Item(d) == Plan(job[d])[at[d]]
Request(d) == <<d, at[d], attempt[d]>>

\* Attempt a at item n of the plan of j is sent; behind the last item, the end.
Go(d, j, n, a) ==
    IF n <= Len(Plan(j))
      THEN /\ Goto(d, "wait")
           /\ at' = [at EXCEPT ![d] = n]
           /\ attempt' = [attempt EXCEPT ![d] = a]
           /\ sent' = sent \cup {<<d, n, a>>}
      ELSE Goto(d, "name") /\ UNCHANGED <<at, attempt, sent>>

Start(d, j) ==
    /\ pc[d] = "idle"
    /\ job' = [job EXCEPT ![d] = j]
    /\ IF IdsPair(j)
         THEN Go(d, j, 1, 1) /\ UNCHANGED code
         ELSE /\ Goto(d, "exited")
              /\ code' = [code EXCEPT ![d] = 2]
              /\ UNCHANGED <<at, attempt, sent>>
    /\ UNCHANGED <<serviceVars, got, failed, usage, date, todo, files, clock>>

-----------------------------------------------------------------------------
(* One item: `drive`. *)

NextItem(d) == Go(d, job[d], at[d] + 1, 1)

LangOf(item) == item[1]

\* Mutant: the tokens of an earlier attempt are added when its request was served.
TokensOfAttempts(d) ==
    Cardinality({a \in 1..2 : paid[<<d, at[d], a>>]})

TokensOf(d) == Len(answers[Request(d)])

\* The answers with one more.
With(found, item, prompt) ==
    [i \in DOMAIN found \cup {item} |-> IF i = item THEN prompt ELSE found[i]]

\* 200, and it answers the item.
Replied(d) ==
    /\ pc[d] = "wait"
    /\ status[Request(d)] = "answered"
    /\ LET l == LangOf(Item(d)) IN
        /\ got' = [got EXCEPT ![d][l] = With(@, Item(d), answers[Request(d)][1])]
        /\ usage' = [usage EXCEPT ![d][l] = @ + TokensOf(d)]
    /\ NextItem(d)
    /\ UNCHANGED <<serviceVars, job, failed, endVars, files, clock>>

GivenUp(d) == {Item(d)}

Silences ==
    Cardinality({r \in sent : r[3] = 2})
        + FoldFunction(LAMBDA f, n : n + Cardinality(f), 0, failed)

NextAttempt(d) == attempt[d] + 1

\* An error status, a timeout (120 s) or a broken connection: once more, and
\* then the item has failed.
NoReply(d) ==
    /\ Silences < MaxSilences
    /\ IF attempt[d] < 2
         THEN Go(d, job[d], at[d], NextAttempt(d)) /\ UNCHANGED failed
         ELSE /\ failed' = [failed EXCEPT ![d] = @ \cup GivenUp(d)]
              /\ NextItem(d)
    /\ UNCHANGED <<serviceVars, job, got, usage, endVars, files, clock>>

Refused(d) ==
    /\ pc[d] = "wait"
    /\ status[Request(d)] = "refused"
    /\ NoReply(d)

\* Whatever the server has done, or will do, with the request.
Lost(d) ==
    /\ pc[d] = "wait"
    /\ NoReply(d)

-----------------------------------------------------------------------------
(* The files. *)

\* Mutant: the meta file first.
FilesOfRunMetaFirst == <<"meta", "zh", "en">>

FilesOfRun == Names

\* The date is read once, when the last item is done.
Name(d) ==
    /\ pc[d] = "name"
    /\ OneRunPerSecond => ~\E e \in Drivers : date[e] = clock
    /\ date' = [date EXCEPT ![d] = clock]
    /\ todo' = [todo EXCEPT ![d] = FilesOfRun]
    /\ Goto(d, "open")
    /\ UNCHANGED <<serviceVars, job, at, attempt, sent, got, failed, usage, code, files, clock>>

File(d) == <<date[d], Head(todo[d])>>

Content(d, name) ==
    IF name = "meta" THEN got[d].zh @@ got[d].en ELSE got[d][name]

\* write_text: the file is emptied, then filled.
Open(d) ==
    /\ pc[d] = "open"
    /\ files' = [files EXCEPT ![File(d)] = [by |-> d, whole |-> FALSE, answers |-> <<>>]]
    /\ Goto(d, "fill")
    /\ UNCHANGED <<serviceVars, job, at, attempt, sent, got, failed, usage, endVars, clock>>

\* Mutant: 0 whenever the files could be written.
ExitCodeZero(d) == 0

ExitCode(d) == IF failed[d] = {} THEN 0 ELSE 1

\* A file another process opened meanwhile holds bytes of both.
Fill(d) ==
    /\ pc[d] = "fill"
    /\ files' = [files EXCEPT ![File(d)] =
                    [by |-> IF @.by = d THEN d ELSE Mixed,
                     whole |-> TRUE,
                     answers |-> Content(d, Head(todo[d]))]]
    /\ todo' = [todo EXCEPT ![d] = Tail(@)]
    /\ IF Len(todo[d]) > 1
         THEN Goto(d, "open") /\ UNCHANGED code
         ELSE Goto(d, "exited") /\ code' = [code EXCEPT ![d] = ExitCode(d)]
    /\ UNCHANGED <<serviceVars, job, at, attempt, sent, got, failed, usage, date, clock>>

-----------------------------------------------------------------------------
(* The process is killed, or an exception outside `drive`'s try ends it. *)
Killed(d) ==
    /\ pc[d] \notin {"idle", "exited", "killed"}
    /\ Cardinality({e \in Drivers : pc[e] = "killed"}) < MaxKills
    /\ Goto(d, "killed")
    /\ code' = [code EXCEPT ![d] = 137]
    /\ UNCHANGED <<serviceVars, job, at, attempt, sent, got, failed, usage, date, todo, files, clock>>

\* A request is given up by the server only when its driver has hung up.
Waits(r) == pc[r[1]] = "wait" /\ Request(r[1]) = r

\* Bound: the server's steps at requests whose item the driver is done with are
\* left out; no driver looks at these any more.
Current(r) == pc[r[1]] = "wait" /\ at[r[1]] = r[2]

ServerStep ==
    /\ \E r \in {q \in sent : Current(q)} :
        \/ Server!Take(r, <<Plan(job[r[1]])[r[2]]>>)
        \/ Server!Pay(r)
        \/ Server!Answer(r)
        \/ Server!Refuse(r)
        \/ ~Waits(r) /\ Server!Abandon(r)
    /\ UNCHANGED <<runVars, endVars, files, clock>>

Tick ==
    /\ clock < MaxSecond
    /\ clock' = clock + 1
    /\ UNCHANGED <<serviceVars, runVars, endVars, files>>

DriverStep(d) ==
    Replied(d) \/ Refused(d) \/ Lost(d) \/ Name(d) \/ Open(d) \/ Fill(d)

Next ==
    \/ \E d \in Drivers : (\E j \in Jobs : Start(d, j)) \/ DriverStep(d) \/ Killed(d)
    \/ ServerStep
    \/ Tick

Spec == Init /\ [][Next]_vars

-----------------------------------------------------------------------------
(* Properties. *)

ItemsOf(d) == ({"zh"} \X Range(job[d].zh)) \cup ({"en"} \X Range(job[d].en))
Whole(s, name) == files[<<s, name>>].whole
Ended(d) == pc[d] = "exited" /\ code[d] # 2

\* The requests of driver d for item i.
Tries(d, i) == {r \in Requests : r[1] = d /\ r[2] \in DOMAIN Plan(job[d])
                                 /\ Plan(job[d])[r[2]] = i}

\* "Exit code is non-zero if ANY item failed after two attempts": a driver
\* that exits 0 leaves two files which answer every item of their own language
\* from the item's own prompt; one that exits 1 leaves files that lack some,
\* each tried twice.  Whatever requests were lost, and whatever other drivers do.
ExitCodeTellsCoverage ==
    \A d \in Drivers : Ended(d) =>
        LET found(l) == files[<<date[d], l>>].answers
            missing == ItemsOf(d) \ (DOMAIN found("zh") \cup DOMAIN found("en"))
        IN  /\ \A l \in Langs : \A i \in DOMAIN found(l) :
                    i \in ItemsOf(d) /\ i[1] = l /\ found(l)[i] = i
            /\ (code[d] = 0) = (missing = {})
            /\ \A i \in missing : Tries(d, i) \subseteq sent

\* The meta file is what acceptance looks for, and a run that was killed leaves
\* none or a torn one behind its answers: under the date of a meta file there
\* are both answer files, whole and of the same run, with the answers it lists.
MetaSealsAnswers ==
    \A s \in Seconds : LET meta == files[<<s, "meta">>] IN
        meta # NoFile =>
            /\ \A l \in Langs : Whole(s, l) /\ files[<<s, l>>].by = meta.by
            /\ meta.whole => meta.answers = files[<<s, "zh">>].answers @@ files[<<s, "en">>].answers

\* The usage of a run counts each answer it kept once, and was paid for; the
\* readouts behind a lost reply are paid for and counted nowhere.
UsageCountsKeptAnswers ==
    \A d \in Drivers :
        /\ \A l \in Langs : usage[d][l] = Cardinality(DOMAIN got[d][l])
        /\ usage[d].zh + usage[d].en <= Cardinality({r \in Requests : r[1] = d /\ paid[r]})
=============================================================================
