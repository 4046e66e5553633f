--------------------------- MODULE EvalDriverProofs ---------------------------
(***************************************************************************)
(* What a directory of runs holds, what a run reports of itself and what   *)
(* two acceptances compare, for every set of drivers and jobs and every    *)
(* number of kills and lost replies, as long as no two runs end in the     *)
(* same second.                                                            *)
(***************************************************************************)
EXTENDS PairedAcceptance, FiniteSums

FileAt(s, name) == files[<<s, name>>]

WholeFile(d, name) == [by |-> d, whole |-> TRUE, answers |-> Content(d, name)]
TornFile(d) == [by |-> d, whole |-> FALSE, answers |-> <<>>]

\* The k-th file of d's run is cut off or absent, those before it are whole,
\* and those behind it absent.
Wrote(d, k, last) ==
    LET s == date[d]
        state(n) == IF n < k THEN WholeFile(d, Names[n])
                    ELSE IF n = k /\ last = "torn" THEN TornFile(d) ELSE NoFile
    IN  /\ FileAt(s, "zh") = state(1)
        /\ FileAt(s, "en") = state(2)
        /\ FileAt(s, "meta") = state(3)

\* The files from the k-th on.
Left(k) ==
    CASE k = 1 -> <<"zh", "en", "meta">>
      [] k = 2 -> <<"en", "meta">>
      [] k = 3 -> <<"meta">>

\* What driver d has left in the directory.
Run(d) ==
    /\ date[d] \in Seconds \cup {-1}
    /\ pc[d] \in {"idle", "wait", "name"} => date[d] = -1
    /\ pc[d] = "open" => \E k \in 1..3 : Wrote(d, k, "absent") /\ todo[d] = Left(k)
    /\ pc[d] = "fill" => \E k \in 1..3 : Wrote(d, k, "torn") /\ todo[d] = Left(k)
    /\ pc[d] \in {"open", "fill"} => date[d] # -1
    /\ date[d] # -1 => \E k \in 1..4, last \in {"torn", "absent"} : Wrote(d, k, last)
    /\ pc[d] = "exited" /\ code[d] # 2 => date[d] # -1 /\ Wrote(d, 4, "absent")

Families ==
    /\ DOMAIN pc = Drivers /\ DOMAIN date = Drivers
    /\ DOMAIN todo = Drivers /\ DOMAIN got = Drivers /\ DOMAIN code = Drivers
    /\ DOMAIN files = Seconds \X {"zh", "en", "meta"}

\* Every run has a second of its own, and there is nothing under the others.
OwnSeconds ==
    /\ \A d, e \in Drivers : date[d] = date[e] /\ date[d] # -1 => d = e
    /\ \A s \in Seconds : (\A d \in Drivers : date[d] # s) =>
        \A name \in {"zh", "en", "meta"} : FileAt(s, name) = NoFile

DirectoryInv ==
    /\ Families
    /\ clock \in Seconds
    /\ OwnSeconds
    /\ \A d \in Drivers : Run(d)

\* The three names.
LEMMA NamesRange == Range(Names) = {"zh", "en", "meta"} /\ Names[1] = "zh" /\ Names[2] = "en" /\ Names[3] = "meta"
  BY DEF Names, Range

\* Writing a file leaves the ones behind it.
LEMMA LeftTail ==
    /\ Head(Left(1)) = "zh" /\ Tail(Left(1)) = Left(2) /\ Len(Left(1)) = 3
    /\ Head(Left(2)) = "en" /\ Tail(Left(2)) = Left(3) /\ Len(Left(2)) = 2
    /\ Head(Left(3)) = "meta" /\ Len(Left(3)) = 1
    /\ Names = Left(1)
  BY DEF Left, Names

-----------------------------------------------------------------------------
\* A step that touches neither d's progress nor its files.
LEMMA RunStays ==
    ASSUME NEW d \in Drivers, Run(d),
           pc'[d] = pc[d], date'[d] = date[d], todo'[d] = todo[d], code'[d] = code[d],
           date[d] # -1 => /\ got'[d] = got[d]
                           /\ \A name \in {"zh", "en", "meta"} :
                                FileAt(date[d], name)' = FileAt(date[d], name)
    PROVE  Run(d)'
<1>1. ASSUME NEW k \in 1..4, NEW last \in {"torn", "absent"}, date[d] # -1, Wrote(d, k, last)
      PROVE  Wrote(d, k, last)'
  BY <1>1, NamesRange DEF Wrote, FileAt, WholeFile, TornFile, Content
<1>2. pc'[d] = "open" => \E k \in 1..3 : Wrote(d, k, "absent")' /\ todo'[d] = Left(k)
  <2>1. \A k \in 1..3 : date[d] # -1 /\ Wrote(d, k, "absent") => Wrote(d, k, "absent")'
    BY <1>1
  <2>2. QED
    BY <2>1 DEF Run
<1>3. pc'[d] = "fill" => \E k \in 1..3 : Wrote(d, k, "torn")' /\ todo'[d] = Left(k)
  <2>1. \A k \in 1..3 : date[d] # -1 /\ Wrote(d, k, "torn") => Wrote(d, k, "torn")'
    BY <1>1
  <2>2. QED
    BY <2>1 DEF Run
<1>4. date'[d] # -1 => \E k \in 1..4, last \in {"torn", "absent"} : Wrote(d, k, last)'
  BY <1>1 DEF Run
<1>5. pc'[d] = "exited" /\ code'[d] # 2 => date'[d] # -1 /\ Wrote(d, 4, "absent")'
  BY <1>1 DEF Run
<1>6. QED
  BY <1>2, <1>3, <1>4, <1>5 DEF Run

-----------------------------------------------------------------------------
(* The steps of one driver. *)

\* The steps of d that name its run and write its files.
LEMMA NameStep ==
    ASSUME DirectoryInv, OneRunPerSecond, NEW d \in Drivers, Name(d)
    PROVE  DirectoryInv'
<1>0. Families /\ clock \in Seconds /\ OwnSeconds /\ \A e \in Drivers : Run(e)
  BY DEF DirectoryInv
<1>1. /\ pc[d] = "name" /\ \A e \in Drivers : date[e] # clock
      /\ date' = [date EXCEPT ![d] = clock]
      /\ todo' = [todo EXCEPT ![d] = Names]
      /\ pc' = [pc EXCEPT ![d] = "open"]
      /\ UNCHANGED <<got, files, clock, code>>
  BY DEF Name, Goto, FilesOfRun
<1>2. Families' /\ clock' \in Seconds
  BY <1>0, <1>1 DEF Families
<1>3. OwnSeconds'
  <2>1. date[d] = -1 /\ \A s \in Seconds : s # -1
    BY <1>0, <1>1 DEF Run, Seconds
  <2>2. \A e, f \in Drivers : date'[e] = date'[f] /\ date'[e] # -1 => e = f
    BY <1>0, <1>1 DEF OwnSeconds, Families
  <2>3. \A s \in Seconds : (\A e \in Drivers : date'[e] # s) => \A e \in Drivers : date[e] # s
    BY <1>0, <1>1, <2>1 DEF Families
  <2>4. QED
    BY <1>0, <1>1, <2>2, <2>3 DEF OwnSeconds, FileAt
<1>4. ASSUME NEW e \in Drivers, e # d
      PROVE  Run(e)'
  <2>1. pc'[e] = pc[e] /\ date'[e] = date[e] /\ todo'[e] = todo[e]
    BY <1>0, <1>1, <1>4 DEF Families
  <2>2. QED
    BY <1>0, <1>1, <2>1, RunStays DEF FileAt
<1>5. Run(d)'
  <2>1. /\ pc'[d] = "open" /\ date'[d] = clock /\ clock # -1 /\ todo'[d] = Left(1)
    BY <1>0, <1>1, LeftTail DEF Families, Seconds
  <2>2. \A name \in {"zh", "en", "meta"} : FileAt(clock, name) = NoFile
    BY <1>0, <1>1 DEF OwnSeconds
  <2>3. Wrote(d, 1, "absent")'
    BY <1>1, <2>1, <2>2 DEF Wrote, FileAt
  <2>4. QED
    BY <1>0, <2>1, <2>3 DEF Run
<1>6. QED
  BY <1>2, <1>3, <1>4, <1>5 DEF DirectoryInv

\* The files of other runs stay when d writes one of its own.
LEMMA WriteStep ==
    ASSUME DirectoryInv, NEW d \in Drivers, date[d] # -1,
           NEW name \in {"zh", "en", "meta"}, NEW content,
           files' = [files EXCEPT ![<<date[d], name>>] = content],
           date' = date, got' = got, clock' = clock,
           DOMAIN pc' = Drivers, DOMAIN todo' = Drivers, DOMAIN code' = Drivers,
           \A e \in Drivers : e # d => pc'[e] = pc[e] /\ todo'[e] = todo[e] /\ code'[e] = code[e],
           Run(d)'
    PROVE  DirectoryInv'
<1>0. Families /\ clock \in Seconds /\ OwnSeconds /\ \A e \in Drivers : Run(e)
  BY DEF DirectoryInv
<1>1. Families' /\ clock' \in Seconds
  BY <1>0 DEF Families
<1>2. \A s \in Seconds : s # date[d] =>
        \A other \in {"zh", "en", "meta"} : FileAt(s, other)' = FileAt(s, other)
  BY <1>0 DEF Families, FileAt
<1>3. OwnSeconds'
  BY <1>0, <1>2 DEF OwnSeconds
<1>4. ASSUME NEW e \in Drivers, e # d
      PROVE  Run(e)'
  <2>1. date[e] # -1 => date[e] \in Seconds /\ date[e] # date[d]
    BY <1>0, <1>4 DEF OwnSeconds, Run
  <2>2. QED
    BY <1>0, <1>2, <1>4, <2>1, RunStays
<1>5. QED
  BY <1>1, <1>3, <1>4 DEF DirectoryInv

\* Opening a file tears it.
LEMMA OpenStep ==
    ASSUME DirectoryInv, NEW d \in Drivers, Open(d)
    PROVE  DirectoryInv'
<1>0. Families /\ Run(d) /\ pc[d] = "open"
  BY DEF DirectoryInv, Open
<1>1. PICK k \in 1..3 : Wrote(d, k, "absent") /\ todo[d] = Left(k)
  BY <1>0 DEF Run
<1>2. date[d] # -1 /\ date[d] \in Seconds
  BY <1>0 DEF Run
<1>3. Names[k] \in {"zh", "en", "meta"} /\ File(d) = <<date[d], Names[k]>>
  BY <1>1, NamesRange, LeftTail DEF File
<1>4. /\ files' = [files EXCEPT ![<<date[d], Names[k]>>] = TornFile(d)]
      /\ pc' = [pc EXCEPT ![d] = "fill"]
      /\ UNCHANGED <<date, todo, got, clock, code>>
  BY <1>3 DEF Open, TornFile, Goto, runVars, endVars
<1>5. /\ FileAt(date[d], Names[k])' = TornFile(d)
      /\ \A name \in {"zh", "en", "meta"} \ {Names[k]} :
            FileAt(date[d], name)' = FileAt(date[d], name)
  BY <1>0, <1>2, <1>3, <1>4 DEF Families, FileAt
<1>6. Wrote(d, k, "torn")'
  <2>1. \A n \in 1..3 : WholeFile(d, Names[n])' = WholeFile(d, Names[n])
    BY <1>4 DEF WholeFile, Content
  <2>2. CASE k = 1
    BY <1>1, <1>4, <1>5, <2>1, <2>2, NamesRange DEF Wrote, TornFile
  <2>3. CASE k = 2
    BY <1>1, <1>4, <1>5, <2>1, <2>3, NamesRange DEF Wrote, TornFile
  <2>4. CASE k = 3
    BY <1>1, <1>4, <1>5, <2>1, <2>4, NamesRange DEF Wrote, TornFile
  <2>5. QED
    BY <2>2, <2>3, <2>4
<1>7. pc'[d] = "fill" /\ date'[d] = date[d] /\ todo'[d] = Left(k)
  BY <1>0, <1>1, <1>4 DEF Families
<1>8. Run(d)'
  BY <1>0, <1>2, <1>6, <1>7 DEF Run
<1>9. QED
  BY <1>0, <1>2, <1>3, <1>4, <1>8, WriteStep DEF Families

\* Filling a file makes it whole.
LEMMA FillStep ==
    ASSUME DirectoryInv, NEW d \in Drivers, Fill(d)
    PROVE  DirectoryInv'
<1>0. Families /\ Run(d) /\ pc[d] = "fill"
  BY DEF DirectoryInv, Fill
<1>1. PICK k \in 1..3 : Wrote(d, k, "torn") /\ todo[d] = Left(k)
  BY <1>0 DEF Run
<1>2. date[d] # -1 /\ date[d] \in Seconds
  BY <1>0 DEF Run
<1>3. /\ Names[k] \in {"zh", "en", "meta"} /\ File(d) = <<date[d], Names[k]>>
      /\ Head(todo[d]) = Names[k]
  BY <1>1, NamesRange, LeftTail DEF File
<1>4. files[<<date[d], Names[k]>>] = TornFile(d)
  BY <1>1, NamesRange DEF Wrote, FileAt
<1>5. /\ files' = [files EXCEPT ![<<date[d], Names[k]>>] = WholeFile(d, Names[k])]
      /\ todo' = [todo EXCEPT ![d] = Tail(todo[d])]
      /\ pc' = [pc EXCEPT ![d] = IF Len(todo[d]) > 1 THEN "open" ELSE "exited"]
      /\ UNCHANGED <<date, got, clock>>
      /\ code' \in {code, [code EXCEPT ![d] = ExitCode(d)]}
  <2>1. files' = [files EXCEPT ![<<date[d], Names[k]>>] =
                     [by |-> IF files[<<date[d], Names[k]>>].by = d THEN d ELSE Mixed,
                      whole |-> TRUE, answers |-> Content(d, Names[k])]]
    BY <1>3 DEF Fill
  <2>2. files[<<date[d], Names[k]>>].by = d
    BY <1>4 DEF TornFile
  <2>3. QED
    BY <2>1, <2>2 DEF Fill, WholeFile, Goto
<1>6. /\ FileAt(date[d], Names[k])' = WholeFile(d, Names[k])
      /\ \A name \in {"zh", "en", "meta"} \ {Names[k]} :
            FileAt(date[d], name)' = FileAt(date[d], name)
  BY <1>0, <1>2, <1>3, <1>5 DEF Families, FileAt
<1>7. Wrote(d, k + 1, "absent")'
  <2>1. \A n \in 1..3 : WholeFile(d, Names[n])' = WholeFile(d, Names[n])
    BY <1>5 DEF WholeFile, Content
  <2>2. CASE k = 1
    BY <1>1, <1>5, <1>6, <2>1, <2>2, NamesRange DEF Wrote
  <2>3. CASE k = 2
    BY <1>1, <1>5, <1>6, <2>1, <2>3, NamesRange DEF Wrote
  <2>4. CASE k = 3
    BY <1>1, <1>5, <1>6, <2>1, <2>4, NamesRange DEF Wrote
  <2>5. QED
    BY <2>2, <2>3, <2>4
<1>8. /\ date'[d] = date[d]
      /\ k < 3 => pc'[d] = "open" /\ todo'[d] = Left(k + 1)
      /\ k = 3 => pc'[d] = "exited"
  <2>1. pc'[d] = (IF Len(Left(k)) > 1 THEN "open" ELSE "exited") /\ todo'[d] = Tail(Left(k))
    BY <1>0, <1>1, <1>5 DEF Families
  <2>2. CASE k = 1
    BY <1>5, <2>1, <2>2, LeftTail
  <2>3. CASE k = 2
    BY <1>5, <2>1, <2>3, LeftTail
  <2>4. CASE k = 3
    BY <1>5, <2>1, <2>4, LeftTail
  <2>5. QED
    BY <2>2, <2>3, <2>4
<1>9. Run(d)'
  <2>1. CASE k < 3
    BY <1>0, <1>2, <1>7, <1>8, <2>1 DEF Run
  <2>2. CASE k = 3
    BY <1>0, <1>2, <1>7, <1>8, <2>2 DEF Run
  <2>3. QED
    BY <2>1, <2>2
<1>10. QED
  BY <1>0, <1>2, <1>3, <1>5, <1>9, WriteStep DEF Families

-----------------------------------------------------------------------------
(* The invariant of the directory. *)

\* A step of a driver that has no name for its run yet, or kills it.
LEMMA QuietStep ==
    ASSUME DirectoryInv, NEW d \in Drivers,
           UNCHANGED <<date, todo, files>>, clock' \in Seconds,
           DOMAIN pc' = Drivers, DOMAIN got' = Drivers, DOMAIN code' = Drivers,
           \A e \in Drivers : e # d => pc'[e] = pc[e] /\ got'[e] = got[e] /\ code'[e] = code[e],
           \/ date[d] = -1 /\ pc'[d] \notin {"open", "fill"} /\ (pc'[d] = "exited" => code'[d] = 2)
           \/ got'[d] = got[d] /\ pc'[d] = "killed"
    PROVE  DirectoryInv'
<1>0. Families /\ OwnSeconds /\ \A e \in Drivers : Run(e)
  BY DEF DirectoryInv
<1>1. Families' /\ OwnSeconds'
  BY <1>0 DEF Families, OwnSeconds, FileAt
<1>2. ASSUME NEW e \in Drivers, pc'[e] = pc[e], got'[e] = got[e], code'[e] = code[e]
      PROVE  Run(e)'
  BY <1>0, <1>2, RunStays DEF FileAt
<1>3. CASE date[d] = -1 /\ pc'[d] \notin {"open", "fill"} /\ (pc'[d] = "exited" => code'[d] = 2)
  <2>1. Run(d)'
    BY <1>0, <1>3 DEF Run
  <2>2. QED
    BY <1>1, <1>2, <2>1 DEF DirectoryInv
<1>4. CASE got'[d] = got[d] /\ pc'[d] = "killed"
  <2>1. \A k \in 1..4, last \in {"torn", "absent"} :
            Wrote(d, k, last) => Wrote(d, k, last)'
    BY <1>4 DEF Wrote, FileAt, WholeFile, TornFile, Content
  <2>2. Run(d)'
    BY <1>0, <1>4, <2>1 DEF Run
  <2>3. QED
    BY <1>1, <1>2, <2>2 DEF DirectoryInv
<1>5. QED
  BY <1>1, <1>2, <1>3, <1>4 DEF DirectoryInv

\* An empty directory holds no run.
LEMMA DirectoryStarts == Init => DirectoryInv
<1> SUFFICES ASSUME Init PROVE DirectoryInv
  OBVIOUS
<1>1. Families
  BY NamesRange DEF Init, Families
<1>2. clock \in Seconds
  BY DriverAssumption DEF Init, Seconds
<1>3. OwnSeconds
  BY NamesRange DEF Init, OwnSeconds, FileAt
<1>4. \A d \in Drivers : Run(d)
  BY DEF Init, Run
<1>5. QED
  BY <1>1, <1>2, <1>3, <1>4 DEF DirectoryInv

\* No step disturbs what the runs have left.
LEMMA DirectoryKeeps == DirectoryInv /\ OneRunPerSecond /\ [Next]_vars => DirectoryInv'
<1> SUFFICES ASSUME DirectoryInv, OneRunPerSecond, [Next]_vars
             PROVE  DirectoryInv'
  OBVIOUS
<1>0. Families /\ clock \in Seconds /\ \A d \in Drivers : Run(d)
  BY DEF DirectoryInv
<1>1. ASSUME NEW d \in Drivers, NEW j \in Jobs, Start(d, j)
      PROVE  DirectoryInv'
  <2>1. /\ UNCHANGED <<date, todo, files, clock, got>> /\ pc[d] = "idle"
        /\ \/ \E next \in {"wait", "name"} : pc' = [pc EXCEPT ![d] = next] /\ code' = code
           \/ pc' = [pc EXCEPT ![d] = "exited"] /\ code' = [code EXCEPT ![d] = 2]
    BY <1>1 DEF Start, Go, Goto
  <2>2. date[d] = -1
    BY <1>0, <2>1 DEF Run
  <2>3. QED
    BY <1>0, <2>1, <2>2, QuietStep DEF Families
<1>2. ASSUME NEW d \in Drivers, Replied(d) \/ Refused(d) \/ Lost(d)
      PROVE  DirectoryInv'
  <2>1. /\ UNCHANGED <<date, todo, files, clock, code>> /\ pc[d] = "wait"
        /\ \E next \in {"wait", "name"} : pc' = [pc EXCEPT ![d] = next]
    BY <1>2 DEF Replied, Refused, Lost, NoReply, NextItem, Go, Goto, endVars
  <2>2. DOMAIN got' = Drivers /\ \A e \in Drivers : e # d => got'[e] = got[e]
    BY <1>0, <1>2 DEF Replied, Refused, Lost, NoReply, Families
  <2>3. date[d] = -1
    BY <1>0, <2>1 DEF Run
  <2>4. QED
    BY <1>0, <2>1, <2>2, <2>3, QuietStep DEF Families
<1>3. ASSUME NEW d \in Drivers, Killed(d)
      PROVE  DirectoryInv'
  <2>1. /\ UNCHANGED <<date, todo, files, clock, got>> /\ pc' = [pc EXCEPT ![d] = "killed"]
        /\ code' = [code EXCEPT ![d] = 137]
    BY <1>3 DEF Killed, Goto
  <2>2. QED
    BY <1>0, <2>1, QuietStep DEF Families
<1>4. CASE ServerStep \/ Tick \/ UNCHANGED vars
  <2>1. UNCHANGED <<pc, date, todo, files, got, code>> /\ clock' \in Seconds
    BY <1>0, <1>4, DriverAssumption DEF ServerStep, Tick, vars, runVars, endVars, Seconds
  <2>2. Families' /\ OwnSeconds'
    BY <1>0, <2>1 DEF DirectoryInv, Families, OwnSeconds, FileAt
  <2>3. \A d \in Drivers : Run(d)'
    BY <1>0, <2>1, RunStays DEF FileAt
  <2>4. QED
    BY <2>1, <2>2, <2>3 DEF DirectoryInv
<1>5. QED
  BY <1>1, <1>2, <1>3, <1>4, NameStep, OpenStep, FillStep DEF Next, DriverStep

\* The invariant the theorem below follows from.
THEOREM DirectoryInvariant == ASSUME OneRunPerSecond PROVE Spec => []DirectoryInv
  BY DirectoryStarts, DirectoryKeeps, PTL DEF Spec

\* Whoever finds a meta file finds both answer files of that run, whole, and
\* the answers the meta file lists: however many drivers write into the
\* directory, and wherever each of them is killed.
THEOREM MetaFileComesLast == ASSUME OneRunPerSecond PROVE Spec => []MetaSealsAnswers
<1>1. DirectoryInv => MetaSealsAnswers
  <2> SUFFICES ASSUME DirectoryInv, NEW s \in Seconds, FileAt(s, "meta") # NoFile
               PROVE  /\ \A l \in Langs : Whole(s, l) /\ FileAt(s, l).by = FileAt(s, "meta").by
                      /\ FileAt(s, "meta").whole =>
                            FileAt(s, "meta").answers
                                = FileAt(s, "zh").answers @@ FileAt(s, "en").answers
    BY DEF MetaSealsAnswers, FileAt
  <2>1. PICK d \in Drivers : date[d] = s /\ Run(d)
    BY DEF DirectoryInv, OwnSeconds
  <2>2. PICK k \in 1..4, last \in {"torn", "absent"} : Wrote(d, k, last)
    BY <2>1 DEF Run, Seconds
  <2>3. k >= 3
    BY <2>1, <2>2, NamesRange DEF Wrote
  <2>4. /\ FileAt(s, "zh") = WholeFile(d, "zh") /\ FileAt(s, "en") = WholeFile(d, "en")
        /\ FileAt(s, "meta") \in {WholeFile(d, "meta"), TornFile(d)}
    BY <2>1, <2>2, <2>3, NamesRange DEF Wrote
  <2>5. QED
    BY <2>4 DEF Langs, Whole, FileAt, WholeFile, TornFile, Content
<1>2. QED
  BY <1>1, DirectoryInvariant, PTL

\* Acceptances that share the directory drive nothing but drivers.
THEOREM AcceptanceDrives == AcceptSpec => Spec
<1>1. AcceptInit => Init
  BY DEF AcceptInit
<1>2. [AcceptNext]_allVars => [Next]_vars
  <2> SUFFICES ASSUME [AcceptNext]_allVars
               PROVE  [Next]_vars
    OBVIOUS
  <2>1. CASE UNCHANGED allVars
    BY <2>1 DEF allVars
  <2>2. CASE Below
    BY <2>2 DEF Below, Next
  <2>3. ASSUME NEW d \in Drivers, Gate(d)
        PROVE  [Next]_vars
    BY <2>3 DEF Gate, Next
  <2>4. ASSUME NEW d \in Drivers, AcceptStep(d), ~Gate(d)
        PROVE  UNCHANGED vars
    BY <2>4 DEF AcceptStep, DriverReturns, Pick, Import, WriteRows, Load, EmptyReport,
            WriteReport, Verify, TamperGate, Summarize, ReadReport, ReadRows, Compare
  <2>5. QED
    BY <2>1, <2>2, <2>3, <2>4 DEF AcceptNext
<1>3. QED
  BY <1>1, <1>2, PTL DEF AcceptSpec, Spec

\* The same of a directory that acceptances write into and read from.
COROLLARY AcceptanceFindsWholeRuns ==
    ASSUME OneRunPerSecond PROVE AcceptSpec => []MetaSealsAnswers
  BY AcceptanceDrives, MetaFileComesLast

-----------------------------------------------------------------------------
(* The plan. *)

\* The keys of a job.
LEMMA JobKeys ==
    ASSUME NEW j \in Jobs
    PROVE  /\ Range(j.zh) \subseteq Int /\ IsFiniteSet(Range(j.zh))
           /\ Cardinality(Range(j.zh)) \in Nat
           /\ MaxPlan \in Nat /\ 2 * Cardinality(Range(j.zh)) <= MaxPlan
<1>1. \A i \in Jobs : i.zh \in Seq(Int) /\ Len(i.zh) \in Nat
  BY DriverAssumption
<1>2. Range(j.zh) \subseteq Int /\ IsFiniteSet(Range(j.zh)) /\ Cardinality(Range(j.zh)) <= Len(j.zh)
  BY <1>1, RangeIsFinite
<1>3. Cardinality(Range(j.zh)) \in Nat
  BY <1>2, FS_CardinalityType
<1> DEFINE f == [i \in Jobs |-> Len(i.zh)]
           L == {Len(i.zh) : i \in Jobs}
<1>4. PICK m \in Jobs : \A i \in Jobs : f[i] <= f[m]
  <2>1. \A i \in Jobs : f[i] \in Int
    BY <1>1
  <2> HIDE DEF f
  <2>2. QED
    BY <2>1, DriverAssumption, LargestExists
<1>5. \E x \in L : \A y \in L : x >= y
  <2>1. f[m] \in L /\ \A y \in L : f[m] >= y
    BY <1>1, <1>4
  <2>2. QED
    BY <2>1
<1>6. Max(L) \in L /\ \A y \in L : Max(L) >= y
  BY <1>5 DEF Max
<1>7. Max(L) \in Nat /\ Max(L) >= Len(j.zh)
  BY <1>1, <1>6
<1>8. MaxPlan = 2 * Max(L)
  BY DEF MaxPlan
<1> HIDE DEF L
<1>9. QED
  BY <1>1, <1>2, <1>3, <1>7, <1>8

\* The plan of a pair of sets lists every item of both, each of them once.
LEMMA PlanIs ==
    ASSUME NEW j \in Jobs
    PROVE  /\ Len(Plan(j)) \in Nat /\ Len(Plan(j)) <= MaxPlan /\ MaxPlan \in Nat
           /\ DOMAIN Plan(j) = 1..Len(Plan(j))
           /\ \A n \in 1..Len(Plan(j)) : Plan(j)[n] \in Langs \X Range(j.zh)
           /\ \A m, n \in 1..Len(Plan(j)) : Plan(j)[m] = Plan(j)[n] => m = n
           /\ \A i \in Langs \X Range(j.zh) : \E n \in 1..Len(Plan(j)) : Plan(j)[n] = i
<1> DEFINE S == Range(j.zh)
           c == Cardinality(S)
           keys == InOrder(S)
           half(n) == IF n % 2 = 1 THEN "zh" ELSE "en"
<1>1. c \in Nat /\ MaxPlan \in Nat /\ 2 * c <= MaxPlan
  BY JobKeys
<1>2. /\ Len(keys) = c
      /\ \A k \in 1..c : keys[k] \in S
      /\ \A k, l \in 1..c : keys[k] = keys[l] => k = l
      /\ \A x \in S : \E k \in 1..c : keys[k] = x
  BY JobKeys, KeysInOrder
<1>3. Plan(j) = [n \in 1 .. 2 * c |-> <<half(n), keys[(n + 1) \div 2]>>]
  BY <1>2 DEF Plan
<1> HIDE DEF keys, c, S
<1>4. Len(Plan(j)) = 2 * c /\ DOMAIN Plan(j) = 1 .. 2 * c
  BY <1>1, <1>3
<1>5. \A n \in 1 .. 2 * c : (n + 1) \div 2 \in 1..c
  BY <1>1
<1>6. \A m, n \in 1 .. 2 * c : (m + 1) \div 2 = (n + 1) \div 2 /\ (m % 2 = 1 <=> n % 2 = 1) => m = n
  BY <1>1
<1>7. \A k \in 1..c : /\ 2 * k - 1 \in 1 .. 2 * c /\ (2 * k - 1) % 2 = 1 /\ (2 * k - 1 + 1) \div 2 = k
                      /\ 2 * k \in 1 .. 2 * c /\ (2 * k) % 2 # 1 /\ (2 * k + 1) \div 2 = k
  BY <1>1
<1>8. \A n \in 1 .. 2 * c : Plan(j)[n] \in Langs \X S
  BY <1>2, <1>3, <1>5 DEF Langs
<1>9. ASSUME NEW m \in 1 .. 2 * c, NEW n \in 1 .. 2 * c, Plan(j)[m] = Plan(j)[n]
      PROVE  m = n
  <2>1. half(m) = half(n) /\ keys[(m + 1) \div 2] = keys[(n + 1) \div 2]
    BY <1>3, <1>9
  <2>2. (m + 1) \div 2 = (n + 1) \div 2
    BY <1>2, <1>5, <2>1
  <2>3. m % 2 = 1 <=> n % 2 = 1
    BY <2>1
  <2>4. QED
    BY <1>6, <2>2, <2>3
<1>10. ASSUME NEW l \in Langs, NEW x \in S
       PROVE  \E n \in 1 .. 2 * c : Plan(j)[n] = <<l, x>>
  <2>1. PICK k \in 1..c : keys[k] = x
    BY <1>2
  <2>2. CASE l = "zh"
    <3>1. Plan(j)[2 * k - 1] = <<"zh", keys[k]>>
      BY <1>3, <1>7
    <3>2. QED
      BY <1>7, <2>1, <2>2, <3>1
  <2>3. CASE l = "en"
    <3>1. Plan(j)[2 * k] = <<"en", keys[k]>>
      BY <1>3, <1>7
    <3>2. QED
      BY <1>7, <2>1, <2>3, <3>1
  <2>4. QED
    BY <2>2, <2>3 DEF Langs
<1>11. \A i \in Langs \X S : \E n \in 1 .. 2 * c : Plan(j)[n] = i
  BY <1>10
<1>12. QED
  BY <1>1, <1>4, <1>8, <1>9, <1>11 DEF S

-----------------------------------------------------------------------------
(* The drivers and their requests. *)

\* The server answers what it was asked, and it was asked what is planned.
ServiceInv ==
    /\ DOMAIN status = Requests /\ DOMAIN asked = Requests /\ DOMAIN answers = Requests
    /\ paid \in [Requests -> BOOLEAN]
    /\ sent \subseteq Requests
    /\ \A r \in Requests :
        /\ status[r] # "none" => r \in sent /\ asked[r] = <<Plan(job[r[1]])[r[2]]>>
        /\ status[r] = "answered" => paid[r] /\ answers[r] = asked[r]
    /\ \A r \in sent : pc[r[1]] # "idle"

DriverFamilies ==
    /\ DOMAIN pc = Drivers /\ DOMAIN job = Drivers /\ DOMAIN at = Drivers
    /\ DOMAIN attempt = Drivers /\ DOMAIN got = Drivers /\ DOMAIN failed = Drivers
    /\ DOMAIN usage = Drivers /\ DOMAIN date = Drivers /\ DOMAIN code = Drivers
    /\ \A d \in Drivers : DOMAIN got[d] = Langs /\ DOMAIN usage[d] = Langs

\* The first m items of d's plan are answered or given up, and no others are.
Settled(d, m) ==
    /\ \A n \in 1..m : LET i == Plan(job[d])[n] IN
        i \in failed[d] \/ i \in DOMAIN got[d][i[1]]
    /\ \A i \in failed[d] : \E n \in 1..m :
        /\ Plan(job[d])[n] = i
        /\ <<d, n, 1>> \in sent /\ <<d, n, 2>> \in sent
    /\ \A l \in Langs : \A i \in DOMAIN got[d][l] :
        i \notin failed[d] /\ \E n \in 1..m : Plan(job[d])[n] = i

\* An answer that is kept is the item's own, was paid for, and counts once.
Keeps(d) ==
    \A l \in Langs :
        /\ IsFiniteSet(DOMAIN got[d][l])
        /\ usage[d][l] = Cardinality(DOMAIN got[d][l])
        /\ \A i \in DOMAIN got[d][l] :
            /\ i[1] = l /\ got[d][l][i] = i
            /\ \E r \in Requests : r[1] = d /\ paid[r] /\ Plan(job[d])[r[2]] = i

Driven(d) == pc[d] # "idle" /\ ~(pc[d] = "exited" /\ code[d] = 2)

Driving(d) ==
    /\ pc[d] \in {"idle", "wait", "name", "open", "fill", "exited", "killed"}
    /\ pc[d] = "idle" => failed[d] = {} /\ \A l \in Langs : got[d][l] = <<>>
    /\ Driven(d) => job[d] \in Jobs /\ IdsPair(job[d])
    /\ pc[d] = "wait" =>
        /\ at[d] \in 1..Len(Plan(job[d])) /\ attempt[d] \in {1, 2}
        /\ Request(d) \in sent /\ (attempt[d] = 2 => <<d, at[d], 1>> \in sent)
        /\ Settled(d, at[d] - 1)
    /\ pc[d] \in {"idle", "wait", "name"} => date[d] = -1
    /\ pc[d] \in {"open", "fill"} => date[d] # -1
    /\ pc[d] = "name" \/ date[d] # -1 => Settled(d, Len(Plan(job[d]))) /\ Driven(d)
    /\ pc[d] = "exited" => code[d] = 2 \/ (date[d] # -1 /\ code[d] = ExitCode(d))
    /\ Keeps(d)

DrivesInv ==
    /\ DriverFamilies /\ clock \in Seconds /\ ServiceInv
    /\ \A d \in Drivers : Driving(d)

\* A driver that a step leaves alone.
Still(d) ==
    /\ pc'[d] = pc[d] /\ job'[d] = job[d] /\ at'[d] = at[d] /\ attempt'[d] = attempt[d]
    /\ got'[d] = got[d] /\ failed'[d] = failed[d] /\ usage'[d] = usage[d]
    /\ date'[d] = date[d] /\ code'[d] = code[d]

\* More requests may be sent, and more may be paid.
Onward ==
    /\ sent \subseteq sent'
    /\ \A r \in Requests : paid[r] => paid'[r]

\* What is settled stays so.
LEMMA SettledStays ==
    ASSUME NEW d \in Drivers, NEW m, Settled(d, m), sent \subseteq sent',
           job'[d] = job[d], got'[d] = got[d], failed'[d] = failed[d]
    PROVE  Settled(d, m)'
  BY DEF Settled

\* What is kept stays so.
LEMMA KeptStays ==
    ASSUME NEW d \in Drivers, Keeps(d), \A r \in Requests : paid[r] => paid'[r],
           job'[d] = job[d], got'[d] = got[d], usage'[d] = usage[d]
    PROVE  Keeps(d)'
  BY DEF Keeps

\* A driver a step leaves alone keeps what is known of it.
LEMMA StillDriving ==
    ASSUME NEW d \in Drivers, Driving(d), Still(d), Onward
    PROVE  Driving(d)'
<1>1. Keeps(d)'
  BY KeptStays DEF Driving, Still, Onward
<1>2. pc[d] = "wait" => Settled(d, at[d] - 1)'
  BY SettledStays DEF Driving, Still, Onward
<1>3. pc[d] = "name" \/ date[d] # -1 => Settled(d, Len(Plan(job[d])))'
  BY SettledStays DEF Driving, Still, Onward
<1>4. pc'[d] = "wait" => Settled(d, at[d] - 1)'
  BY <1>2 DEF Still
<1>5. Driven(d)' <=> Driven(d)
  BY DEF Still, Driven
<1>6. QED
  BY <1>1, <1>3, <1>4, <1>5 DEF Driving, Still, Onward, Request, ExitCode

\* The plan of a driver under way.
LEMMA PlanOf ==
    ASSUME NEW d \in Drivers, Driving(d), Driven(d)
    PROVE  LET P == Plan(job[d]) IN
           /\ Len(P) \in Nat /\ Len(P) <= MaxPlan /\ MaxPlan \in Nat /\ DOMAIN P = 1..Len(P)
           /\ \A n \in 1..Len(P) : P[n] \in Langs \X Range(job[d].zh)
           /\ \A m, n \in 1..Len(P) : P[m] = P[n] => m = n
           /\ \A i \in Langs \X Range(job[d].zh) : \E n \in 1..Len(P) : P[n] = i
  BY PlanIs DEF Driving

-----------------------------------------------------------------------------
(* The steps of a driver. *)

\* What Go does.
LEMMA Goes ==
    ASSUME DriverFamilies, NEW d \in Drivers, NEW j, NEW n, NEW a, Go(d, j, n, a)
    PROVE  /\ DOMAIN pc' = Drivers /\ DOMAIN at' = Drivers /\ DOMAIN attempt' = Drivers
           /\ sent' \in {sent, sent \cup {<<d, n, a>>}}
           /\ \A e \in Drivers : e # d => pc'[e] = pc[e] /\ at'[e] = at[e] /\ attempt'[e] = attempt[e]
           /\ n <= Len(Plan(j)) => /\ pc'[d] = "wait" /\ at'[d] = n /\ attempt'[d] = a
                                   /\ sent' = sent \cup {<<d, n, a>>}
           /\ ~(n <= Len(Plan(j))) => pc'[d] = "name" /\ sent' = sent
<1>1. CASE n <= Len(Plan(j))
  BY <1>1 DEF Go, Goto, DriverFamilies
<1>2. CASE ~(n <= Len(Plan(j)))
  BY <1>2 DEF Go, Goto, DriverFamilies
<1>3. QED
  BY <1>1, <1>2

\* The server's part when a driver moves.
LEMMA ServiceStays ==
    ASSUME ServiceInv, NEW d \in Drivers, UNCHANGED serviceVars,
           sent \subseteq sent', sent' \subseteq Requests,
           \A r \in sent' : r \notin sent => r[1] = d,
           \A e \in Drivers : e # d => pc'[e] = pc[e] /\ job'[e] = job[e],
           pc'[d] # "idle" \/ sent' = sent,
           pc[d] # "idle" => pc'[d] # "idle",
           job'[d] = job[d] \/ pc[d] = "idle"
    PROVE  ServiceInv'
<1>1. \A r \in Requests : r[1] \in Drivers
  BY DEF Requests
<1>2. ASSUME NEW r \in Requests
      PROVE  /\ status[r] # "none" => r \in sent' /\ asked[r] = <<Plan(job'[r[1]])[r[2]]>>
             /\ status[r] = "answered" => paid[r] /\ answers[r] = asked[r]
  <2>1. status[r] # "none" => job'[r[1]] = job[r[1]]
    BY <1>1 DEF ServiceInv
  <2>2. QED
    BY <2>1 DEF ServiceInv
<1>3. \A r \in sent' : pc'[r[1]] # "idle"
  BY <1>1 DEF ServiceInv
<1>4. QED
  BY <1>2, <1>3 DEF ServiceInv, serviceVars

\* The start of a run.
LEMMA StartDrives ==
    ASSUME DrivesInv, NEW d \in Drivers, NEW j \in Jobs, Start(d, j)
    PROVE  DrivesInv'
<1>1. /\ DriverFamilies /\ clock \in Seconds /\ ServiceInv /\ \A e \in Drivers : Driving(e)
      /\ pc[d] = "idle"
      /\ job' = [job EXCEPT ![d] = j]
      /\ UNCHANGED <<serviceVars, got, failed, usage, date, todo, files, clock>>
  BY DEF DrivesInv, Start
<1>2. job'[d] = j /\ DOMAIN job' = Drivers /\ \A e \in Drivers : e # d => job'[e] = job[e]
  BY <1>1 DEF DriverFamilies
<1>3. /\ DOMAIN pc' = Drivers /\ DOMAIN at' = Drivers /\ DOMAIN attempt' = Drivers /\ DOMAIN code' = Drivers
      /\ sent' \in {sent, sent \cup {<<d, 1, 1>>}}
      /\ \A e \in Drivers : e # d => /\ pc'[e] = pc[e] /\ at'[e] = at[e] /\ attempt'[e] = attempt[e]
                                     /\ code'[e] = code[e]
      /\ \/ /\ IdsPair(j) /\ Len(Plan(j)) >= 1 /\ pc'[d] = "wait" /\ at'[d] = 1 /\ attempt'[d] = 1
            /\ sent' = sent \cup {<<d, 1, 1>>}
         \/ IdsPair(j) /\ Len(Plan(j)) = 0 /\ pc'[d] = "name" /\ sent' = sent
         \/ pc'[d] = "exited" /\ code'[d] = 2 /\ sent' = sent
  <2>1. CASE IdsPair(j)
    <3>1. Go(d, j, 1, 1) /\ UNCHANGED code
      BY <2>1 DEF Start
    <3>2. Len(Plan(j)) \in Nat
      BY PlanIs
    <3>3. 1 <= Len(Plan(j)) \/ Len(Plan(j)) = 0
      BY <3>2
    <3>4. Len(Plan(j)) = 0 => ~(1 <= Len(Plan(j)))
      OBVIOUS
    <3>5. QED
      BY <1>1, <2>1, <3>1, <3>3, <3>4, Goes DEF DriverFamilies
  <2>2. CASE ~IdsPair(j)
    BY <1>1, <2>2 DEF Start, Goto, DriverFamilies
  <2>3. QED
    BY <2>1, <2>2
<1>4. sent \subseteq sent' /\ sent' \subseteq Requests
  <2>1. Len(Plan(j)) >= 1 => <<d, 1, 1>> \in Requests
    BY PlanIs DEF Requests
  <2>2. QED
    BY <1>1, <1>3, <2>1 DEF ServiceInv
<1>5. ServiceInv'
  BY <1>1, <1>2, <1>3, <1>4, ServiceStays
<1>6. Onward
  BY <1>1, <1>4 DEF Onward, serviceVars
<1>7. \A e \in Drivers : e # d => Driving(e)'
  BY <1>1, <1>2, <1>3, <1>6, StillDriving DEF Still
<1>8. DriverFamilies'
  BY <1>1, <1>2, <1>3 DEF DriverFamilies
<1>9. /\ failed'[d] = {} /\ \A l \in Langs : got'[d][l] = <<>>
      /\ date'[d] = -1
  BY <1>1 DEF Driving
<1>10. Settled(d, 0)'
  BY <1>9 DEF Settled
<1>11. Keeps(d)'
  <2>1. \A l \in Langs : DOMAIN got'[d][l] = {} /\ DOMAIN got[d][l] = {}
    BY <1>1, <1>9
  <2>2. QED
    BY <1>1, <2>1 DEF Driving, Keeps
<1>12. Driving(d)'
  <2>1. CASE pc'[d] = "wait"
    <3>1. at'[d] = 1 /\ attempt'[d] = 1 /\ <<d, 1, 1>> \in sent' /\ Len(Plan(j)) >= 1 /\ IdsPair(j)
      BY <1>3, <2>1
    <3>2. Len(Plan(j)) \in Nat
      BY PlanIs
    <3>3. at'[d] - 1 = 0 /\ at'[d] \in 1..Len(Plan(j))
      BY <3>1, <3>2
    <3>4. Settled(d, at[d] - 1)'
      BY <1>10, <3>3 DEF Settled
    <3>5. QED
      BY <1>2, <1>9, <1>11, <2>1, <3>1, <3>3, <3>4 DEF Driving, Driven, Request
  <2>2. CASE pc'[d] = "name"
    BY <1>2, <1>3, <1>9, <1>10, <1>11, <2>2 DEF Driving, Driven, Settled
  <2>3. CASE pc'[d] = "exited"
    BY <1>3, <1>9, <1>11, <2>3 DEF Driving, Driven
  <2>4. QED
    BY <1>3, <2>1, <2>2, <2>3
<1>13. QED
  BY <1>1, <1>5, <1>7, <1>8, <1>12 DEF DrivesInv

\* The driver goes on to an item, behind those that are settled.
LEMMA OnTo ==
    ASSUME DrivesInv, NEW d \in Drivers, pc[d] = "wait",
           NEW n \in Nat \ {0}, NEW a \in {1, 2}, Go(d, job[d], n, a),
           a = 2 => <<d, n, 1>> \in sent,
           n <= Len(Plan(job[d])) + 1,
           DOMAIN got' = Drivers, DOMAIN failed' = Drivers, DOMAIN usage' = Drivers,
           DOMAIN got'[d] = Langs, DOMAIN usage'[d] = Langs,
           \A e \in Drivers : e # d => /\ got'[e] = got[e] /\ failed'[e] = failed[e]
                                       /\ usage'[e] = usage[e],
           UNCHANGED <<serviceVars, job, endVars, clock>>,
           NEW m, m = n - 1, Settled(d, m)', Keeps(d)'
    PROVE  DrivesInv'
<1>1. /\ DriverFamilies /\ clock \in Seconds /\ ServiceInv /\ \A e \in Drivers : Driving(e)
      /\ job' = job /\ date' = date /\ code' = code /\ clock' = clock
  BY DEF DrivesInv, endVars
<1> DEFINE P == Plan(job[d])
<1>2. Driven(d) /\ job[d] \in Jobs /\ IdsPair(job[d]) /\ date[d] = -1
  BY <1>1 DEF Driving, Driven
<1>3. Len(P) \in Nat /\ Len(P) <= MaxPlan /\ MaxPlan \in Nat
  BY <1>1, <1>2, PlanOf
<1>4. /\ DOMAIN pc' = Drivers /\ DOMAIN at' = Drivers /\ DOMAIN attempt' = Drivers
      /\ sent' \in {sent, sent \cup {<<d, n, a>>}}
      /\ \A e \in Drivers : e # d => pc'[e] = pc[e] /\ at'[e] = at[e] /\ attempt'[e] = attempt[e]
      /\ n <= Len(P) => /\ pc'[d] = "wait" /\ at'[d] = n /\ attempt'[d] = a
                        /\ sent' = sent \cup {<<d, n, a>>}
      /\ ~(n <= Len(P)) => pc'[d] = "name" /\ sent' = sent
  BY <1>1, Goes
<1>5. sent \subseteq sent' /\ sent' \subseteq Requests /\ \A r \in sent' : r \notin sent => r[1] = d
  <2>1. n <= Len(P) => <<d, n, a>> \in Requests
    BY <1>3 DEF Requests
  <2>2. QED
    BY <1>1, <1>4, <2>1 DEF ServiceInv
<1>6. pc'[d] \in {"wait", "name"}
  BY <1>4
<1>7. ServiceInv'
  BY <1>1, <1>4, <1>5, <1>6, ServiceStays
<1>8. Onward
  BY <1>5 DEF Onward, serviceVars
<1>9. \A e \in Drivers : e # d => Driving(e)'
  BY <1>1, <1>4, <1>8, StillDriving DEF Still
<1>10. DriverFamilies'
  BY <1>1, <1>4 DEF DriverFamilies
<1>11. Driving(d)'
  <2>1. CASE n <= Len(P)
    <3>1. at'[d] - 1 = m /\ at'[d] \in 1..Len(P)
      BY <1>3, <1>4, <2>1
    <3>2. Settled(d, at[d] - 1)'
      BY <3>1 DEF Settled
    <3>3. /\ pc'[d] = "wait" /\ attempt'[d] = a /\ at'[d] = n
          /\ <<d, n, a>> \in sent' /\ (a = 2 => <<d, n, 1>> \in sent')
      BY <1>4, <1>5, <2>1
    <3>4. Request(d)' = <<d, n, a>>
      BY <3>3 DEF Request
    <3>5. QED
      BY <1>1, <1>2, <3>1, <3>2, <3>3, <3>4 DEF Driving, Driven
  <2>2. CASE ~(n <= Len(P))
    <3>1. m = Len(P) /\ pc'[d] = "name"
      BY <1>3, <1>4, <2>2
    <3>2. Settled(d, Len(Plan(job[d])))'
      BY <1>1, <3>1 DEF Settled
    <3>3. QED
      BY <1>1, <1>2, <3>1, <3>2 DEF Driving, Driven
  <2>3. QED
    BY <2>1, <2>2
<1>12. QED
  BY <1>1, <1>7, <1>9, <1>10, <1>11 DEF DrivesInv

\* The item under way.
LEMMA UnderWay ==
    ASSUME DrivesInv, NEW d \in Drivers, pc[d] = "wait"
    PROVE  /\ at[d] \in 1..Len(Plan(job[d])) /\ Len(Plan(job[d])) \in Nat
           /\ at[d] \in Nat \ {0} /\ attempt[d] \in {1, 2}
           /\ Item(d) \in Langs \X Range(job[d].zh) /\ LangOf(Item(d)) \in Langs
           /\ Request(d) \in sent /\ (attempt[d] = 2 => <<d, at[d], 1>> \in sent)
           /\ Settled(d, at[d] - 1) /\ Keeps(d)
           /\ \A n \in 1..(at[d] - 1) : Plan(job[d])[n] # Item(d)
           /\ Item(d) \notin failed[d]
           /\ \A l \in Langs : Item(d) \notin DOMAIN got[d][l]
<1>1. Driving(d) /\ Driven(d)
  BY DEF DrivesInv, Driven
<1> DEFINE P == Plan(job[d])
<1>2. /\ Len(P) \in Nat
      /\ \A n \in 1..Len(P) : P[n] \in Langs \X Range(job[d].zh)
      /\ \A m, n \in 1..Len(P) : P[m] = P[n] => m = n
  BY <1>1, PlanOf
<1>3. /\ at[d] \in 1..Len(P) /\ attempt[d] \in {1, 2}
      /\ Request(d) \in sent /\ (attempt[d] = 2 => <<d, at[d], 1>> \in sent)
      /\ Settled(d, at[d] - 1) /\ Keeps(d)
  BY <1>1 DEF Driving
<1>4. Item(d) = P[at[d]]
  BY DEF Item
<1> HIDE DEF P
<1>5. Item(d) \in Langs \X Range(job[d].zh) /\ LangOf(Item(d)) \in Langs /\ at[d] \in Nat \ {0}
  BY <1>2, <1>3, <1>4 DEF LangOf
<1>6. \A n \in 1..(at[d] - 1) : P[n] # Item(d)
  <2>1. \A n \in 1..(at[d] - 1) : n \in 1..Len(P) /\ n # at[d]
    BY <1>2, <1>3
  <2>2. QED
    BY <1>2, <1>3, <1>4, <2>1
<1>7. /\ Item(d) \notin failed[d]
      /\ \A l \in Langs : Item(d) \notin DOMAIN got[d][l]
  BY <1>3, <1>6 DEF Settled, P
<1>8. QED
  BY <1>2, <1>3, <1>5, <1>6, <1>7 DEF P

\* An item more among those that are answered.
LEMMA SettledByAnswer ==
    ASSUME NEW d \in Drivers, NEW m \in Nat, Settled(d, m), NEW i, NEW l \in Langs,
           Plan(job[d])[m + 1] = i, i[1] = l, i \notin failed[d],
           \A n \in 1..m : Plan(job[d])[n][1] \in Langs,
           DOMAIN got'[d][l] = DOMAIN got[d][l] \cup {i},
           \A k \in Langs : k # l => got'[d][k] = got[d][k],
           job'[d] = job[d], failed'[d] = failed[d], sent \subseteq sent'
    PROVE  Settled(d, m + 1)'
<1> DEFINE P == Plan(job[d])
<1>1. P = Plan(job'[d])
  OBVIOUS
<1> HIDE DEF P
<1>2. \A n \in 1..(m + 1) : n \in 1..m \/ n = m + 1
  OBVIOUS
<1>3. \A n \in 1..m : n \in 1..(m + 1)
  OBVIOUS
<1>4. m + 1 \in 1..(m + 1)
  OBVIOUS
<1>5. /\ \A n \in 1..m : P[n] \in failed[d] \/ P[n] \in DOMAIN got[d][P[n][1]]
      /\ \A x \in failed[d] : \E n \in 1..m : P[n] = x /\ <<d, n, 1>> \in sent /\ <<d, n, 2>> \in sent
      /\ \A k \in Langs : \A x \in DOMAIN got[d][k] : x \notin failed[d] /\ \E n \in 1..m : P[n] = x
  BY DEF Settled, P
<1>6. P[m + 1] = i
  BY DEF P
<1>7. \A k \in Langs : DOMAIN got'[d][k] \subseteq DOMAIN got[d][k] \cup {i}
  OBVIOUS
<1>8. \A n \in 1..(m + 1) : P[n] \in failed'[d] \/ P[n] \in DOMAIN got'[d][P[n][1]]
  <2>1. ASSUME NEW n \in 1..m, P[n] \in DOMAIN got[d][P[n][1]]
        PROVE  P[n] \in DOMAIN got'[d][P[n][1]]
    <3>1. CASE P[n][1] = l
      BY <2>1, <3>1
    <3>2. CASE P[n][1] # l
      <4>1. P[n][1] \in Langs
        BY DEF P
      <4>2. QED
        BY <2>1, <3>2, <4>1
    <3>3. QED
      BY <3>1, <3>2
  <2>2. QED
    BY <1>2, <1>5, <1>6, <2>1
<1>9. \A x \in failed'[d] : \E n \in 1..(m + 1) : P[n] = x /\ <<d, n, 1>> \in sent' /\ <<d, n, 2>> \in sent'
  BY <1>3, <1>5
<1>10. \A k \in Langs : \A x \in DOMAIN got'[d][k] : x \notin failed'[d] /\ \E n \in 1..(m + 1) : P[n] = x
  BY <1>3, <1>4, <1>5, <1>6, <1>7
<1>11. QED
  BY <1>1, <1>8, <1>9, <1>10 DEF Settled

\* An item more among those that are given up.
LEMMA SettledByFailure ==
    ASSUME NEW d \in Drivers, NEW m \in Nat, Settled(d, m), NEW i,
           Plan(job[d])[m + 1] = i, \A k \in Langs : i \notin DOMAIN got[d][k],
           <<d, m + 1, 1>> \in sent', <<d, m + 1, 2>> \in sent',
           job'[d] = job[d], failed'[d] = failed[d] \cup {i}, got'[d] = got[d], sent \subseteq sent'
    PROVE  Settled(d, m + 1)'
<1> DEFINE P == Plan(job[d])
<1>1. P = Plan(job'[d])
  OBVIOUS
<1> HIDE DEF P
<1>2. \A n \in 1..(m + 1) : n \in 1..m \/ n = m + 1
  OBVIOUS
<1>3. \A n \in 1..m : n \in 1..(m + 1)
  OBVIOUS
<1>4. m + 1 \in 1..(m + 1)
  OBVIOUS
<1>5. /\ \A n \in 1..m : P[n] \in failed[d] \/ P[n] \in DOMAIN got[d][P[n][1]]
      /\ \A x \in failed[d] : \E n \in 1..m : P[n] = x /\ <<d, n, 1>> \in sent /\ <<d, n, 2>> \in sent
      /\ \A k \in Langs : \A x \in DOMAIN got[d][k] : x \notin failed[d] /\ \E n \in 1..m : P[n] = x
  BY DEF Settled, P
<1>6. P[m + 1] = i
  BY DEF P
<1>7. \A n \in 1..(m + 1) : P[n] \in failed'[d] \/ P[n] \in DOMAIN got'[d][P[n][1]]
  BY <1>2, <1>5, <1>6
<1>8. \A x \in failed'[d] : \E n \in 1..(m + 1) : P[n] = x /\ <<d, n, 1>> \in sent' /\ <<d, n, 2>> \in sent'
  BY <1>3, <1>4, <1>5, <1>6
<1>9. \A k \in Langs : \A x \in DOMAIN got'[d][k] : x \notin failed'[d] /\ \E n \in 1..(m + 1) : P[n] = x
  BY <1>3, <1>5
<1>10. QED
  BY <1>1, <1>7, <1>8, <1>9 DEF Settled

\* The answer to an item.
LEMMA ReplyDrives ==
    ASSUME DrivesInv, NEW d \in Drivers, Replied(d)
    PROVE  DrivesInv'
<1> DEFINE i == Item(d)
           l == LangOf(i)
           m == at[d]
           r == Request(d)
           old == got[d][l]
           new == With(old, i, answers[r][1])
<1>1. /\ pc[d] = "wait" /\ status[r] = "answered"
      /\ got' = [got EXCEPT ![d][l] = new]
      /\ usage' = [usage EXCEPT ![d][l] = @ + TokensOf(d)]
      /\ NextItem(d)
      /\ UNCHANGED <<serviceVars, job, failed, endVars, files, clock>>
  BY DEF Replied
<1>2. /\ m \in 1..Len(Plan(job[d])) /\ Len(Plan(job[d])) \in Nat
      /\ i \in Langs \X Range(job[d].zh) /\ l \in Langs /\ r \in sent
      /\ Settled(d, m - 1) /\ Keeps(d)
      /\ i \notin failed[d] /\ i \notin DOMAIN old
  BY <1>1, UnderWay
<1>3. /\ DriverFamilies /\ ServiceInv /\ Driving(d) /\ Driven(d)
  BY <1>1 DEF DrivesInv, Driven
<1>4. i = Plan(job[d])[m] /\ r \in Requests /\ r[1] = d /\ r[2] = m /\ i[1] = l
  BY <1>2, <1>3 DEF Item, Request, ServiceInv, LangOf
<1>5. paid[r] /\ answers[r] = <<i>>
  BY <1>1, <1>2, <1>3, <1>4 DEF ServiceInv
<1>6. TokensOf(d) = 1 /\ answers[r][1] = i
  BY <1>5 DEF TokensOf
<1> HIDE DEF i, l, r
<1>7. DOMAIN new = DOMAIN old \cup {i} /\ new[i] = i /\ \A x \in DOMAIN old : new[x] = old[x]
  BY <1>2, <1>6 DEF With
<1> HIDE DEF new
<1>8. /\ DOMAIN got' = Drivers /\ DOMAIN usage' = Drivers
      /\ DOMAIN got'[d] = Langs /\ DOMAIN usage'[d] = Langs
      /\ got'[d][l] = new /\ usage'[d][l] = usage[d][l] + 1
      /\ \A k \in Langs : k # l => got'[d][k] = got[d][k] /\ usage'[d][k] = usage[d][k]
      /\ \A e \in Drivers : e # d => got'[e] = got[e] /\ usage'[e] = usage[e]
  BY <1>1, <1>2, <1>3, <1>6 DEF DriverFamilies
<1>9. Keeps(d)'
  <2>1. /\ job' = job /\ paid' = paid
    BY <1>1 DEF serviceVars
  <2>2. ASSUME NEW k \in Langs, k # l
        PROVE  /\ IsFiniteSet(DOMAIN got'[d][k])
               /\ usage'[d][k] = Cardinality(DOMAIN got'[d][k])
               /\ \A x \in DOMAIN got'[d][k] :
                    /\ x[1] = k /\ got'[d][k][x] = x
                    /\ \E q \in Requests : q[1] = d /\ paid'[q] /\ Plan(job'[d])[q[2]] = x
    BY <1>2, <1>8, <2>1, <2>2 DEF Keeps
  <2>3. /\ IsFiniteSet(DOMAIN old) /\ usage[d][l] = Cardinality(DOMAIN old)
        /\ \A x \in DOMAIN old : /\ x[1] = l /\ old[x] = x
                                 /\ \E q \in Requests : q[1] = d /\ paid[q] /\ Plan(job[d])[q[2]] = x
    BY <1>2 DEF Keeps
  <2>4. IsFiniteSet(DOMAIN new) /\ Cardinality(DOMAIN new) = usage[d][l] + 1
    BY <1>2, <1>7, <2>3, FS_AddElement
  <2>5. \A x \in DOMAIN new : x[1] = l /\ new[x] = x
    BY <1>4, <1>7, <2>3
  <2>6. \A x \in DOMAIN new : \E q \in Requests : q[1] = d /\ paid'[q] /\ Plan(job'[d])[q[2]] = x
    BY <1>4, <1>5, <1>7, <2>1, <2>3
  <2>7. QED
    BY <1>8, <2>2, <2>4, <2>5, <2>6 DEF Keeps
<1>10. \A n \in 1..(m - 1) : Plan(job[d])[n][1] \in Langs
  <2>1. \A n \in 1..Len(Plan(job[d])) : Plan(job[d])[n] \in Langs \X Range(job[d].zh)
    BY <1>3, PlanOf
  <2>2. \A n \in 1..(m - 1) : n \in 1..Len(Plan(job[d]))
    BY <1>2
  <2>3. QED
    BY <2>1, <2>2
<1>11. sent \subseteq sent'
  <2>1. Go(d, job[d], m + 1, 1)
    BY <1>1 DEF NextItem
  <2>2. QED
    BY <1>3, <2>1, Goes
<1>12. PICK p \in Nat : p = m
  BY <1>2
<1>13. Settled(d, p)'
  <2>1. p - 1 \in Nat /\ Settled(d, p - 1) /\ (p - 1) + 1 = p /\ p - 1 = m - 1
    BY <1>2, <1>12
  <2>2. Plan(job[d])[(p - 1) + 1] = i
    BY <1>4, <1>12, <2>1
  <2>3. \A n \in 1..(p - 1) : Plan(job[d])[n][1] \in Langs
    BY <1>10, <2>1
  <2>4. /\ DOMAIN got'[d][l] = DOMAIN got[d][l] \cup {i} /\ job'[d] = job[d] /\ failed'[d] = failed[d]
        /\ \A k \in Langs : k # l => got'[d][k] = got[d][k]
    BY <1>1, <1>7, <1>8
  <2>5. Settled(d, (p - 1) + 1)'
    BY <1>2, <1>4, <1>11, <2>1, <2>2, <2>3, <2>4, SettledByAnswer
  <2>6. QED
    BY <2>1, <2>5
<1>14. /\ m + 1 \in Nat \ {0} /\ m + 1 <= Len(Plan(job[d])) + 1 /\ p = (m + 1) - 1
       /\ Go(d, job[d], m + 1, 1)
  BY <1>1, <1>2, <1>12 DEF NextItem
<1>15. DOMAIN failed' = Drivers /\ \A e \in Drivers : e # d => failed'[e] = failed[e]
  BY <1>1, <1>3 DEF DriverFamilies
<1>16. PICK q \in Nat \ {0} : q = m + 1
  BY <1>14
<1>17. Go(d, job[d], q, 1) /\ q <= Len(Plan(job[d])) + 1 /\ p = q - 1
  BY <1>14, <1>16
<1>18. PICK a \in {1, 2} : a = 1
  OBVIOUS
<1>19. Go(d, job[d], q, a) /\ (a = 2 => <<d, q, 1>> \in sent)
  BY <1>17, <1>18
<1>20. QED
  BY <1>1, <1>8, <1>9, <1>13, <1>15, <1>17, <1>19, OnTo

\* A try without a reply.
LEMMA SilenceDrives ==
    ASSUME DrivesInv, NEW d \in Drivers, Refused(d) \/ Lost(d)
    PROVE  DrivesInv'
<1> DEFINE i == Item(d)
           m == at[d]
<1>1. /\ pc[d] = "wait"
      /\ IF attempt[d] < 2
           THEN Go(d, job[d], m, attempt[d] + 1) /\ UNCHANGED failed
           ELSE /\ failed' = [failed EXCEPT ![d] = @ \cup {i}]
                /\ Go(d, job[d], m + 1, 1)
      /\ UNCHANGED <<serviceVars, job, got, usage, endVars, files, clock>>
  BY DEF Refused, Lost, NoReply, NextAttempt, GivenUp, NextItem
<1>2. /\ m \in 1..Len(Plan(job[d])) /\ Len(Plan(job[d])) \in Nat /\ m \in Nat \ {0}
      /\ attempt[d] \in {1, 2} /\ Request(d) \in sent /\ (attempt[d] = 2 => <<d, m, 1>> \in sent)
      /\ Settled(d, m - 1) /\ Keeps(d)
      /\ i \notin failed[d] /\ \A l \in Langs : i \notin DOMAIN got[d][l]
      /\ i = Plan(job[d])[m]
  BY <1>1, UnderWay DEF Item
<1>3. DriverFamilies
  BY DEF DrivesInv
<1>4. /\ DOMAIN got' = Drivers /\ DOMAIN usage' = Drivers
      /\ DOMAIN got'[d] = Langs /\ DOMAIN usage'[d] = Langs
      /\ got' = got /\ usage' = usage
  BY <1>1, <1>3 DEF DriverFamilies
<1>5. Keeps(d)'
  BY <1>1, <1>2, KeptStays DEF serviceVars
<1> HIDE DEF i
<1>6. PICK p \in Nat : p = m
  BY <1>2
<1>7. CASE attempt[d] < 2
  <2>1. attempt[d] = 1 /\ Request(d) = <<d, m, 1>> /\ attempt[d] + 1 = 2
    BY <1>2, <1>7 DEF Request
  <2>2. Go(d, job[d], m, 2) /\ failed' = failed
    BY <1>1, <1>7, <2>1
  <2>3. sent \subseteq sent'
    BY <1>3, <2>2, Goes
  <2>4. p - 1 \in Nat /\ p - 1 = m - 1
    BY <1>2, <1>6
  <2>5. Settled(d, p - 1)'
    BY <1>1, <1>2, <1>4, <2>2, <2>3, <2>4, SettledStays
  <2>6. m <= Len(Plan(job[d])) + 1
    BY <1>2
  <2>7. DOMAIN failed' = Drivers
    BY <1>3, <2>2 DEF DriverFamilies
  <2>8. QED
    BY <1>1, <1>2, <1>4, <1>5, <2>1, <2>2, <2>4, <2>5, <2>6, <2>7, OnTo
<1>8. CASE ~(attempt[d] < 2)
  <2>1. attempt[d] = 2 /\ Request(d) = <<d, m, 2>>
    BY <1>2, <1>8 DEF Request
  <2>2. /\ Go(d, job[d], m + 1, 1) /\ DOMAIN failed' = Drivers
        /\ failed'[d] = failed[d] \cup {i}
        /\ \A e \in Drivers : e # d => failed'[e] = failed[e]
    BY <1>1, <1>3, <1>8 DEF DriverFamilies
  <2>3. sent \subseteq sent'
    BY <1>3, <2>2, Goes
  <2>4. p - 1 \in Nat /\ p - 1 = m - 1 /\ (p - 1) + 1 = p /\ Settled(d, p - 1)
    BY <1>2, <1>6
  <2>5. <<d, p, 1>> \in sent' /\ <<d, p, 2>> \in sent'
    BY <1>2, <1>6, <2>1, <2>3
  <2>6. Plan(job[d])[(p - 1) + 1] = i /\ job'[d] = job[d]
    BY <1>1, <1>2, <1>6, <2>4
  <2>7. Settled(d, (p - 1) + 1)'
    BY <1>2, <1>4, <2>2, <2>3, <2>4, <2>5, <2>6, SettledByFailure
  <2>8. /\ m + 1 \in Nat \ {0} /\ m + 1 <= Len(Plan(job[d])) + 1 /\ p = (m + 1) - 1
        /\ Settled(d, p)'
    BY <1>2, <1>6, <2>4, <2>7
  <2>9. PICK q \in Nat \ {0} : q = m + 1
    BY <2>8
  <2>10. Go(d, job[d], q, 1) /\ q <= Len(Plan(job[d])) + 1 /\ p = q - 1
    BY <2>2, <2>8, <2>9
  <2>11. PICK a \in {1, 2} : a = 1
    OBVIOUS
  <2>12. Go(d, job[d], q, a) /\ (a = 2 => <<d, q, 1>> \in sent) /\ Settled(d, p)'
    BY <2>8, <2>10, <2>11
  <2>13. QED
    BY <1>1, <1>4, <1>5, <2>2, <2>10, <2>12, OnTo
<1>9. QED
  BY <1>7, <1>8

\* A driver that is done with its items, or killed.
LEMMA WritingDrives ==
    ASSUME DrivesInv, NEW d \in Drivers, Driven(d), pc[d] # "idle",
           UNCHANGED <<serviceVars, runVars>> \/ UNCHANGED <<serviceVars, job, at, attempt, sent, got, failed, usage>>,
           UNCHANGED clock,
           DOMAIN pc' = Drivers, DOMAIN date' = Drivers, DOMAIN code' = Drivers,
           \A e \in Drivers : e # d => pc'[e] = pc[e] /\ date'[e] = date[e] /\ code'[e] = code[e],
           pc'[d] \in {"open", "fill", "exited", "killed"},
           date'[d] = date[d] \/ pc[d] = "name",
           pc'[d] \in {"open", "fill"} => date'[d] # -1,
           pc'[d] = "exited" => date'[d] # -1 /\ code'[d] = ExitCode(d)
    PROVE  DrivesInv'
<1>1. /\ DriverFamilies /\ clock \in Seconds /\ ServiceInv /\ \A e \in Drivers : Driving(e)
      /\ UNCHANGED <<serviceVars, job, at, attempt, sent, got, failed, usage, clock>>
  BY DEF DrivesInv, runVars
<1>2. ServiceInv' /\ Onward
  <2>1. /\ sent \subseteq sent' /\ sent' \subseteq Requests /\ sent' = sent
        /\ \A r \in sent' : r \notin sent => r[1] = d
    BY <1>1 DEF ServiceInv
  <2>2. pc'[d] # "idle"
    OBVIOUS
  <2>3. ServiceInv'
    BY <1>1, <2>1, <2>2, ServiceStays
  <2>4. QED
    BY <1>1, <2>3 DEF Onward, serviceVars
<1>3. \A e \in Drivers : e # d => Driving(e)'
  BY <1>1, <1>2, StillDriving DEF Still
<1>4. DriverFamilies'
  BY <1>1 DEF DriverFamilies
<1>5. Keeps(d)' /\ job'[d] \in Jobs /\ IdsPair(job'[d])
  BY <1>1, <1>2, KeptStays DEF Driving, Onward
<1>6. date'[d] # -1 => Settled(d, Len(Plan(job[d])))'
  <2>1. date'[d] # -1 => Settled(d, Len(Plan(job[d])))
    BY <1>1 DEF Driving
  <2>2. Settled(d, Len(Plan(job[d]))) => Settled(d, Len(Plan(job[d])))'
    BY <1>1 DEF Settled
  <2>3. QED
    BY <2>1, <2>2
<1>7. Driven(d)' /\ (pc'[d] = "exited" => code'[d] = ExitCode(d)')
  <2>1. ExitCode(d)' = ExitCode(d) /\ ExitCode(d) # 2
    BY <1>1 DEF ExitCode
  <2>2. QED
    BY <2>1 DEF Driven
<1>8. Driving(d)'
  BY <1>5, <1>6, <1>7 DEF Driving
<1>9. QED
  BY <1>1, <1>2, <1>3, <1>4, <1>8 DEF DrivesInv

\* The end of a run: its name, its files and its exit code.
LEMMA EndDrives ==
    ASSUME DrivesInv, NEW d \in Drivers, Name(d) \/ Open(d) \/ Fill(d) \/ Killed(d)
    PROVE  DrivesInv'
<1>1. DriverFamilies /\ clock \in Seconds /\ Driving(d) /\ clock # -1
  BY DEF DrivesInv, Seconds
<1>2. CASE Name(d)
  <2>1. /\ pc[d] = "name" /\ pc' = [pc EXCEPT ![d] = "open"] /\ date' = [date EXCEPT ![d] = clock]
        /\ UNCHANGED <<serviceVars, job, at, attempt, sent, got, failed, usage, code, clock>>
    BY <1>2 DEF Name, Goto
  <2>2. Driven(d) /\ pc[d] # "idle"
    BY <2>1 DEF Driven
  <2>3. QED
    BY <1>1, <2>1, <2>2, WritingDrives DEF DriverFamilies
<1>3. CASE Open(d)
  <2>1. /\ pc[d] = "open" /\ pc' = [pc EXCEPT ![d] = "fill"]
        /\ UNCHANGED <<serviceVars, job, at, attempt, sent, got, failed, usage, date, code, clock>>
    BY <1>3 DEF Open, Goto, endVars
  <2>2. Driven(d) /\ pc[d] # "idle" /\ date[d] # -1
    BY <1>1, <2>1 DEF Driven, Driving
  <2>3. QED
    BY <1>1, <2>1, <2>2, WritingDrives DEF DriverFamilies
<1>4. CASE Fill(d)
  <2>1. /\ pc[d] = "fill"
        /\ \/ pc' = [pc EXCEPT ![d] = "open"] /\ code' = code
           \/ pc' = [pc EXCEPT ![d] = "exited"] /\ code' = [code EXCEPT ![d] = ExitCode(d)]
        /\ UNCHANGED <<serviceVars, job, at, attempt, sent, got, failed, usage, date, clock>>
    BY <1>4 DEF Fill, Goto
  <2>2. Driven(d) /\ pc[d] # "idle" /\ date[d] # -1
    BY <1>1, <2>1 DEF Driven, Driving
  <2>3. QED
    BY <1>1, <2>1, <2>2, WritingDrives DEF DriverFamilies
<1>5. CASE Killed(d)
  <2>1. /\ pc[d] \notin {"idle", "exited"} /\ pc' = [pc EXCEPT ![d] = "killed"]
        /\ code' = [code EXCEPT ![d] = 137]
        /\ UNCHANGED <<serviceVars, job, at, attempt, sent, got, failed, usage, date, clock>>
    BY <1>5 DEF Killed, Goto
  <2>2. Driven(d) /\ pc[d] # "idle"
    BY <1>1, <2>1 DEF Driven, Driving
  <2>3. QED
    BY <1>1, <2>1, <2>2, WritingDrives DEF DriverFamilies
<1>6. QED
  BY <1>2, <1>3, <1>4, <1>5

-----------------------------------------------------------------------------
(* The steps of the server. *)

\* One request moves on, if it has been sent.
LEMMA ServedOn ==
    ASSUME ServiceInv, NEW r \in Requests, r \in sent,
           UNCHANGED <<pc, job, sent>>,
           DOMAIN status' = Requests, DOMAIN asked' = Requests, DOMAIN answers' = Requests,
           paid' \in [Requests -> BOOLEAN],
           \A q \in Requests : q # r => /\ status'[q] = status[q] /\ asked'[q] = asked[q]
                                        /\ answers'[q] = answers[q] /\ paid'[q] = paid[q],
           asked'[r] = <<Plan(job[r[1]])[r[2]]>>,
           status'[r] = "answered" => paid'[r] /\ answers'[r] = asked'[r]
    PROVE  ServiceInv'
  BY DEF ServiceInv

\* The server takes a request, reads it, and answers, refuses or abandons it.
LEMMA ServerServes ==
    ASSUME ServiceInv, ServerStep
    PROVE  ServiceInv' /\ \A r \in Requests : paid[r] => paid'[r]
<1>1. PICK r \in sent : \/ Server!Take(r, <<Plan(job[r[1]])[r[2]]>>)
                        \/ Server!Pay(r) \/ Server!Answer(r) \/ Server!Refuse(r) \/ Server!Abandon(r)
  BY DEF ServerStep
<1>2. UNCHANGED <<pc, job, sent>>
  BY DEF ServerStep, runVars
<1>3. /\ r \in Requests
      /\ DOMAIN status = Requests /\ DOMAIN asked = Requests /\ DOMAIN answers = Requests
      /\ paid \in [Requests -> BOOLEAN]
      /\ status[r] # "none" => asked[r] = <<Plan(job[r[1]])[r[2]]>>
  BY DEF ServiceInv
<1> DEFINE prompt == Plan(job[r[1]])[r[2]]
<1> HIDE DEF prompt
<1>4. CASE Server!Take(r, <<Plan(job[r[1]])[r[2]]>>)
  <2>1. /\ asked' = [asked EXCEPT ![r] = <<prompt>>]
        /\ status' = [status EXCEPT ![r] = IF <<prompt>> = <<>> THEN "refused" ELSE "pending"]
        /\ paid' = paid /\ answers' = answers
    BY <1>4 DEF Server!Take, Server!To, prompt
  <2>2. asked'[r] = <<Plan(job[r[1]])[r[2]]>>
    BY <1>3, <2>1 DEF prompt
  <2>3. ServiceInv'
    BY <1>2, <1>3, <2>1, <2>2, ServedOn
  <2>4. QED
    BY <2>1, <2>3
<1>5. CASE Server!Pay(r)
  <2>1. /\ status[r] = "pending" /\ paid' = [paid EXCEPT ![r] = TRUE]
        /\ UNCHANGED <<status, asked, answers>>
    BY <1>5 DEF Server!Pay
  <2>2. ServiceInv'
    BY <1>2, <1>3, <2>1, ServedOn
  <2>3. QED
    BY <1>3, <2>1, <2>2
<1>6. CASE Server!Answer(r)
  <2>1. /\ status[r] = "pending" /\ paid[r] /\ answers' = [answers EXCEPT ![r] = asked[r]]
        /\ status' = [status EXCEPT ![r] = "answered"] /\ asked' = asked /\ paid' = paid
    BY <1>6 DEF Server!Answer, Server!To
  <2>2. ServiceInv'
    BY <1>2, <1>3, <2>1, ServedOn
  <2>3. QED
    BY <2>1, <2>2
<1>7. CASE Server!Refuse(r) \/ Server!Abandon(r)
  <2>1. /\ status[r] = "pending"
        /\ \/ status' = [status EXCEPT ![r] = "refused"]
           \/ status' = [status EXCEPT ![r] = "abandoned"]
        /\ asked' = asked /\ paid' = paid /\ answers' = answers
    BY <1>7 DEF Server!Refuse, Server!Abandon, Server!To
  <2>2. status'[r] # "answered" /\ DOMAIN status' = Requests
        /\ \A q \in Requests : q # r => status'[q] = status[q]
    BY <1>3, <2>1
  <2>3. ServiceInv'
    BY <1>2, <1>3, <2>1, <2>2, ServedOn
  <2>4. QED
    BY <2>1, <2>3
<1>8. QED
  BY <1>1, <1>4, <1>5, <1>6, <1>7

\* No step disturbs what is known of the drivers.
LEMMA DrivesOn == DrivesInv /\ [Next]_vars => DrivesInv'
<1> SUFFICES ASSUME DrivesInv, [Next]_vars PROVE DrivesInv'
  OBVIOUS
<1>1. /\ DriverFamilies /\ clock \in Seconds /\ ServiceInv /\ \A e \in Drivers : Driving(e)
  BY DEF DrivesInv
<1>2. ASSUME UNCHANGED <<runVars, endVars>>, clock' \in Seconds, ServiceInv',
             \A r \in Requests : paid[r] => paid'[r]
      PROVE  DrivesInv'
  <2>1. Onward /\ \A e \in Drivers : Still(e)
    BY <1>2 DEF Onward, Still, runVars, endVars
  <2>2. DriverFamilies'
    BY <1>1, <1>2 DEF DriverFamilies, runVars, endVars
  <2>3. QED
    BY <1>1, <1>2, <2>1, <2>2, StillDriving DEF DrivesInv
<1>3. CASE ServerStep
  BY <1>1, <1>2, <1>3, ServerServes DEF ServerStep
<1>4. CASE Tick \/ UNCHANGED vars
  <2>1. UNCHANGED <<serviceVars, runVars, endVars>> /\ clock' \in Seconds
    BY <1>1, <1>4, DriverAssumption DEF Tick, vars, Seconds
  <2>2. ServiceInv' /\ paid' = paid
    BY <1>1, <2>1 DEF ServiceInv, serviceVars, runVars
  <2>3. QED
    BY <1>2, <2>1, <2>2
<1>5. QED
  BY <1>3, <1>4, StartDrives, ReplyDrives, SilenceDrives, EndDrives DEF Next, DriverStep

\* Nobody has started.
LEMMA DrivesFirst == Init => DrivesInv
<1> SUFFICES ASSUME Init PROVE DrivesInv
  OBVIOUS
<1>1. DriverFamilies /\ clock \in Seconds
  BY DriverAssumption DEF Init, DriverFamilies, Seconds
<1>2. ServiceInv
  BY DEF Init, Server!ServiceInit, ServiceInv
<1>3. ASSUME NEW d \in Drivers PROVE Driving(d)
  <2>1. /\ pc[d] = "idle" /\ date[d] = -1 /\ failed[d] = {}
        /\ \A l \in Langs : got[d][l] = <<>> /\ usage[d][l] = 0
    BY <1>3 DEF Init
  <2>2. Keeps(d)
    <3>1. \A l \in Langs : DOMAIN got[d][l] = {} /\ usage[d][l] = 0
      BY <2>1
    <3>2. IsFiniteSet({}) /\ Cardinality({}) = 0
      BY FS_EmptySet
    <3>3. QED
      BY <3>1, <3>2 DEF Keeps
  <2>3. QED
    BY <2>1, <2>2 DEF Driving, Driven
<1>4. QED
  BY <1>1, <1>2, <1>3 DEF DrivesInv

\* The invariant of the drivers.
THEOREM DrivesInvariant == Spec => []DrivesInv
  BY DrivesFirst, DrivesOn, PTL DEF Spec

-----------------------------------------------------------------------------
(* The usage. *)

\* A driver has finitely many requests.
LEMMA RequestsOfDriver ==
    ASSUME NEW d \in Drivers
    PROVE  IsFiniteSet({r \in Requests : r[1] = d})
<1> DEFINE mine == {r \in Requests : r[1] = d}
           pairs == (1..MaxPlan) \X (1..2)
           f == [p \in pairs |-> <<d, p[1], p[2]>>]
<1>1. MaxPlan \in Nat
  BY DriverAssumption, JobKeys
<1>2. IsFiniteSet(1..MaxPlan) /\ IsFiniteSet(1..2)
  <2> DEFINE n == MaxPlan
  <2>1. n \in Nat
    BY <1>1
  <2> HIDE DEF n
  <2>2. IsFiniteSet(1..n)
    BY <2>1, FS_Interval
  <2>3. IsFiniteSet(1..2)
    <3>1. 1..2 = {1} \cup {2}
      OBVIOUS
    <3>2. IsFiniteSet({1}) /\ IsFiniteSet({2})
      BY FS_Singleton
    <3>3. IsFiniteSet({1} \cup {2})
      BY <3>2, FS_Union
    <3>4. QED
      BY <3>1, <3>3
  <2>4. QED
    BY <2>2, <2>3 DEF n
<1>3. IsFiniteSet(pairs)
  BY <1>2, FS_Product
<1>4. \A r \in mine : \E p \in pairs : f[p] = r
  <2> SUFFICES ASSUME NEW r \in mine
               PROVE  \E p \in pairs : f[p] = r
    OBVIOUS
  <2>1. <<r[2], r[3]>> \in pairs /\ r = <<d, r[2], r[3]>>
    BY DEF Requests
  <2>2. f[<<r[2], r[3]>>] = r
    BY <2>1
  <2>3. QED
    BY <2>1, <2>2
<1>5. \A p \in pairs : f[p] \in mine
  BY DEF Requests
<1>6. f \in Surjection(pairs, mine)
  BY <1>4, <1>5 DEF Surjection
<1>7. QED
  BY <1>3, <1>6, FS_Surjection

\* The usage a run reports counts every answer it kept, once, and for each of
\* them a request was paid for: however many replies were lost.
THEOREM UsageCountsAnswers == Spec => []UsageCountsKeptAnswers
<1>1. DrivesInv => UsageCountsKeptAnswers
  <2> SUFFICES ASSUME DrivesInv, NEW d \in Drivers
               PROVE  /\ \A l \in Langs : usage[d][l] = Cardinality(DOMAIN got[d][l])
                      /\ usage[d].zh + usage[d].en
                            <= Cardinality({r \in Requests : r[1] = d /\ paid[r]})
    BY DEF UsageCountsKeptAnswers
  <2> DEFINE Z == DOMAIN got[d].zh
             E == DOMAIN got[d].en
             R == {r \in Requests : r[1] = d /\ paid[r]}
             P == Plan(job[d])
             g == [i \in Z \cup E |-> CHOOSE r \in R : P[r[2]] = i]
  <2>1. \A l \in Langs : /\ IsFiniteSet(DOMAIN got[d][l])
                         /\ usage[d][l] = Cardinality(DOMAIN got[d][l])
                         /\ \A i \in DOMAIN got[d][l] : i[1] = l /\ \E r \in R : P[r[2]] = i
    <3>1. Keeps(d)
      BY DEF DrivesInv, Driving
    <3>2. QED
      BY <3>1 DEF Keeps
  <2>2. /\ IsFiniteSet(Z) /\ IsFiniteSet(E)
        /\ usage[d].zh = Cardinality(Z) /\ usage[d].en = Cardinality(E)
        /\ \A i \in Z : i[1] = "zh" /\ \E r \in R : P[r[2]] = i
        /\ \A i \in E : i[1] = "en" /\ \E r \in R : P[r[2]] = i
    BY <2>1 DEF Langs
  <2> HIDE DEF P
  <2>3. IsFiniteSet(R)
    <3>1. R \subseteq {r \in Requests : r[1] = d}
      OBVIOUS
    <3>2. QED
      BY <3>1, RequestsOfDriver, FS_Subset
  <2> HIDE DEF R, Z, E
  <2>4. Z \cap E = {}
    BY <2>2
  <2>5. Cardinality(Z \cup E) = Cardinality(Z) + Cardinality(E)
    <3>1. Cardinality(Z) \in Nat /\ Cardinality(E) \in Nat /\ Cardinality({}) = 0
      BY <2>2, FS_CardinalityType, FS_EmptySet
    <3>2. Cardinality(Z \cup E) = Cardinality(Z) + Cardinality(E) - Cardinality({})
      BY <2>2, <2>4, FS_Union
    <3>3. \A x, y \in Nat : x + y - 0 = x + y
      OBVIOUS
    <3>4. QED
      BY <3>1, <3>2, <3>3
  <2>6. \A i \in Z \cup E : g[i] \in R /\ P[g[i][2]] = i
    <3> SUFFICES ASSUME NEW i \in Z \cup E
                 PROVE  g[i] \in R /\ P[g[i][2]] = i
      OBVIOUS
    <3>1. \E r \in R : P[r[2]] = i
      BY <2>2
    <3>2. g[i] = CHOOSE r \in R : P[r[2]] = i
      OBVIOUS
    <3>3. QED
      BY <3>1, <3>2
  <2>7. g \in Injection(Z \cup E, R)
    BY <2>6 DEF Injection, IsInjective
  <2>8. Cardinality(Z \cup E) <= Cardinality(R)
    BY <2>3, <2>7, FS_Injection
  <2>9. QED
    BY <2>1, <2>2, <2>5, <2>8 DEF R
<1>2. QED
  BY <1>1, DrivesInvariant, PTL

-----------------------------------------------------------------------------
(* The exit code. *)

\* The items of a driver under way are those of its plan.
LEMMA ItemsArePlanned ==
    ASSUME NEW d \in Drivers, Driving(d), Driven(d)
    PROVE  ItemsOf(d) = Langs \X Range(job[d].zh)
<1>1. Range(job[d].zh) = Range(job[d].en)
  BY DEF Driving, IdsPair
<1>2. QED
  BY <1>1 DEF ItemsOf, Langs

\* When every item is settled, it is answered or given up, each given up after
\* two tries.
LEMMA AllSettled ==
    ASSUME DrivesInv, NEW d \in Drivers, date[d] # -1
    PROVE  /\ Driven(d)
           /\ \A l \in Langs : \A i \in DOMAIN got[d][l] :
                i \in ItemsOf(d) /\ i[1] = l /\ got[d][l][i] = i
           /\ \A i \in ItemsOf(d) : i \notin DOMAIN got[d].zh \cup DOMAIN got[d].en => i \in failed[d]
           /\ \A i \in failed[d] : /\ i \in ItemsOf(d)
                                   /\ i \notin DOMAIN got[d].zh \cup DOMAIN got[d].en
                                   /\ Tries(d, i) \subseteq sent
<1> DEFINE P == Plan(job[d])
<1>1. Driving(d) /\ Driven(d) /\ Settled(d, Len(P)) /\ Keeps(d)
  BY DEF DrivesInv, Driving
<1>2. /\ ItemsOf(d) = Langs \X Range(job[d].zh)
      /\ Len(P) \in Nat /\ DOMAIN P = 1..Len(P)
      /\ \A n \in 1..Len(P) : P[n] \in ItemsOf(d)
      /\ \A m, n \in 1..Len(P) : P[m] = P[n] => m = n
      /\ \A i \in ItemsOf(d) : \E n \in 1..Len(P) : P[n] = i
  BY <1>1, PlanOf, ItemsArePlanned
<1>3. /\ \A n \in 1..Len(P) : P[n] \in failed[d] \/ P[n] \in DOMAIN got[d][P[n][1]]
      /\ \A i \in failed[d] : \E n \in 1..Len(P) : P[n] = i /\ <<d, n, 1>> \in sent /\ <<d, n, 2>> \in sent
      /\ \A l \in Langs : \A i \in DOMAIN got[d][l] : i \notin failed[d] /\ \E n \in 1..Len(P) : P[n] = i
  BY <1>1 DEF Settled
<1>4. \A i \in failed[d] : Tries(d, i) \subseteq sent
  <2> SUFFICES ASSUME NEW i \in failed[d], NEW r \in Tries(d, i)
               PROVE  r \in sent
    OBVIOUS
  <2>1. PICK n \in 1..Len(P) : P[n] = i /\ <<d, n, 1>> \in sent /\ <<d, n, 2>> \in sent
    BY <1>3
  <2>2. r \in Requests /\ r[1] = d /\ r[2] \in 1..Len(P) /\ P[r[2]] = i
    BY <1>2 DEF Tries
  <2>3. r[2] = n
    BY <1>2, <2>1, <2>2
  <2>4. r = <<d, n, 1>> \/ r = <<d, n, 2>>
    BY <2>2, <2>3 DEF Requests
  <2>5. QED
    BY <2>1, <2>4
<1> HIDE DEF P
<1>5. \A l \in Langs : \A i \in DOMAIN got[d][l] : i \in ItemsOf(d) /\ i[1] = l /\ got[d][l][i] = i
  BY <1>1, <1>2, <1>3 DEF Keeps
<1>6. ASSUME NEW i \in ItemsOf(d), i \notin DOMAIN got[d].zh \cup DOMAIN got[d].en
      PROVE  i \in failed[d]
  <2>1. PICK n \in 1..Len(P) : P[n] = i
    BY <1>2
  <2>2. i \in failed[d] \/ i \in DOMAIN got[d][i[1]]
    BY <1>3, <2>1
  <2>3. i[1] \in {"zh", "en"}
    BY <1>2 DEF Langs
  <2>4. QED
    BY <1>6, <2>2, <2>3
<1>7. \A i \in failed[d] : i \in ItemsOf(d) /\ i \notin DOMAIN got[d].zh \cup DOMAIN got[d].en
  <2>1. ASSUME NEW i \in failed[d]
        PROVE  i \in ItemsOf(d)
    <3>1. PICK n \in 1..Len(P) : P[n] = i
      BY <1>3
    <3>2. P[n] \in ItemsOf(d)
      BY <1>2
    <3>3. QED
      BY <3>1, <3>2
  <2>2. "zh" \in Langs /\ "en" \in Langs
    BY DEF Langs
  <2>3. QED
    BY <1>3, <2>1, <2>2
<1>8. QED
  BY <1>1, <1>4, <1>5, <1>6, <1>7

\* A run that exits 0 leaves an answer to each of its items, one that exits 1
\* leaves out those it tried twice; what it leaves are its own answers, whatever
\* was lost on the way and whoever else writes into the directory.
THEOREM ExitCodeIsHonest == ASSUME OneRunPerSecond PROVE Spec => []ExitCodeTellsCoverage
<1>1. DirectoryInv /\ DrivesInv => ExitCodeTellsCoverage
  <2> SUFFICES ASSUME DirectoryInv, DrivesInv, NEW d \in Drivers, Ended(d)
               PROVE  LET found(l) == files[<<date[d], l>>].answers
                          missing == ItemsOf(d) \ (DOMAIN found("zh") \cup DOMAIN found("en"))
                      IN  /\ \A l \in Langs : \A i \in DOMAIN found(l) :
                                i \in ItemsOf(d) /\ i[1] = l /\ found(l)[i] = i
                          /\ (code[d] = 0) = (missing = {})
                          /\ \A i \in missing : Tries(d, i) \subseteq sent
    BY DEF ExitCodeTellsCoverage
  <2> DEFINE found(l) == files[<<date[d], l>>].answers
             missing == ItemsOf(d) \ (DOMAIN found("zh") \cup DOMAIN found("en"))
  <2>1. date[d] # -1 /\ Wrote(d, 4, "absent") /\ code[d] = ExitCode(d)
    BY DEF Ended, DirectoryInv, Run, DrivesInv, Driving
  <2>2. found("zh") = got[d].zh /\ found("en") = got[d].en
    BY <2>1, NamesRange DEF Wrote, FileAt, WholeFile, Content
  <2>3. \A l \in Langs : found(l) = got[d][l]
    BY <2>2 DEF Langs
  <2>4. missing = ItemsOf(d) \ (DOMAIN got[d].zh \cup DOMAIN got[d].en)
    BY <2>2
  <2> HIDE DEF found, missing
  <2>5. missing = {} <=> failed[d] = {}
    BY <2>1, <2>4, AllSettled
  <2>6. (code[d] = 0) = (missing = {})
    BY <2>1, <2>5 DEF ExitCode
  <2>7. \A l \in Langs : \A i \in DOMAIN found(l) : i \in ItemsOf(d) /\ i[1] = l /\ found(l)[i] = i
    BY <2>1, <2>3, AllSettled
  <2>8. \A i \in missing : Tries(d, i) \subseteq sent
    BY <2>1, <2>4, AllSettled
  <2>9. QED
    BY <2>6, <2>7, <2>8 DEF found, missing
<1>2. QED
  BY <1>1, DirectoryInvariant, DrivesInvariant, PTL

-----------------------------------------------------------------------------
(* The acceptances. *)

Sealed(s) == s \in Seconds /\ FileAt(s, "meta") # NoFile

Found(s, l) == files[<<s, l>>].answers

\* Rows that give an answer give the one that was found.
RowsOf(rows, found, l) ==
    \A k \in Answered(rows) : <<l, k>> \in DOMAIN found /\ rows[k] = found[<<l, k>>]

\* What is in the files of second s, whoever wrote them last.
Shares(s, l) ==
    /\ RowsOf(predictions[<<s, l>>].rows, Found(s, l), l)
    /\ RowsOf(reports[<<s, l>>].report.rows, Found(s, l), l)
    /\ Sealed(s) \/ (predictions[<<s, l>>] = NoRows /\ reports[<<s, l>>] = NothingYet)

Step7 == {"summary", "tables", "pairs", "compare", "accepted"}
Work == {"import", "write rows", "load", "empty report", "write report", "load again",
         "verify", "tamper"} \cup Step7

\* Whether an acceptance at stage st of language la has, of language l, written
\* the predictions and the report, and read them back for the comparison.
WroteRows(st, la, l) ==
    \/ st \in Step7
    \/ l = "zh" /\ la = "en"
    \/ l = la /\ st \in {"load", "empty report", "write report", "load again", "verify", "tamper"}
WroteReport(st, la, l) ==
    \/ st \in Step7
    \/ l = "zh" /\ la = "en"
    \/ l = la /\ st \in {"load again", "verify", "tamper"}
HasReport(st, la, l) ==
    st \in {"pairs", "compare", "accepted"} \/ (st = "tables" /\ l = "zh" /\ la = "en")
HasRows(st, la, l) ==
    st \in {"compare", "accepted"} \/ (st = "pairs" /\ l = "zh" /\ la = "en")

\* What is then in the files p and r and what the acceptance holds, h, if no
\* other has picked its run; own are the rows it imports.
OnOwn(st, la, l, own, keys, p, r, h) ==
    LET report == [keys |-> keys, rows |-> own] IN
    /\ WroteRows(st, la, l) => p = [form |-> "whole", rows |-> own]
    /\ WroteReport(st, la, l) => r = [form |-> "whole", report |-> report]
    /\ l = la /\ st = "write rows" => p = NoRows
    /\ l = la /\ st = "write report" => r = NothingYet
    /\ l = la /\ st \in {"write rows", "empty report", "write report"} => h.rows = own
    /\ HasReport(st, la, l) => h.report = report
    /\ HasRows(st, la, l) => h.rows = own

GoesOn(d, l) ==
    OnOwn(stage[d], lang[d], l, ImportedRows(d, l), OwnKeys(d, l),
          predictions[<<picked[d], l>>], reports[<<picked[d], l>>], held[d][l])

\* What an acceptance knows of the run it has picked.
Accepting(d) ==
    /\ stage[d] \in {"gate", "drive", "pick"} =>
          picked[d] = NoDate /\ lang[d] = "zh" /\ \A l \in Langs : held[d][l] = Nothing
    /\ stage[d] \in Work =>
        /\ picked[d] # NoDate /\ Sealed(picked[d])
        /\ \A l \in Langs : /\ RowsOf(held[d][l].rows, Found(picked[d], l), l)
                            /\ RowsOf(held[d][l].report.rows, Found(picked[d], l), l)
                            /\ Alone(d) => GoesOn(d, l)
    /\ stage[d] = "accepted" =>
        compared[d] = {k \in OwnKeys(d, "zh") \cup OwnKeys(d, "en") : Paired(d, k)}

AcceptFamilies ==
    /\ DOMAIN stage = Drivers /\ DOMAIN sets = Drivers /\ DOMAIN picked = Drivers
    /\ lang \in [Drivers -> Langs]
    /\ DOMAIN held = Drivers /\ DOMAIN compared = Drivers
    /\ \A d \in Drivers : DOMAIN held[d] = Langs
    /\ \A d \in Drivers, l \in Langs : held[d][l] = [rows |-> held[d][l].rows, report |-> held[d][l].report]
    /\ DOMAIN predictions = Seconds \X Langs /\ DOMAIN reports = Seconds \X Langs

AcceptInv ==
    /\ AcceptFamilies
    /\ newest # NoDate => Sealed(newest)
    /\ \A s \in Seconds, l \in Langs : Shares(s, l)
    /\ \A d \in Drivers : Accepting(d)

\* A meta file that changes is there.
LEMMA MetaStays ==
    ASSUME DirectoryInv, [Next]_vars, NEW s \in Seconds,
           FileAt(s, "meta")' # FileAt(s, "meta")
    PROVE  FileAt(s, "meta")' # NoFile
<1>1. <<s, "meta">> \in DOMAIN files
  BY DEF DirectoryInv, Families
<1>2. PICK d \in Drivers : Open(d) \/ Fill(d)
  <2>1. files' # files
    BY DEF FileAt
  <2>2. QED
    BY <2>1 DEF Next, DriverStep, Start, Replied, Refused, Lost, NoReply, Name, Killed, ServerStep, Tick, vars
<1>3. CASE Open(d)
  <2>1. files'[<<s, "meta">>].by = d \/ files'[<<s, "meta">>] = files[<<s, "meta">>]
    BY <1>1, <1>3 DEF Open
  <2>2. QED
    BY <2>1, DriverAssumption DEF FileAt, NoFile
<1>4. CASE Fill(d)
  <2>1. files'[<<s, "meta">>].whole = TRUE \/ files'[<<s, "meta">>] = files[<<s, "meta">>]
    BY <1>1, <1>4 DEF Fill
  <2>2. QED
    BY <2>1 DEF FileAt, NoFile
<1>5. QED
  BY <1>2, <1>3, <1>4

\* A meta file that is there stays.
LEMMA SealedStays ==
    ASSUME DirectoryInv, [Next]_vars, NEW s, Sealed(s)
    PROVE  Sealed(s)'
  BY MetaStays DEF Sealed, FileAt

\* A run with a name keeps it, and its answers.
LEMMA NamedStays ==
    ASSUME DirectoryInv, [Next]_vars, NEW e \in Drivers, date[e] # -1
    PROVE  date'[e] = date[e] /\ got'[e] = got[e]
<1>1. Families /\ Run(e) /\ pc[e] \notin {"idle", "wait", "name"}
  BY DEF DirectoryInv, Run
<1>2. ASSUME NEW d \in Drivers, Name(d)
      PROVE  date'[e] = date[e] /\ got'[e] = got[e]
  BY <1>1, <1>2 DEF Name, Families
<1>3. ASSUME NEW d \in Drivers, Replied(d)
      PROVE  date'[e] = date[e] /\ got'[e] = got[e]
  BY <1>1, <1>3 DEF Replied, Families, endVars
<1>4. ASSUME NEW d \in Drivers, (\E j \in Jobs : Start(d, j)) \/ Refused(d) \/ Lost(d) \/ Open(d) \/ Fill(d) \/ Killed(d)
      PROVE  date' = date /\ got' = got
  BY <1>4 DEF Start, Refused, Lost, NoReply, Open, Fill, Killed, endVars
<1>5. CASE ServerStep \/ Tick \/ UNCHANGED vars
  BY <1>5 DEF ServerStep, Tick, vars, runVars, endVars
<1>6. QED
  BY <1>2, <1>3, <1>4, <1>5 DEF Next, DriverStep

\* What is behind a meta file is a whole run.
LEMMA SealedRun ==
    ASSUME DirectoryInv, NEW s, Sealed(s)
    PROVE  \E e \in Drivers : /\ date[e] = s /\ date[e] # -1
                              /\ FileAt(s, "zh") = WholeFile(e, "zh")
                              /\ FileAt(s, "en") = WholeFile(e, "en")
<1>1. PICK e \in Drivers : date[e] = s /\ Run(e)
  BY DEF DirectoryInv, OwnSeconds, Sealed
<1>2. date[e] # -1
  BY <1>1 DEF Sealed, Seconds
<1>3. PICK k \in 1..4, last \in {"torn", "absent"} : Wrote(e, k, last)
  BY <1>1, <1>2 DEF Run
<1>4. k >= 3
  BY <1>1, <1>3, NamesRange DEF Wrote, Sealed
<1>5. QED
  BY <1>1, <1>2, <1>3, <1>4, NamesRange DEF Wrote

\* The answers behind a meta file do not change any more.
LEMMA AnswersStay ==
    ASSUME DirectoryInv, [Next]_vars, NEW s, Sealed(s), NEW l \in Langs
    PROVE  FileAt(s, l)' = FileAt(s, l)
<1>1. Families /\ OwnSeconds /\ \A d \in Drivers : Run(d)
  BY DEF DirectoryInv
<1>2. SUFFICES ASSUME NEW d \in Drivers, Open(d) \/ Fill(d), date[d] = s
               PROVE  FileAt(s, l)' = FileAt(s, l)
  <2>1. CASE files' = files
    BY <2>1 DEF FileAt
  <2>2. CASE files' # files
    <3>1. PICK d \in Drivers : Open(d) \/ Fill(d)
      BY <2>2 DEF Next, DriverStep, Start, Replied, Refused, Lost, NoReply, Name, Killed, ServerStep, Tick, vars
    <3>2. ASSUME date[d] # s
          PROVE  FileAt(s, l)' = FileAt(s, l)
      <4>1. File(d) # <<s, l>>
        BY <3>2 DEF File
      <4>2. CASE Open(d)
        BY <4>1, <4>2 DEF Open, FileAt
      <4>3. CASE Fill(d)
        BY <4>1, <4>3 DEF Fill, FileAt
      <4>4. QED
        BY <3>1, <4>2, <4>3
    <3>3. QED
      BY <1>2, <3>1, <3>2
  <2>3. QED
    BY <2>1, <2>2
<1>3. pc[d] \in {"open", "fill"} /\ Run(d) /\ FileAt(date[d], "meta") # NoFile
  BY <1>1, <1>2 DEF Open, Fill, Sealed
<1>4. pc[d] = "fill" /\ todo[d] = Left(3)
  <2>1. \A k \in 1..3 : ~Wrote(d, k, "absent")
    BY <1>3, NamesRange DEF Wrote
  <2>2. \A k \in 1..3 : Wrote(d, k, "torn") => k = 3
    BY <1>3, NamesRange DEF Wrote
  <2>3. QED
    BY <1>3, <2>1, <2>2 DEF Run
<1>5. File(d) = <<s, "meta">>
  BY <1>2, <1>4, LeftTail DEF File
<1>6. File(d) # <<s, l>>
  BY <1>5 DEF Langs
<1>7. CASE Open(d)
  BY <1>6, <1>7 DEF Open, FileAt
<1>8. CASE Fill(d)
  BY <1>6, <1>8 DEF Fill, FileAt
<1>9. QED
  BY <1>2, <1>7, <1>8

\* Nor do rows that give what was found become others.
LEMMA SharesStay ==
    ASSUME DirectoryInv, [Next]_vars, NEW s \in Seconds, NEW l \in Langs, Shares(s, l),
           predictions'[<<s, l>>] = predictions[<<s, l>>], reports'[<<s, l>>] = reports[<<s, l>>]
    PROVE  Shares(s, l)'
<1>1. CASE Sealed(s)
  <2>1. Sealed(s)' /\ Found(s, l)' = Found(s, l)
    BY <1>1, SealedStays, AnswersStay DEF Found, FileAt
  <2>2. QED
    BY <2>1 DEF Shares
<1>2. CASE ~Sealed(s)
  <2>1. Answered(<<>>) = {}
    BY DEF Answered
  <2>2. predictions[<<s, l>>] = NoRows /\ reports[<<s, l>>] = NothingYet
    BY <1>2 DEF Shares
  <2>3. QED
    BY <2>1, <2>2 DEF Shares, RowsOf, NoRows, NothingYet, NoReport
<1>3. QED
  BY <1>1, <1>2

\* An acceptance a step leaves alone, and the files of its run too unless that
\* is shared.
LEMMA AcceptingStays ==
    ASSUME DirectoryInv, [Next]_vars, NEW d \in Drivers, Accepting(d),
           stage'[d] = stage[d], sets'[d] = sets[d], picked'[d] = picked[d],
           lang'[d] = lang[d], held'[d] = held[d], compared'[d] = compared[d],
           stage[d] \in Work /\ Alone(d)' =>
               /\ Alone(d)
               /\ \A l \in Langs : /\ predictions'[<<picked[d], l>>] = predictions[<<picked[d], l>>]
                                   /\ reports'[<<picked[d], l>>] = reports[<<picked[d], l>>]
    PROVE  Accepting(d)'
<1>1. ASSUME stage[d] \in Work
      PROVE  /\ picked'[d] # NoDate /\ Sealed(picked[d])'
             /\ \A l \in Langs : /\ RowsOf(held[d][l].rows, Found(picked[d], l), l)'
                                 /\ RowsOf(held[d][l].report.rows, Found(picked[d], l), l)'
                                 /\ Alone(d)' => GoesOn(d, l)'
  <2>1. PICK s : s = picked[d]
    OBVIOUS
  <2>2. Sealed(s) /\ Sealed(s)' /\ s # NoDate
    BY <1>1, <2>1, SealedStays DEF Accepting
  <2>3. \A l \in Langs : Found(s, l)' = Found(s, l)
    BY <2>2, AnswersStay DEF Found, FileAt
  <2>4. \A l \in Langs : ImportedRows(d, l)' = ImportedRows(d, l) /\ OwnKeys(d, l)' = OwnKeys(d, l)
    BY <2>1, <2>3 DEF ImportedRows, Found, OwnKeys
  <2>5. Sealed(picked[d])' /\ picked'[d] # NoDate
    BY <2>1, <2>2 DEF Sealed
  <2>6. \A l \in Langs : Found(picked[d], l)' = Found(picked[d], l)
    BY <2>1, <2>3 DEF Found
  <2>7. \A l \in Langs : /\ RowsOf(held[d][l].rows, Found(picked[d], l), l)
                         /\ RowsOf(held[d][l].report.rows, Found(picked[d], l), l)
                         /\ Alone(d) => GoesOn(d, l)
    BY <1>1 DEF Accepting
  <2>8. \A l \in Langs : Alone(d)' => GoesOn(d, l)'
    BY <1>1, <2>4, <2>7 DEF GoesOn
  <2>9. QED
    BY <2>5, <2>6, <2>7, <2>8
<1>2. {k \in OwnKeys(d, "zh") \cup OwnKeys(d, "en") : Paired(d, k)}'
        = {k \in OwnKeys(d, "zh") \cup OwnKeys(d, "en") : Paired(d, k)}
  BY DEF Paired, Scorable, OwnKeys
<1>3. QED
  BY <1>1, <1>2 DEF Accepting

\* A step of the directory below the acceptances.
LEMMA BelowAccepts ==
    ASSUME AcceptInv, DirectoryInv, Below
    PROVE  AcceptInv'
<1>1. /\ AcceptFamilies /\ \A d \in Drivers : Accepting(d)
      /\ \A s \in Seconds, l \in Langs : Shares(s, l)
  BY DEF AcceptInv
<1>2. [Next]_vars /\ UNCHANGED <<stage, sets, skip, picked, lang, predictions, reports, held, compared>>
  BY DEF Below, Next, ownVars, sharedVars
<1>3. newest' # NoDate => Sealed(newest)'
  <2> DEFINE touched == {s \in Seconds : files'[<<s, "meta">>] # files[<<s, "meta">>]}
  <2>1. newest' = IF touched = {} THEN newest ELSE CHOOSE s \in touched : TRUE
    BY DEF Below
  <2>2. PICK s : s = newest'
    OBVIOUS
  <2>3. CASE touched = {}
    <3>1. newest # NoDate => Sealed(newest)
      BY DEF AcceptInv
    <3>2. newest = s
      BY <2>1, <2>2, <2>3
    <3>3. s # NoDate => Sealed(s)
      BY <3>1, <3>2
    <3>4. s # NoDate => Sealed(s)'
      BY <1>2, <3>3, SealedStays
    <3>5. QED
      BY <2>2, <3>4 DEF Sealed
  <2>4. CASE touched # {}
    <3>1. s \in touched
      BY <2>1, <2>2, <2>4
    <3>2. Sealed(s)'
      BY <1>2, <3>1, MetaStays DEF Sealed, FileAt, Seconds
    <3>3. QED
      BY <2>2, <3>2 DEF Sealed
  <2>5. QED
    BY <2>3, <2>4
<1>4. AcceptFamilies'
  BY <1>1, <1>2 DEF AcceptFamilies
<1>5. \A s \in Seconds, l \in Langs : Shares(s, l)'
  BY <1>1, <1>2, SharesStay
<1>6. \A d \in Drivers : Accepting(d)'
  <2>1. \A d \in Drivers : Alone(d)' <=> Alone(d)
    BY <1>2 DEF Alone
  <2>2. QED
    BY <1>1, <1>2, <2>1, AcceptingStays
<1>7. QED
  BY <1>3, <1>4, <1>5, <1>6 DEF AcceptInv

-----------------------------------------------------------------------------
(* The steps of one acceptance. *)

\* Rows imported give what was found.
LEMMA ImportedAreFound ==
    ASSUME NEW d, NEW l
    PROVE  RowsOf(ImportedRows(d, l), Found(picked[d], l), l)
  BY DEF RowsOf, Answered, ImportedRows, Found

\* So does what is left of rows that are written over such rows.
LEMMA WrittenAreFound ==
    ASSUME NEW own, NEW file, NEW found, NEW l,
           RowsOf(own, found, l), RowsOf(file.rows, found, l),
           NEW written \in WrittenRows(own, file)
    PROVE  RowsOf(written.rows, found, l)
<1>1. PICK more \in SUBSET (DOMAIN file.rows \ DOMAIN own) :
        written.rows = Over(own, file.rows, more)
  BY DEF WrittenRows
<1>2. QED
  BY <1>1 DEF RowsOf, Answered, Over

\* A file that was just emptied holds the rows written.
LEMMA WrittenAlone ==
    ASSUME NEW own, own = [k \in DOMAIN own |-> own[k]], NEW written \in WrittenRows(own, NoRows)
    PROVE  written = [form |-> "whole", rows |-> own]
<1>1. NoRows.form = "empty" /\ DOMAIN NoRows.rows = {}
  BY DEF NoRows
<1>2. PICK more \in SUBSET (DOMAIN NoRows.rows \ DOMAIN own) :
        written = [form |-> "whole", rows |-> Over(own, NoRows.rows, more)]
  BY <1>1 DEF WrittenRows
<1>3. Over(own, NoRows.rows, more) = own
  BY <1>1 DEF Over
<1>4. QED
  BY <1>2, <1>3

\* A step of d at its run has to answer for the files it writes and for what d
\* itself knows; the rest stays.
LEMMA RestStays ==
    ASSUME AcceptInv, DirectoryInv, NEW d \in Drivers, stage[d] \in Work,
           UNCHANGED <<vars, ownVars, newest>>,
           DOMAIN stage' = Drivers, lang' \in [Drivers -> Langs],
           DOMAIN held' = Drivers, DOMAIN compared' = Drivers,
           DOMAIN predictions' = Seconds \X Langs, DOMAIN reports' = Seconds \X Langs,
           \A e \in Drivers : e # d =>
               /\ stage'[e] = stage[e] /\ lang'[e] = lang[e]
               /\ held'[e] = held[e] /\ compared'[e] = compared[e],
           \A p \in Seconds \X Langs : p # Path(d) =>
               predictions'[p] = predictions[p] /\ reports'[p] = reports[p],
           RowsOf(predictions'[Path(d)].rows, Found(picked[d], lang[d]), lang[d]),
           RowsOf(reports'[Path(d)].report.rows, Found(picked[d], lang[d]), lang[d]),
           DOMAIN held'[d] = Langs,
           \A l \in Langs : held'[d][l] = [rows |-> held'[d][l].rows, report |-> held'[d][l].report],
           stage'[d] = "failed" \/
               /\ stage'[d] \in Work
               /\ \A l \in Langs :
                      /\ RowsOf(held'[d][l].rows, Found(picked[d], l), l)
                      /\ RowsOf(held'[d][l].report.rows, Found(picked[d], l), l)
                      /\ Alone(d) => OnOwn(stage'[d], lang'[d], l, ImportedRows(d, l), OwnKeys(d, l),
                                           predictions'[<<picked[d], l>>],
                                           reports'[<<picked[d], l>>], held'[d][l])
               /\ stage'[d] = "accepted" =>
                      compared'[d] = {k \in OwnKeys(d, "zh") \cup OwnKeys(d, "en") : Paired(d, k)'}
    PROVE  AcceptInv'
<1>1. /\ AcceptFamilies /\ \A e \in Drivers : Accepting(e)
      /\ \A s \in Seconds, l \in Langs : Shares(s, l)
      /\ [Next]_vars /\ sets' = sets /\ picked' = picked /\ newest' = newest /\ files' = files
  BY DEF AcceptInv, ownVars, vars
<1>2. AcceptFamilies'
  <2>1. \A e \in Drivers : DOMAIN held'[e] = Langs
    BY <1>1 DEF AcceptFamilies
  <2>2. ASSUME NEW e \in Drivers, NEW l \in Langs
        PROVE  held'[e][l] = [rows |-> held'[e][l].rows, report |-> held'[e][l].report]
    BY <1>1 DEF AcceptFamilies
  <2>3. QED
    BY <1>1, <2>1, <2>2 DEF AcceptFamilies
<1>3. newest' # NoDate => Sealed(newest)'
  BY <1>1 DEF AcceptInv, Sealed, FileAt
<1>4. picked[d] # NoDate /\ Sealed(picked[d]) /\ lang[d] \in Langs /\ picked[d] \in Seconds
  BY <1>1 DEF Accepting, AcceptFamilies, Sealed
<1>5. \A s \in Seconds, l \in Langs : Found(s, l)' = Found(s, l) /\ (Sealed(s) => Sealed(s)')
  BY <1>1 DEF Found, Sealed, FileAt
<1>6. \A s \in Seconds, l \in Langs : Shares(s, l)'
  <2>1. SUFFICES ASSUME NEW s \in Seconds, NEW l \in Langs
                 PROVE  Shares(s, l)'
    OBVIOUS
  <2>2. CASE <<s, l>> # Path(d)
    BY <1>1, <2>2, SharesStay
  <2>3. CASE <<s, l>> = Path(d)
    <3>1. s = picked[d] /\ l = lang[d]
      BY <2>3 DEF Path
    <3>2. Sealed(s)' /\ Found(s, l)' = Found(s, l)
      BY <1>4, <1>5, <3>1
    <3>3. RowsOf(predictions'[<<s, l>>].rows, Found(s, l), l) /\ RowsOf(reports'[<<s, l>>].report.rows, Found(s, l), l)
      BY <2>3, <3>1
    <3>4. QED
      BY <3>2, <3>3 DEF Shares
  <2>4. QED
    BY <2>2, <2>3
<1>7. ASSUME NEW e \in Drivers, e # d
      PROVE  Accepting(e)'
  <2>1. Alone(e)' => Alone(e)
    BY <1>1 DEF Alone
  <2>2. ASSUME stage[e] \in Work, Alone(e), NEW l \in Langs
        PROVE  /\ predictions'[<<picked[e], l>>] = predictions[<<picked[e], l>>]
               /\ reports'[<<picked[e], l>>] = reports[<<picked[e], l>>]
    <3>1. picked[e] \in Seconds /\ picked[e] # picked[d]
      BY <1>1, <1>7, <2>2 DEF Accepting, Sealed, Alone
    <3>2. QED
      BY <3>1 DEF Path
  <2>3. QED
    BY <1>1, <1>7, <2>1, <2>2, AcceptingStays
<1>8. Accepting(d)'
  <2>1. CASE stage'[d] = "failed"
    BY <2>1 DEF Accepting, Work, Step7
  <2>2. CASE stage'[d] \in Work /\ stage'[d] # "failed"
    <3>1. stage'[d] \notin {"gate", "drive", "pick"}
      BY <2>2 DEF Work, Step7
    <3>2. picked'[d] # NoDate /\ Sealed(picked[d])'
      BY <1>1, <1>4 DEF Sealed, FileAt
    <3>3. ASSUME NEW l \in Langs
          PROVE  /\ RowsOf(held[d][l].rows, Found(picked[d], l), l)'
                 /\ RowsOf(held[d][l].report.rows, Found(picked[d], l), l)'
                 /\ Alone(d)' => GoesOn(d, l)'
      <4>1. Found(picked[d], l)' = Found(picked[d], l) /\ (Alone(d)' <=> Alone(d))
        BY <1>1 DEF Found, Alone
      <4>2. ImportedRows(d, l)' = ImportedRows(d, l) /\ OwnKeys(d, l)' = OwnKeys(d, l)
        BY <1>1 DEF ImportedRows, OwnKeys
      <4>3. QED
        BY <1>1, <2>2, <4>1, <4>2 DEF GoesOn
    <3>4. stage'[d] = "accepted" =>
            compared'[d] = {k \in OwnKeys(d, "zh") \cup OwnKeys(d, "en") : Paired(d, k)}'
      BY <1>1, <2>2 DEF OwnKeys
    <3>5. QED
      BY <3>1, <3>2, <3>3, <3>4 DEF Accepting
  <2>3. QED
    BY <2>1, <2>2
<1>9. QED
  BY <1>2, <1>3, <1>6, <1>7, <1>8 DEF AcceptInv

\* What is known of an acceptance at its run.
LEMMA AtWork ==
    ASSUME AcceptInv, NEW d \in Drivers, stage[d] \in Work
    PROVE  /\ AcceptFamilies
           /\ picked[d] \in Seconds /\ lang[d] \in Langs /\ Path(d) \in Seconds \X Langs
           /\ RowsOf(predictions[Path(d)].rows, Found(picked[d], lang[d]), lang[d])
           /\ RowsOf(reports[Path(d)].report.rows, Found(picked[d], lang[d]), lang[d])
           /\ \A l \in Langs : /\ RowsOf(held[d][l].rows, Found(picked[d], l), l)
                               /\ RowsOf(held[d][l].report.rows, Found(picked[d], l), l)
                               /\ Alone(d) => GoesOn(d, l)
<1>1. /\ AcceptFamilies /\ Accepting(d)
      /\ \A s \in Seconds, l \in Langs : Shares(s, l)
  BY DEF AcceptInv
<1>2. picked[d] \in Seconds /\ lang[d] \in Langs
  BY <1>1 DEF Accepting, Sealed, AcceptFamilies
<1>3. QED
  BY <1>1, <1>2 DEF Accepting, Shares, Path

\* A command that fails.
LEMMA FailStep ==
    ASSUME AcceptInv, DirectoryInv, NEW d \in Drivers, stage[d] \in Work, Fail(d),
           UNCHANGED <<vars, ownVars, newest, sharedVars, held, compared>>
    PROVE  AcceptInv'
<1>1. AcceptFamilies
  BY AtWork
<1>2. /\ DOMAIN stage' = Drivers /\ stage'[d] = "failed"
      /\ \A e \in Drivers : e # d => stage'[e] = stage[e]
      /\ lang' = lang /\ predictions' = predictions /\ reports' = reports
  BY <1>1 DEF Fail, Advance, AcceptFamilies, sharedVars
<1>3. /\ RowsOf(predictions'[Path(d)].rows, Found(picked[d], lang[d]), lang[d])
      /\ RowsOf(reports'[Path(d)].report.rows, Found(picked[d], lang[d]), lang[d])
  BY <1>2, AtWork
<1>4. /\ DOMAIN held' = Drivers /\ DOMAIN compared' = Drivers /\ DOMAIN held'[d] = Langs
      /\ \A l \in Langs : held'[d][l] = [rows |-> held'[d][l].rows, report |-> held'[d][l].report]
      /\ DOMAIN predictions' = Seconds \X Langs /\ DOMAIN reports' = Seconds \X Langs
      /\ lang' \in [Drivers -> Langs]
  BY <1>1, <1>2 DEF AcceptFamilies
<1>5. QED
  BY <1>2, <1>3, <1>4, RestStays

\* What d holds of its language becomes rows and report, and p and r what the
\* files of its path hold; the rest stays.
HoldsNow(d, rows, report) ==
    /\ DOMAIN held' = Drivers /\ \A e \in Drivers : e # d => held'[e] = held[e]
    /\ DOMAIN held'[d] = Langs
    /\ \A l \in Langs : l # lang[d] => held'[d][l] = held[d][l]
    /\ held'[d][lang[d]] = [rows |-> rows, report |-> report]

WritesNow(d, p, r) ==
    /\ DOMAIN predictions' = Seconds \X Langs /\ DOMAIN reports' = Seconds \X Langs
    /\ predictions'[Path(d)] = p /\ reports'[Path(d)] = r
    /\ \A q \in Seconds \X Langs : q # Path(d) => predictions'[q] = predictions[q] /\ reports'[q] = reports[q]

\* A record that is put in the place of what is held.
LEMMA Holding ==
    ASSUME AcceptFamilies, NEW d \in Drivers, lang[d] \in Langs, NEW rows, NEW report,
           held' = [held EXCEPT ![d] = [held[d] EXCEPT ![lang[d]] = [rows |-> rows, report |-> report]]]
    PROVE  HoldsNow(d, rows, report)
<1>1. /\ DOMAIN held' = Drivers /\ \A e \in Drivers : e # d => held'[e] = held[e]
      /\ held'[d] = [held[d] EXCEPT ![lang[d]] = [rows |-> rows, report |-> report]]
  BY DEF AcceptFamilies
<1>2. /\ DOMAIN held'[d] = Langs
      /\ \A l \in Langs : l # lang[d] => held'[d][l] = held[d][l]
      /\ held'[d][lang[d]] = [rows |-> rows, report |-> report]
  BY <1>1 DEF AcceptFamilies
<1>3. QED
  BY <1>1, <1>2 DEF HoldsNow

\* What is kept.
LEMMA HoldsOn ==
    ASSUME AcceptFamilies, NEW d \in Drivers, lang[d] \in Langs, held' = held
    PROVE  HoldsNow(d, held[d][lang[d]].rows, held[d][lang[d]].report)
  BY DEF HoldsNow, AcceptFamilies

\* All that is held stays of its kind.
LEMMA HoldsKind ==
    ASSUME AcceptFamilies, NEW d \in Drivers, lang[d] \in Langs, NEW rows, NEW report,
           HoldsNow(d, rows, report)
    PROVE  /\ DOMAIN held' = Drivers /\ \A e \in Drivers : e # d => held'[e] = held[e]
           /\ DOMAIN held'[d] = Langs
           /\ \A l \in Langs : held'[d][l] = [rows |-> held'[d][l].rows, report |-> held'[d][l].report]
           /\ \A l \in Langs : l # lang[d] => held'[d][l] = held[d][l]
           /\ held'[d][lang[d]].rows = rows /\ held'[d][lang[d]].report = report
<1>1. ASSUME NEW l \in Langs
      PROVE  held'[d][l] = [rows |-> held'[d][l].rows, report |-> held'[d][l].report]
  <2>1. held[d][l] = [rows |-> held[d][l].rows, report |-> held[d][l].report]
    BY DEF AcceptFamilies
  <2>2. QED
    BY <2>1 DEF HoldsNow
<1>2. QED
  BY <1>1 DEF HoldsNow

\* The rows it holds.
LEMMA KeepsRows ==
    ASSUME AcceptFamilies, NEW d \in Drivers, lang[d] \in Langs, NEW rows, KeepRows(d, rows)
    PROVE  HoldsNow(d, rows, held[d][lang[d]].report)
<1>1. held' = [held EXCEPT ![d] = [held[d] EXCEPT ![lang[d]] = [held[d][lang[d]] EXCEPT !.rows = rows]]]
  BY DEF KeepRows
<1>2. held[d][lang[d]] = [rows |-> held[d][lang[d]].rows, report |-> held[d][lang[d]].report]
  BY DEF AcceptFamilies
<1>3. [held[d][lang[d]] EXCEPT !.rows = rows] = [rows |-> rows, report |-> held[d][lang[d]].report]
  BY <1>2
<1>4. held' = [held EXCEPT ![d] = [held[d] EXCEPT ![lang[d]] =
                  [rows |-> rows, report |-> held[d][lang[d]].report]]]
  BY <1>1, <1>3
<1>5. QED
  BY ONLY <1>4, AcceptFamilies, d \in Drivers, lang[d] \in Langs, Holding

\* The report it holds.
LEMMA KeepsReport ==
    ASSUME AcceptFamilies, NEW d \in Drivers, lang[d] \in Langs, NEW report, KeepReport(d, report)
    PROVE  HoldsNow(d, held[d][lang[d]].rows, report)
<1>1. held' = [held EXCEPT ![d] = [held[d] EXCEPT ![lang[d]] = [held[d][lang[d]] EXCEPT !.report = report]]]
  BY DEF KeepReport
<1>2. held[d][lang[d]] = [rows |-> held[d][lang[d]].rows, report |-> held[d][lang[d]].report]
  BY DEF AcceptFamilies
<1>3. [held[d][lang[d]] EXCEPT !.report = report] = [rows |-> held[d][lang[d]].rows, report |-> report]
  BY <1>2
<1>4. held' = [held EXCEPT ![d] = [held[d] EXCEPT ![lang[d]] =
                  [rows |-> held[d][lang[d]].rows, report |-> report]]]
  BY <1>1, <1>3
<1>5. QED
  BY ONLY <1>4, AcceptFamilies, d \in Drivers, lang[d] \in Langs, Holding

\* Nothing follows from no rows.
LEMMA NoneFound ==
    ASSUME NEW found, NEW l
    PROVE  RowsOf(NoRows.rows, found, l) /\ RowsOf(NothingYet.report.rows, found, l)
<1>1. Answered(<<>>) = {}
  BY DEF Answered
<1>2. QED
  BY <1>1 DEF RowsOf, NoRows, NothingYet, NoReport

\* d goes to a stage and a language.
GoesTo(d, next) ==
    /\ DOMAIN stage' = Drivers /\ stage'[d] = next
    /\ \A e \in Drivers : e # d => stage'[e] = stage[e]
    /\ lang' \in [Drivers -> Langs] /\ \A e \in Drivers : e # d => lang'[e] = lang[e]

\* With what it holds then, an acceptance that is alone is where it should be.
ReadsOwn(d, next, rows, report) ==
    \A l \in Langs : Alone(d) /\ GoesOn(d, l) =>
        OnOwn(next, lang'[d], l, ImportedRows(d, l), OwnKeys(d, l),
              predictions[<<picked[d], l>>], reports[<<picked[d], l>>],
              IF l = lang[d] THEN [rows |-> rows, report |-> report] ELSE held[d][l])

\* What is compared from now on.
ComparesNow(d, next) ==
    /\ DOMAIN compared' = Drivers
    /\ \A e \in Drivers : e # d => compared'[e] = compared[e]
    /\ next = "accepted" =>
          compared'[d] = {k \in OwnKeys(d, "zh") \cup OwnKeys(d, "en") : Paired(d, k)'}

\* A command that reads, and goes on.
LEMMA ReadStep ==
    ASSUME AcceptInv, DirectoryInv, NEW d \in Drivers, stage[d] \in Work,
           UNCHANGED <<vars, ownVars, newest, sharedVars>>,
           NEW next \in Work, GoesTo(d, next),
           NEW rows, NEW report, HoldsNow(d, rows, report),
           RowsOf(rows, Found(picked[d], lang[d]), lang[d]),
           RowsOf(report.rows, Found(picked[d], lang[d]), lang[d]),
           ReadsOwn(d, next, rows, report),
           ComparesNow(d, next)
    PROVE  AcceptInv'
<1>1. AcceptFamilies /\ lang[d] \in Langs
  BY AtWork
<1>2. /\ DOMAIN held' = Drivers /\ \A e \in Drivers : e # d => held'[e] = held[e]
      /\ DOMAIN held'[d] = Langs
      /\ \A l \in Langs : held'[d][l] = [rows |-> held'[d][l].rows, report |-> held'[d][l].report]
      /\ \A l \in Langs : l # lang[d] => held'[d][l] = held[d][l]
      /\ held'[d][lang[d]].rows = rows /\ held'[d][lang[d]].report = report
  <2>1. HoldsNow(d, rows, report)
    OBVIOUS
  <2>2. QED
    BY ONLY <1>1, <2>1, d \in Drivers, HoldsKind
<1>3. \A l \in Langs : held'[d][l] = IF l = lang[d] THEN [rows |-> rows, report |-> report] ELSE held[d][l]
  BY <1>1, <1>2
<1>4. ASSUME NEW l \in Langs
      PROVE  /\ RowsOf(held'[d][l].rows, Found(picked[d], l), l)
             /\ RowsOf(held'[d][l].report.rows, Found(picked[d], l), l)
  <2>1. CASE l = lang[d]
    BY <1>2, <2>1
  <2>2. CASE l # lang[d]
    BY <1>2, <2>2, AtWork
  <2>3. QED
    BY <2>1, <2>2
<1>5. /\ DOMAIN stage' = Drivers /\ stage'[d] = next
      /\ \A e \in Drivers : e # d => stage'[e] = stage[e] /\ lang'[e] = lang[e] /\ compared'[e] = compared[e]
      /\ lang' \in [Drivers -> Langs] /\ DOMAIN compared' = Drivers
      /\ predictions' = predictions /\ reports' = reports
      /\ DOMAIN predictions' = Seconds \X Langs /\ DOMAIN reports' = Seconds \X Langs
  BY <1>1 DEF AcceptFamilies, sharedVars, GoesTo, ComparesNow
<1>6. \A l \in Langs : Alone(d) => OnOwn(stage'[d], lang'[d], l, ImportedRows(d, l), OwnKeys(d, l),
                                        predictions'[<<picked[d], l>>], reports'[<<picked[d], l>>], held'[d][l])
  BY <1>3, <1>5, AtWork DEF ReadsOwn
<1>7. /\ RowsOf(predictions'[Path(d)].rows, Found(picked[d], lang[d]), lang[d])
      /\ RowsOf(reports'[Path(d)].report.rows, Found(picked[d], lang[d]), lang[d])
  BY <1>5, AtWork
<1>8. stage'[d] = "accepted" =>
        compared'[d] = {k \in OwnKeys(d, "zh") \cup OwnKeys(d, "en") : Paired(d, k)'}
  BY <1>5 DEF ComparesNow
<1>9. QED
  BY <1>2, <1>4, <1>5, <1>6, <1>7, <1>8, RestStays

\* A command that writes a file of its language, and goes on.
LEMMA WriteFileStep ==
    ASSUME AcceptInv, DirectoryInv, NEW d \in Drivers, stage[d] \in Work,
           UNCHANGED <<vars, ownVars, newest, lang, compared>>,
           NEW next \in Work, next # "accepted", stage' = [stage EXCEPT ![d] = next],
           NEW p, NEW r,
           WritesNow(d, p, r),
           RowsOf(p.rows, Found(picked[d], lang[d]), lang[d]),
           RowsOf(r.report.rows, Found(picked[d], lang[d]), lang[d]),
           NEW rows,
           HoldsNow(d, rows, held[d][lang[d]].report),
           RowsOf(rows, Found(picked[d], lang[d]), lang[d]),
           Alone(d) /\ GoesOn(d, lang[d]) =>
               OnOwn(next, lang[d], lang[d], ImportedRows(d, lang[d]), OwnKeys(d, lang[d]), p, r,
                     [rows |-> rows, report |-> held[d][lang[d]].report]),
           \A l \in Langs : Alone(d) /\ GoesOn(d, l) /\ l # lang[d] =>
               OnOwn(next, lang[d], l, ImportedRows(d, l), OwnKeys(d, l),
                     predictions[<<picked[d], l>>], reports[<<picked[d], l>>], held[d][l])
    PROVE  AcceptInv'
<1>1. AcceptFamilies /\ lang[d] \in Langs /\ Path(d) \in Seconds \X Langs /\ picked[d] \in Seconds
  BY AtWork
<1>2. /\ DOMAIN held' = Drivers /\ \A e \in Drivers : e # d => held'[e] = held[e]
      /\ DOMAIN held'[d] = Langs
      /\ \A l \in Langs : held'[d][l] = [rows |-> held'[d][l].rows, report |-> held'[d][l].report]
      /\ \A l \in Langs : l # lang[d] => held'[d][l] = held[d][l]
      /\ held'[d][lang[d]].rows = rows /\ held'[d][lang[d]].report = held[d][lang[d]].report
  <2>1. HoldsNow(d, rows, held[d][lang[d]].report)
    OBVIOUS
  <2>2. QED
    BY ONLY <1>1, <2>1, d \in Drivers, HoldsKind
<1>3. /\ DOMAIN stage' = Drivers /\ stage'[d] = next /\ \A e \in Drivers : e # d => stage'[e] = stage[e]
      /\ DOMAIN predictions' = Seconds \X Langs /\ DOMAIN reports' = Seconds \X Langs
      /\ predictions'[Path(d)] = p /\ reports'[Path(d)] = r
      /\ \A q \in Seconds \X Langs : q # Path(d) => predictions'[q] = predictions[q] /\ reports'[q] = reports[q]
      /\ DOMAIN compared' = Drivers /\ lang' \in [Drivers -> Langs] /\ lang' = lang /\ compared' = compared
  BY <1>1 DEF AcceptFamilies, WritesNow
<1>4. ASSUME NEW l \in Langs
      PROVE  /\ RowsOf(held'[d][l].rows, Found(picked[d], l), l)
             /\ RowsOf(held'[d][l].report.rows, Found(picked[d], l), l)
             /\ Alone(d) => OnOwn(stage'[d], lang'[d], l, ImportedRows(d, l), OwnKeys(d, l),
                                  predictions'[<<picked[d], l>>], reports'[<<picked[d], l>>], held'[d][l])
  <2>1. CASE l = lang[d]
    <3>1. held'[d][l] = [rows |-> rows, report |-> held[d][lang[d]].report]
      BY <1>2, <2>1
    <3>2. predictions'[<<picked[d], l>>] = p /\ reports'[<<picked[d], l>>] = r
      BY <1>3, <2>1 DEF Path
    <3>3. QED
      BY <1>3, <2>1, <3>1, <3>2, AtWork
  <2>2. CASE l # lang[d]
    <3>1. held'[d][l] = held[d][l]
      BY <1>2, <2>2
    <3>2. /\ predictions'[<<picked[d], l>>] = predictions[<<picked[d], l>>]
          /\ reports'[<<picked[d], l>>] = reports[<<picked[d], l>>]
      BY <1>1, <1>3, <2>2 DEF Path
    <3>3. QED
      BY <1>3, <2>2, <3>1, <3>2, AtWork
  <2>3. QED
    BY <2>1, <2>2
<1>5. QED
  BY <1>2, <1>3, <1>4, RestStays

-----------------------------------------------------------------------------
(* The commands. *)

\* The steps of import.
LEMMA ImportStep ==
    ASSUME AcceptInv, DirectoryInv, NEW d \in Drivers, Import(d)
    PROVE  AcceptInv'
<1>1. stage[d] = "import" /\ stage[d] \in Work
  BY DEF Import, Work
<1>2. AcceptFamilies /\ lang[d] \in Langs /\ Path(d) \in Seconds \X Langs
  BY <1>1, AtWork
<1>3. CASE ~files[Path(d)].whole
  BY <1>1, <1>3, FailStep DEF Import, sharedVars
<1>4. CASE files[Path(d)].whole
  <2>1. /\ UNCHANGED <<vars, ownVars, newest, lang, compared>> /\ reports' = reports
        /\ stage' = [stage EXCEPT ![d] = "write rows"]
        /\ KeepRows(d, ImportedRows(d, lang[d]))
    BY <1>4 DEF Import, Advance
  <2>2. WritesNow(d, NoRows, reports[Path(d)])
    BY <1>2, <1>4 DEF Import, WritesNow, AcceptFamilies
  <2>3. HoldsNow(d, ImportedRows(d, lang[d]), held[d][lang[d]].report)
    BY <1>2, <2>1, KeepsRows
  <2>4. /\ RowsOf(NoRows.rows, Found(picked[d], lang[d]), lang[d])
        /\ RowsOf(reports[Path(d)].report.rows, Found(picked[d], lang[d]), lang[d])
        /\ RowsOf(ImportedRows(d, lang[d]), Found(picked[d], lang[d]), lang[d])
    BY <1>1, NoneFound, AtWork, ImportedAreFound
  <2>5. OnOwn("write rows", lang[d], lang[d], ImportedRows(d, lang[d]), OwnKeys(d, lang[d]),
              NoRows, reports[Path(d)],
              [rows |-> ImportedRows(d, lang[d]), report |-> held[d][lang[d]].report])
    BY DEF OnOwn, WroteRows, WroteReport, HasReport, HasRows, Step7
  <2>6. \A l \in Langs : GoesOn(d, l) /\ l # lang[d] =>
            OnOwn("write rows", lang[d], l, ImportedRows(d, l), OwnKeys(d, l),
                  predictions[<<picked[d], l>>], reports[<<picked[d], l>>], held[d][l])
    BY <1>1 DEF GoesOn, OnOwn, WroteRows, WroteReport, HasReport, HasRows, Step7
  <2>7. "write rows" \in Work /\ "write rows" # "accepted"
    BY DEF Work
  <2>8. QED
    BY <1>1, <2>1, <2>2, <2>3, <2>4, <2>5, <2>6, <2>7, WriteFileStep
<1>5. QED
  BY <1>3, <1>4

LEMMA WriteRowsStep ==
    ASSUME AcceptInv, DirectoryInv, NEW d \in Drivers, WriteRows(d)
    PROVE  AcceptInv'
<1>1. stage[d] = "write rows" /\ stage[d] \in Work
  BY DEF WriteRows, Work
<1>2. AcceptFamilies /\ lang[d] \in Langs /\ Path(d) \in Seconds \X Langs
  BY <1>1, AtWork
<1>3. PICK file \in WrittenRows(held[d][lang[d]].rows, predictions[Path(d)]) :
        predictions' = [predictions EXCEPT ![Path(d)] = file]
  BY DEF WriteRows, Mine
<1>4. /\ UNCHANGED <<vars, ownVars, newest, lang, compared>> /\ reports' = reports /\ held' = held
      /\ stage' = [stage EXCEPT ![d] = "load"]
  BY DEF WriteRows, Advance
<1>5. WritesNow(d, file, reports[Path(d)])
  BY <1>2, <1>3, <1>4 DEF WritesNow, AcceptFamilies
<1>6. HoldsNow(d, held[d][lang[d]].rows, held[d][lang[d]].report)
  BY <1>2, <1>4, HoldsOn
<1>7. /\ RowsOf(predictions[Path(d)].rows, Found(picked[d], lang[d]), lang[d])
      /\ RowsOf(held[d][lang[d]].rows, Found(picked[d], lang[d]), lang[d])
      /\ RowsOf(reports[Path(d)].report.rows, Found(picked[d], lang[d]), lang[d])
  BY <1>1, <1>2, AtWork
<1>8. RowsOf(file.rows, Found(picked[d], lang[d]), lang[d])
  BY <1>7, WrittenAreFound
<1>9. ASSUME GoesOn(d, lang[d])
      PROVE  OnOwn("load", lang[d], lang[d], ImportedRows(d, lang[d]), OwnKeys(d, lang[d]),
                   file, reports[Path(d)],
                   [rows |-> held[d][lang[d]].rows, report |-> held[d][lang[d]].report])
  <2>1. predictions[Path(d)] = NoRows /\ held[d][lang[d]].rows = ImportedRows(d, lang[d])
    BY <1>1, <1>9 DEF GoesOn, OnOwn, Path
  <2>2. ImportedRows(d, lang[d]) = [k \in DOMAIN ImportedRows(d, lang[d]) |-> ImportedRows(d, lang[d])[k]]
    BY DEF ImportedRows
  <2>3. file = [form |-> "whole", rows |-> ImportedRows(d, lang[d])]
    BY <2>1, <2>2, WrittenAlone
  <2>4. QED
    BY <2>3 DEF OnOwn, WroteRows, WroteReport, HasReport, HasRows, Step7
<1>10. \A l \in Langs : GoesOn(d, l) /\ l # lang[d] =>
          OnOwn("load", lang[d], l, ImportedRows(d, l), OwnKeys(d, l),
                predictions[<<picked[d], l>>], reports[<<picked[d], l>>], held[d][l])
  BY <1>1 DEF GoesOn, OnOwn, WroteRows, WroteReport, HasReport, HasRows, Step7
<1>11. "load" \in Work /\ "load" # "accepted"
  BY DEF Work
<1>12. QED
  BY <1>1, <1>4, <1>5, <1>6, <1>7, <1>8, <1>9, <1>10, <1>11, WriteFileStep

\* The steps of run and verify that write nothing.
LEMMA LoadStep ==
    ASSUME AcceptInv, DirectoryInv, NEW d \in Drivers, Load(d)
    PROVE  AcceptInv'
<1> DEFINE next == IF stage[d] = "load" THEN "empty report" ELSE "verify"
<1>1. stage[d] \in {"load", "load again"} /\ stage[d] \in Work /\ next \in Work /\ next # "accepted"
  BY DEF Load, Work
<1>2. AcceptFamilies /\ lang[d] \in Langs /\ Path(d) \in Seconds \X Langs
  BY <1>1, AtWork
<1>3. CASE ~RowsLoad(d, predictions[Path(d)])
  BY <1>1, <1>3, FailStep DEF Load
<1>4. CASE RowsLoad(d, predictions[Path(d)])
  <2>1. /\ UNCHANGED <<vars, ownVars, newest, sharedVars>> /\ compared' = compared /\ lang' = lang
        /\ stage' = [stage EXCEPT ![d] = next]
        /\ KeepRows(d, predictions[Path(d)].rows)
    BY <1>4 DEF Load, Advance
  <2>2. HoldsNow(d, predictions[Path(d)].rows, held[d][lang[d]].report)
    BY <1>2, <2>1, KeepsRows
  <2>3. /\ RowsOf(predictions[Path(d)].rows, Found(picked[d], lang[d]), lang[d])
        /\ RowsOf(held[d][lang[d]].report.rows, Found(picked[d], lang[d]), lang[d])
    BY <1>1, <1>2, AtWork
  <2>4. ASSUME NEW l \in Langs, GoesOn(d, l)
        PROVE  OnOwn(next, lang'[d], l, ImportedRows(d, l), OwnKeys(d, l),
                     predictions[<<picked[d], l>>], reports[<<picked[d], l>>],
                     IF l = lang[d] THEN [rows |-> predictions[Path(d)].rows, report |-> held[d][lang[d]].report]
                                    ELSE held[d][l])
    <3>1. lang'[d] = lang[d]
      BY <2>1
    <3>2. CASE l = lang[d]
      <4>1. predictions[Path(d)] = [form |-> "whole", rows |-> ImportedRows(d, l)]
        BY <1>1, <2>4, <3>2 DEF GoesOn, OnOwn, WroteRows, Path
      <4>2. predictions[<<picked[d], l>>] = predictions[Path(d)]
        BY <3>2 DEF Path
      <4>3. stage[d] = "load again" =>
                reports[<<picked[d], l>>] =
                    [form |-> "whole", report |-> [keys |-> OwnKeys(d, l), rows |-> ImportedRows(d, l)]]
        BY <2>4, <3>2 DEF GoesOn, OnOwn, WroteReport
      <4>4. OnOwn(next, lang[d], l, ImportedRows(d, l), OwnKeys(d, l), predictions[Path(d)],
                  reports[<<picked[d], l>>],
                  [rows |-> predictions[Path(d)].rows, report |-> held[d][lang[d]].report])
        <5>1. CASE stage[d] = "load"
          BY <3>2, <4>1, <5>1
             DEF OnOwn, WroteRows, WroteReport, HasReport, HasRows, Step7
        <5>2. CASE stage[d] = "load again"
          BY <3>2, <4>1, <4>3, <5>2
             DEF OnOwn, WroteRows, WroteReport, HasReport, HasRows, Step7
        <5>3. QED
          BY <1>1, <5>1, <5>2
      <4>5. QED
        BY <3>1, <3>2, <4>2, <4>4
    <3>3. CASE l # lang[d]
      BY <1>1, <2>4, <3>1, <3>3 DEF GoesOn, OnOwn, WroteRows, WroteReport, HasReport, HasRows, Step7
    <3>4. QED
      BY <3>2, <3>3
  <2>5. ReadsOwn(d, next, predictions[Path(d)].rows, held[d][lang[d]].report)
    BY <2>4 DEF ReadsOwn
  <2>6. GoesTo(d, next) /\ ComparesNow(d, next)
    BY <1>1, <1>2, <2>1 DEF GoesTo, ComparesNow, AcceptFamilies
  <2> HIDE DEF next
  <2>7. QED
    BY <1>1, <2>1, <2>2, <2>3, <2>5, <2>6, ReadStep
<1>5. QED
  BY <1>3, <1>4

\* A report that is written over nothing is whole.
LEMMA ReportIsWritten ==
    ASSUME NEW own, NEW file, NEW written \in WrittenReport(own, file)
    PROVE  /\ written.report \in {own, NothingYet.report}
           /\ file = NothingYet => written = [form |-> "whole", report |-> own]
<1>1. NothingYet.form = "empty" /\ NothingYet.report = NoReport
  BY DEF NothingYet
<1>2. CASE file.form = "empty"
  BY <1>1, <1>2 DEF WrittenReport
<1>3. CASE file.form # "empty"
  <2>1. written = [form |-> "whole", report |-> own] \/ written = [form |-> "torn", report |-> NoReport]
    BY <1>3 DEF WrittenReport
  <2>2. QED
    BY <1>1, <1>3, <2>1
<1>4. QED
  BY <1>2, <1>3

\* The steps of run that write the report.
LEMMA WriteReportStep ==
    ASSUME AcceptInv, DirectoryInv, NEW d \in Drivers, EmptyReport(d) \/ WriteReport(d)
    PROVE  AcceptInv'
<1> DEFINE next == IF stage[d] = "empty report" THEN "write report" ELSE "load again"
<1>1. stage[d] \in {"empty report", "write report"} /\ stage[d] \in Work /\ next \in Work /\ next # "accepted"
  BY DEF EmptyReport, WriteReport, Work
<1>2. AcceptFamilies /\ lang[d] \in Langs /\ Path(d) \in Seconds \X Langs
  BY <1>1, AtWork
<1>3. PICK file : /\ reports' = [reports EXCEPT ![Path(d)] = file]
                  /\ stage[d] = "empty report" => file = NothingYet
                  /\ stage[d] = "write report" =>
                        file \in WrittenReport(ReportOf(d, lang[d]), reports[Path(d)])
  BY DEF EmptyReport, WriteReport
<1>4. /\ UNCHANGED <<vars, ownVars, newest, lang, compared>> /\ predictions' = predictions /\ held' = held
      /\ stage' = [stage EXCEPT ![d] = next]
  BY DEF EmptyReport, WriteReport, Advance
<1>5. WritesNow(d, predictions[Path(d)], file)
  BY <1>2, <1>3, <1>4 DEF WritesNow, AcceptFamilies
<1>6. HoldsNow(d, held[d][lang[d]].rows, held[d][lang[d]].report)
  BY <1>2, <1>4, HoldsOn
<1>7. /\ RowsOf(predictions[Path(d)].rows, Found(picked[d], lang[d]), lang[d])
      /\ RowsOf(held[d][lang[d]].rows, Found(picked[d], lang[d]), lang[d])
  BY <1>1, <1>2, AtWork
<1>8. RowsOf(file.report.rows, Found(picked[d], lang[d]), lang[d])
  <2>1. CASE stage[d] = "empty report"
    BY <1>3, <2>1, NoneFound
  <2>2. CASE stage[d] = "write report"
    <3>1. file.report \in {ReportOf(d, lang[d]), NothingYet.report}
      BY <1>3, <2>2, ReportIsWritten
    <3>2. ReportOf(d, lang[d]).rows = held[d][lang[d]].rows
      BY DEF ReportOf
    <3>3. QED
      BY <1>7, <3>1, <3>2, NoneFound
  <2>3. QED
    BY <1>1, <2>1, <2>2
<1>9. ASSUME GoesOn(d, lang[d])
      PROVE  OnOwn(next, lang[d], lang[d], ImportedRows(d, lang[d]), OwnKeys(d, lang[d]),
                   predictions[Path(d)], file,
                   [rows |-> held[d][lang[d]].rows, report |-> held[d][lang[d]].report])
  <2>1. /\ predictions[Path(d)] = [form |-> "whole", rows |-> ImportedRows(d, lang[d])]
        /\ held[d][lang[d]].rows = ImportedRows(d, lang[d])
        /\ stage[d] = "write report" => reports[Path(d)] = NothingYet
    BY <1>1, <1>9 DEF GoesOn, OnOwn, WroteRows, Path
  <2>2. CASE stage[d] = "empty report"
    BY <1>3, <2>1, <2>2 DEF OnOwn, WroteRows, WroteReport, HasReport, HasRows, Step7
  <2>3. CASE stage[d] = "write report"
    <3>1. file = [form |-> "whole", report |-> ReportOf(d, lang[d])]
      BY <1>3, <2>1, <2>3, ReportIsWritten
    <3>2. ReportOf(d, lang[d]) = [keys |-> OwnKeys(d, lang[d]), rows |-> ImportedRows(d, lang[d])]
      BY <2>1 DEF ReportOf
    <3>3. QED
      BY <2>1, <2>3, <3>1, <3>2 DEF OnOwn, WroteRows, WroteReport, HasReport, HasRows, Step7
  <2>4. QED
    BY <1>1, <2>2, <2>3
<1>10. \A l \in Langs : GoesOn(d, l) /\ l # lang[d] =>
          OnOwn(next, lang[d], l, ImportedRows(d, l), OwnKeys(d, l),
                predictions[<<picked[d], l>>], reports[<<picked[d], l>>], held[d][l])
  BY <1>1 DEF GoesOn, OnOwn, WroteRows, WroteReport, HasReport, HasRows, Step7
<1> HIDE DEF next
<1>11. QED
  BY <1>1, <1>4, <1>5, <1>6, <1>7, <1>8, <1>9, <1>10, WriteFileStep

\* The checks of a report.
LEMMA CheckStep ==
    ASSUME AcceptInv, DirectoryInv, NEW d \in Drivers, Verify(d) \/ TamperGate(d) \/ Summarize(d)
    PROVE  AcceptInv'
<1> DEFINE next == CASE stage[d] = "verify" -> "tamper"
                     [] stage[d] = "tamper" -> IF lang[d] = "zh" THEN "import" ELSE "summary"
                     [] stage[d] = "summary" -> IF lang[d] = "zh" THEN "summary" ELSE "tables"
           la == IF stage[d] = "verify" THEN lang[d] ELSE IF lang[d] = "zh" THEN "en" ELSE "zh"
<1>1. stage[d] \in {"verify", "tamper", "summary"} /\ stage[d] \in Work
  BY DEF Verify, TamperGate, Summarize, Work, Step7
<1>2. AcceptFamilies /\ lang[d] \in Langs /\ Path(d) \in Seconds \X Langs
  BY <1>1, AtWork
<1>3. next \in Work /\ next # "accepted" /\ la \in Langs
  BY <1>1, <1>2 DEF Work, Step7, Langs
<1>4. UNCHANGED <<vars, ownVars, newest, sharedVars, held, compared>>
  BY DEF Verify, TamperGate, Summarize
<1>5. CASE Fail(d)
  BY <1>1, <1>4, <1>5, FailStep
<1>6. CASE ~Fail(d)
  <2>1. /\ stage' = [stage EXCEPT ![d] = next]
        /\ lang' \in [Drivers -> Langs] /\ lang'[d] = la
        /\ \A e \in Drivers : e # d => lang'[e] = lang[e]
    <3>1. CASE stage[d] = "verify"
      <4>1. stage' = [stage EXCEPT ![d] = "tamper"] /\ lang' = lang
        BY <1>6, <3>1 DEF Verify, TamperGate, Summarize, Advance
      <4>2. QED
        BY <1>2, <3>1, <4>1 DEF AcceptFamilies
    <3>2. CASE stage[d] \in {"tamper", "summary"}
      <4>1. /\ stage' = [stage EXCEPT ![d] = next] /\ lang' = [lang EXCEPT ![d] = la]
        BY <1>6, <3>2 DEF Verify, TamperGate, Summarize, Advance, AdvanceLang
      <4>2. QED
        BY <1>2, <1>3, <4>1 DEF AcceptFamilies
    <3>3. QED
      BY <1>1, <3>1, <3>2
  <2>2. HoldsNow(d, held[d][lang[d]].rows, held[d][lang[d]].report)
    BY <1>2, <1>4, HoldsOn
  <2>3. /\ RowsOf(held[d][lang[d]].rows, Found(picked[d], lang[d]), lang[d])
        /\ RowsOf(held[d][lang[d]].report.rows, Found(picked[d], lang[d]), lang[d])
    BY <1>1, <1>2, AtWork
  <2>4. ASSUME NEW l \in Langs, GoesOn(d, l)
        PROVE  OnOwn(next, lang'[d], l, ImportedRows(d, l), OwnKeys(d, l),
                     predictions[<<picked[d], l>>], reports[<<picked[d], l>>],
                     IF l = lang[d] THEN [rows |-> held[d][lang[d]].rows, report |-> held[d][lang[d]].report]
                                    ELSE held[d][l])
    <3>1. (IF l = lang[d] THEN [rows |-> held[d][lang[d]].rows, report |-> held[d][lang[d]].report]
                          ELSE held[d][l]) = held[d][l]
      BY <1>2 DEF AcceptFamilies
    <3>2. OnOwn(next, la, l, ImportedRows(d, l), OwnKeys(d, l),
                predictions[<<picked[d], l>>], reports[<<picked[d], l>>], held[d][l])
      BY <1>1, <1>2, <2>4 DEF GoesOn, OnOwn, WroteRows, WroteReport, HasReport, HasRows, Step7, Langs
    <3>3. QED
      BY <2>1, <3>1, <3>2
  <2>5. ReadsOwn(d, next, held[d][lang[d]].rows, held[d][lang[d]].report)
    BY <2>4 DEF ReadsOwn
  <2>6. GoesTo(d, next) /\ ComparesNow(d, next)
    BY <1>2, <1>3, <1>4, <2>1 DEF GoesTo, ComparesNow, AcceptFamilies
  <2> HIDE DEF next, la
  <2>7. QED
    BY <1>1, <1>3, <1>4, <2>2, <2>3, <2>5, <2>6, ReadStep
<1>7. QED
  BY <1>5, <1>6

\* The readers of pair-diff.py.
LEMMA ReadReportStep ==
    ASSUME AcceptInv, DirectoryInv, NEW d \in Drivers, ReadReport(d)
    PROVE  AcceptInv'
<1> DEFINE next == IF lang[d] = "zh" THEN "tables" ELSE "pairs"
           la == IF lang[d] = "zh" THEN "en" ELSE "zh"
<1>1. stage[d] = "tables" /\ stage[d] \in Work /\ next \in Work /\ next # "accepted" /\ la \in Langs
  BY DEF ReadReport, Work, Step7, Langs
<1>2. AcceptFamilies /\ lang[d] \in Langs /\ Path(d) \in Seconds \X Langs
  BY <1>1, AtWork
<1>3. UNCHANGED <<vars, ownVars, newest, sharedVars, compared>>
  BY DEF ReadReport
<1>4. CASE ~(reports[Path(d)].form = "whole")
  BY <1>1, <1>3, <1>4, FailStep DEF ReadReport
<1>5. CASE reports[Path(d)].form = "whole"
  <2>1. KeepReport(d, reports[Path(d)].report)
    BY <1>5 DEF ReadReport
  <2>2. /\ stage' = [stage EXCEPT ![d] = next]
        /\ lang' = [lang EXCEPT ![d] = la]
    BY <1>5 DEF ReadReport, Advance, AdvanceLang
  <2>3. GoesTo(d, next) /\ ComparesNow(d, next) /\ lang'[d] = la
    BY <1>1, <1>2, <1>3, <2>2 DEF GoesTo, ComparesNow, AcceptFamilies
  <2>4. HoldsNow(d, held[d][lang[d]].rows, reports[Path(d)].report)
    BY <1>2, <2>1, KeepsReport
  <2>5. /\ RowsOf(held[d][lang[d]].rows, Found(picked[d], lang[d]), lang[d])
        /\ RowsOf(reports[Path(d)].report.rows, Found(picked[d], lang[d]), lang[d])
    BY <1>1, <1>2, AtWork
  <2>6. ASSUME NEW l \in Langs, GoesOn(d, l)
        PROVE  OnOwn(next, lang'[d], l, ImportedRows(d, l), OwnKeys(d, l),
                     predictions[<<picked[d], l>>], reports[<<picked[d], l>>],
                     IF l = lang[d] THEN [rows |-> held[d][lang[d]].rows, report |-> reports[Path(d)].report]
                                    ELSE held[d][l])
    <3>1. /\ predictions[<<picked[d], l>>] = [form |-> "whole", rows |-> ImportedRows(d, l)]
          /\ reports[<<picked[d], l>>] =
                [form |-> "whole", report |-> [keys |-> OwnKeys(d, l), rows |-> ImportedRows(d, l)]]
      BY <1>1, <2>6 DEF GoesOn, OnOwn, WroteRows, WroteReport, Step7
    <3>2. CASE l = lang[d]
      BY <1>1, <1>2, <2>3, <2>6, <3>1, <3>2
         DEF GoesOn, OnOwn, WroteRows, WroteReport, HasReport, HasRows, Step7, Path, Langs
    <3>3. CASE l # lang[d]
      BY <1>1, <1>2, <2>3, <2>6, <3>1, <3>3
         DEF GoesOn, OnOwn, WroteRows, WroteReport, HasReport, HasRows, Step7, Langs
    <3>4. QED
      BY <3>2, <3>3
  <2>7. ReadsOwn(d, next, held[d][lang[d]].rows, reports[Path(d)].report)
    BY <2>6 DEF ReadsOwn
  <2> HIDE DEF next, la
  <2>8. QED
    BY <1>1, <1>3, <2>3, <2>4, <2>5, <2>7, ReadStep
<1>6. QED
  BY <1>4, <1>5

LEMMA ReadRowsStep ==
    ASSUME AcceptInv, DirectoryInv, NEW d \in Drivers, ReadRows(d)
    PROVE  AcceptInv'
<1> DEFINE next == IF lang[d] = "zh" THEN "pairs" ELSE "compare"
           la == IF lang[d] = "zh" THEN "en" ELSE "zh"
<1>1. stage[d] = "pairs" /\ stage[d] \in Work /\ next \in Work /\ next # "accepted" /\ la \in Langs
  BY DEF ReadRows, Work, Step7, Langs
<1>2. AcceptFamilies /\ lang[d] \in Langs /\ Path(d) \in Seconds \X Langs
  BY <1>1, AtWork
<1>3. UNCHANGED <<vars, ownVars, newest, sharedVars, compared>>
  BY DEF ReadRows
<1>4. CASE ~(predictions[Path(d)].form # "torn")
  BY <1>1, <1>3, <1>4, FailStep DEF ReadRows
<1>5. CASE predictions[Path(d)].form # "torn"
  <2>1. KeepRows(d, predictions[Path(d)].rows)
    BY <1>5 DEF ReadRows
  <2>2. /\ stage' = [stage EXCEPT ![d] = next]
        /\ lang' = [lang EXCEPT ![d] = la]
    BY <1>5 DEF ReadRows, Advance, AdvanceLang
  <2>3. GoesTo(d, next) /\ ComparesNow(d, next) /\ lang'[d] = la
    BY <1>1, <1>2, <1>3, <2>2 DEF GoesTo, ComparesNow, AcceptFamilies
  <2>4. HoldsNow(d, predictions[Path(d)].rows, held[d][lang[d]].report)
    BY <1>2, <2>1, KeepsRows
  <2>5. /\ RowsOf(predictions[Path(d)].rows, Found(picked[d], lang[d]), lang[d])
        /\ RowsOf(held[d][lang[d]].report.rows, Found(picked[d], lang[d]), lang[d])
    BY <1>1, <1>2, AtWork
  <2>6. ASSUME NEW l \in Langs, GoesOn(d, l)
        PROVE  OnOwn(next, lang'[d], l, ImportedRows(d, l), OwnKeys(d, l),
                     predictions[<<picked[d], l>>], reports[<<picked[d], l>>],
                     IF l = lang[d] THEN [rows |-> predictions[Path(d)].rows, report |-> held[d][lang[d]].report]
                                    ELSE held[d][l])
    <3>1. /\ predictions[<<picked[d], l>>] = [form |-> "whole", rows |-> ImportedRows(d, l)]
          /\ reports[<<picked[d], l>>] =
                [form |-> "whole", report |-> [keys |-> OwnKeys(d, l), rows |-> ImportedRows(d, l)]]
      BY <1>1, <2>6 DEF GoesOn, OnOwn, WroteRows, WroteReport, Step7
    <3>2. CASE l = lang[d]
      BY <1>1, <1>2, <2>3, <2>6, <3>1, <3>2
         DEF GoesOn, OnOwn, WroteRows, WroteReport, HasReport, HasRows, Step7, Path, Langs
    <3>3. CASE l # lang[d]
      BY <1>1, <1>2, <2>3, <2>6, <3>1, <3>3
         DEF GoesOn, OnOwn, WroteRows, WroteReport, HasReport, HasRows, Step7, Langs
    <3>4. QED
      BY <3>2, <3>3
  <2>7. ReadsOwn(d, next, predictions[Path(d)].rows, held[d][lang[d]].report)
    BY <2>6 DEF ReadsOwn
  <2> HIDE DEF next, la
  <2>8. QED
    BY <1>1, <1>3, <2>3, <2>4, <2>5, <2>7, ReadStep
<1>6. QED
  BY <1>4, <1>5

\* What is held is compared.
LEMMA CompareStep ==
    ASSUME AcceptInv, DirectoryInv, NEW d \in Drivers, Compare(d)
    PROVE  AcceptInv'
<1>1. stage[d] = "compare" /\ stage[d] \in Work /\ "accepted" \in Work
  BY DEF Compare, Work, Step7
<1>2. AcceptFamilies /\ lang[d] \in Langs /\ Path(d) \in Seconds \X Langs
  BY <1>1, AtWork
<1>3. /\ UNCHANGED <<vars, ownVars, newest, sharedVars>> /\ lang' = lang /\ held' = held
      /\ stage' = [stage EXCEPT ![d] = "accepted"]
  BY DEF Compare, Advance
<1>4. GoesTo(d, "accepted")
  BY <1>2, <1>3 DEF GoesTo, AcceptFamilies
<1>5. ComparesNow(d, "accepted")
  <2>1. {k \in OwnKeys(d, "zh") \cup OwnKeys(d, "en") : Paired(d, k)'}
          = {k \in OwnKeys(d, "zh") \cup OwnKeys(d, "en") : Paired(d, k)}
    BY <1>3 DEF Paired, Scorable, OwnKeys, ownVars
  <2>2. compared' = [compared EXCEPT ![d] =
                        {k \in OwnKeys(d, "zh") \cup OwnKeys(d, "en") : Paired(d, k)}]
    BY DEF Compare
  <2>3. QED
    BY <1>2, <2>1, <2>2 DEF ComparesNow, AcceptFamilies
<1>6. HoldsNow(d, held[d][lang[d]].rows, held[d][lang[d]].report)
  BY <1>2, <1>3, HoldsOn
<1>7. /\ RowsOf(held[d][lang[d]].rows, Found(picked[d], lang[d]), lang[d])
      /\ RowsOf(held[d][lang[d]].report.rows, Found(picked[d], lang[d]), lang[d])
  BY <1>1, <1>2, AtWork
<1>8. ReadsOwn(d, "accepted", held[d][lang[d]].rows, held[d][lang[d]].report)
  <2>1. SUFFICES ASSUME NEW l \in Langs, GoesOn(d, l)
                 PROVE  OnOwn("accepted", lang'[d], l, ImportedRows(d, l), OwnKeys(d, l),
                              predictions[<<picked[d], l>>], reports[<<picked[d], l>>],
                              IF l = lang[d] THEN [rows |-> held[d][lang[d]].rows, report |-> held[d][lang[d]].report]
                                             ELSE held[d][l])
    BY DEF ReadsOwn
  <2>2. (IF l = lang[d] THEN [rows |-> held[d][lang[d]].rows, report |-> held[d][lang[d]].report]
                        ELSE held[d][l]) = held[d][l]
    BY <1>2 DEF AcceptFamilies
  <2>3. OnOwn("accepted", lang'[d], l, ImportedRows(d, l), OwnKeys(d, l),
              predictions[<<picked[d], l>>], reports[<<picked[d], l>>], held[d][l])
    BY <1>1, <1>3, <2>1 DEF GoesOn, OnOwn, WroteRows, WroteReport, HasReport, HasRows, Step7
  <2>4. QED
    BY <2>2, <2>3
<1>9. QED
  BY <1>1, <1>3, <1>4, <1>5, <1>6, <1>7, <1>8, ReadStep

-----------------------------------------------------------------------------
(* Every step, and what is compared. *)

\* Until a run is picked, nothing is held.
LEMMA FirstSteps ==
    ASSUME AcceptInv, DirectoryInv, NEW d \in Drivers, Gate(d) \/ DriverReturns(d)
    PROVE  AcceptInv'
<1>1. AcceptFamilies /\ (\A e \in Drivers : Accepting(e)) /\ \A s \in Seconds, l \in Langs : Shares(s, l)
  BY DEF AcceptInv
<1>2. /\ [Next]_vars /\ UNCHANGED <<newest, picked, lang, predictions, reports, held, compared>>
      /\ DOMAIN stage' = Drivers /\ DOMAIN sets' = Drivers
      /\ stage[d] \in {"gate", "drive"} /\ stage'[d] \in {"drive", "pick", "failed"}
      /\ \A e \in Drivers : e # d => stage'[e] = stage[e] /\ sets'[e] = sets[e]
  <2>1. CASE Gate(d)
    BY <1>1, <2>1 DEF Gate, Advance, AcceptFamilies, sharedVars, Next, DriverStep
  <2>2. CASE DriverReturns(d)
    BY <1>1, <2>2 DEF DriverReturns, Advance, AcceptFamilies, sharedVars, ownVars
  <2>3. QED
    BY <2>1, <2>2
<1>3. newest' # NoDate => Sealed(newest)'
  <2>1. PICK s : s = newest
    OBVIOUS
  <2>2. s # NoDate => Sealed(s)'
    BY <1>2, <2>1, SealedStays DEF AcceptInv
  <2>3. QED
    BY <1>2, <2>1, <2>2 DEF Sealed
<1>4. AcceptFamilies'
  BY <1>1, <1>2 DEF AcceptFamilies
<1>5. \A s \in Seconds, l \in Langs : Shares(s, l)'
  BY <1>1, <1>2, SharesStay
<1>6. ASSUME NEW e \in Drivers, e # d
      PROVE  Accepting(e)'
  <2>1. Alone(e)' => Alone(e)
    BY <1>2 DEF Alone
  <2>2. QED
    BY <1>1, <1>2, <1>6, <2>1, AcceptingStays
<1>7. Accepting(d)'
  BY <1>1, <1>2 DEF Accepting, Work, Step7
<1>8. QED
  BY <1>3, <1>4, <1>5, <1>6, <1>7 DEF AcceptInv

\* A run that is picked has its meta file.
LEMMA PickStep ==
    ASSUME AcceptInv, DirectoryInv, NEW d \in Drivers, Pick(d)
    PROVE  AcceptInv'
<1>1. AcceptFamilies /\ (\A e \in Drivers : Accepting(e)) /\ \A s \in Seconds, l \in Langs : Shares(s, l)
  BY DEF AcceptInv
<1>2. /\ UNCHANGED <<vars, sets, newest, lang, predictions, reports, held, compared>>
      /\ DOMAIN stage' = Drivers /\ DOMAIN picked' = Drivers
      /\ stage[d] = "pick" /\ picked'[d] = newest
      /\ stage'[d] = IF newest = NoDate THEN "failed" ELSE "import"
      /\ \A e \in Drivers : e # d => stage'[e] = stage[e] /\ picked'[e] = picked[e]
  BY <1>1 DEF Pick, AfterPick, Advance, AcceptFamilies, sharedVars
<1>3. files' = files /\ [Next]_vars
  BY <1>2 DEF vars
<1>4. newest' # NoDate => Sealed(newest)'
  BY <1>2, <1>3 DEF AcceptInv, Sealed, FileAt
<1>5. AcceptFamilies'
  BY <1>1, <1>2 DEF AcceptFamilies
<1>6. \A s \in Seconds, l \in Langs : Shares(s, l)'
  BY <1>1, <1>2, <1>3, SharesStay
<1>7. ASSUME NEW e \in Drivers, e # d
      PROVE  Accepting(e)'
  <2>1. stage[e] \in Work => picked[e] # NoDate
    BY <1>1 DEF Accepting
  <2>2. picked[d] = NoDate
    BY <1>1, <1>2 DEF Accepting
  <2>3. stage[e] \in Work /\ Alone(e)' => Alone(e)
    BY <1>2, <1>7, <2>1, <2>2 DEF Alone
  <2>4. QED
    BY <1>1, <1>2, <1>3, <1>7, <2>3, AcceptingStays
<1>8. Accepting(d)'
  <2>1. CASE newest = NoDate
    BY <1>2, <2>1 DEF Accepting, Work, Step7
  <2>2. CASE newest # NoDate
    <3>1. stage'[d] = "import" /\ lang'[d] = "zh" /\ \A l \in Langs : held'[d][l] = Nothing
      BY <1>1, <1>2, <2>2 DEF Accepting
    <3>2. picked'[d] # NoDate /\ Sealed(picked[d])'
      BY <1>2, <1>4, <2>2 DEF Sealed
    <3>3. Answered(<<>>) = {}
      BY DEF Answered
    <3>4. ASSUME NEW l \in Langs
          PROVE  RowsOf(held[d][l].rows, Found(picked[d], l), l)' /\ RowsOf(held[d][l].report.rows, Found(picked[d], l), l)'
      BY <3>1, <3>3 DEF RowsOf, Nothing, NoReport
    <3>5. ASSUME NEW l \in Langs
          PROVE  GoesOn(d, l)'
      BY <3>1 DEF GoesOn, OnOwn, WroteRows, WroteReport, HasReport, HasRows, Step7
    <3>6. QED
      BY <3>1, <3>2, <3>4, <3>5 DEF Accepting
  <2>3. QED
    BY <2>1, <2>2
<1>9. QED
  BY <1>4, <1>5, <1>6, <1>7, <1>8 DEF AcceptInv

\* No step disturbs what is known of the acceptances.
LEMMA AcceptsOn == AcceptInv /\ DirectoryInv /\ [AcceptNext]_allVars => AcceptInv'
<1> SUFFICES ASSUME AcceptInv, DirectoryInv, [AcceptNext]_allVars PROVE AcceptInv'
  OBVIOUS
<1>1. CASE UNCHANGED allVars
  <2>1. /\ [Next]_vars /\ files' = files
        /\ UNCHANGED <<stage, sets, picked, newest, lang, predictions, reports, held, compared>>
    BY <1>1 DEF allVars, acceptVars, ownVars, sharedVars, vars
  <2>2. \A d \in Drivers : Accepting(d)'
    BY <2>1, AcceptingStays DEF AcceptInv, Alone
  <2>3. \A s \in Seconds, l \in Langs : Shares(s, l)'
    BY <2>1, SharesStay DEF AcceptInv
  <2>4. QED
    BY <2>1, <2>2, <2>3 DEF AcceptInv, AcceptFamilies, Sealed, FileAt
<1>2. ASSUME NEW d \in Drivers, AcceptStep(d)
      PROVE  AcceptInv'
  BY <1>2, FirstSteps, PickStep, ImportStep, WriteRowsStep, LoadStep, WriteReportStep, CheckStep,
     ReadReportStep, ReadRowsStep, CompareStep DEF AcceptStep
<1>3. QED
  BY <1>1, <1>2, BelowAccepts DEF AcceptNext

\* Nothing has been picked.
LEMMA AcceptsFirst == AcceptInit => AcceptInv
<1> SUFFICES ASSUME AcceptInit PROVE AcceptInv
  OBVIOUS
<1>1. AcceptFamilies
  BY DEF AcceptInit, AcceptFamilies, Nothing, Langs
<1>2. ASSUME NEW s \in Seconds, NEW l \in Langs
      PROVE  Shares(s, l)
  <2>1. predictions[<<s, l>>] = NoRows /\ reports[<<s, l>>] = NothingYet
    BY DEF AcceptInit
  <2>2. QED
    BY <2>1, NoneFound DEF Shares
<1>3. \A d \in Drivers : Accepting(d)
  BY DEF AcceptInit, Accepting, Work, Step7
<1>4. QED
  BY <1>1, <1>2, <1>3 DEF AcceptInit, AcceptInv

\* The invariant of the acceptances.
THEOREM AcceptInvariant == ASSUME OneRunPerSecond PROVE AcceptSpec => []AcceptInv
<1>1. AcceptSpec => []DirectoryInv
  BY AcceptanceDrives, DirectoryInvariant, PTL
<1>2. QED
  BY <1>1, AcceptsFirst, AcceptsOn, PTL DEF AcceptSpec

\* An accepted comparison: run is the driver whose answers it is of, and the
\* rest is what the property says of it.
LEMMA AcceptedIsLike ==
    ASSUME AcceptInv, DirectoryInv, DrivesInv, NEW d \in Drivers, stage[d] = "accepted",
           NEW run, run = files[<<picked[d], "zh">>].by
    PROVE  /\ run \in Drivers /\ files[<<picked[d], "en">>].by = run
           /\ \A l \in Langs :
                /\ \A k \in Answered(held[d][l].rows) :
                        held[d][l].rows[k] = <<l, k>> /\ <<l, k>> \in DOMAIN got[run][l]
                /\ \A k \in Answered(held[d][l].report.rows) :
                        held[d][l].report.rows[k] = <<l, k>> /\ <<l, k>> \in DOMAIN got[run][l]
           /\ compared[d] \subseteq Answered(held[d]["zh"].rows) \cap Answered(held[d]["en"].rows)
           /\ Alone(d) =>
                /\ \A l \in Langs : held[d][l].report = ReportOf(d, l)
                /\ \A k \in (OwnKeys(d, "zh") \cap OwnKeys(d, "en")) \ compared[d] :
                        \E l \in Langs : <<l, k>> \in failed[run] \/ <<l, k>> \notin ItemsOf(run)
<1>1. /\ Sealed(picked[d])
      /\ \A l \in Langs : /\ RowsOf(held[d][l].rows, Found(picked[d], l), l)
                          /\ RowsOf(held[d][l].report.rows, Found(picked[d], l), l)
                          /\ Alone(d) => GoesOn(d, l)
      /\ compared[d] = {k \in OwnKeys(d, "zh") \cup OwnKeys(d, "en") : Paired(d, k)}
  BY DEF AcceptInv, Accepting, Work, Step7
<1>2. PICK e \in Drivers : /\ date[e] # -1
                          /\ FileAt(picked[d], "zh") = WholeFile(e, "zh")
                          /\ FileAt(picked[d], "en") = WholeFile(e, "en")
  BY <1>1, SealedRun
<1>3. run = e /\ files[<<picked[d], "en">>].by = e
  BY <1>2 DEF FileAt, WholeFile
<1>4. \A l \in Langs : Found(picked[d], l) = got[e][l]
  BY <1>2 DEF Found, FileAt, WholeFile, Content, Langs
<1>5. /\ Driven(e)
      /\ \A l \in Langs : \A i \in DOMAIN got[e][l] : i \in ItemsOf(e) /\ i[1] = l /\ got[e][l][i] = i
      /\ \A i \in ItemsOf(e) : i \notin DOMAIN got[e].zh \cup DOMAIN got[e].en => i \in failed[e]
  BY <1>2, AllSettled
<1>6. ASSUME NEW l \in Langs, NEW rows, RowsOf(rows, got[e][l], l)
      PROVE  \A k \in Answered(rows) : rows[k] = <<l, k>> /\ <<l, k>> \in DOMAIN got[e][l]
  BY <1>5, <1>6 DEF RowsOf
<1>7. \A l \in Langs :
        /\ \A k \in Answered(held[d][l].rows) :
                held[d][l].rows[k] = <<l, k>> /\ <<l, k>> \in DOMAIN got[e][l]
        /\ \A k \in Answered(held[d][l].report.rows) :
                held[d][l].report.rows[k] = <<l, k>> /\ <<l, k>> \in DOMAIN got[e][l]
  BY <1>1, <1>4, <1>6
<1>8. compared[d] \subseteq Answered(held[d]["zh"].rows) \cap Answered(held[d]["en"].rows)
  BY <1>1 DEF Paired, Scorable, Langs
<1>9. ASSUME Alone(d)
      PROVE  /\ \A l \in Langs : held[d][l].report = ReportOf(d, l)
             /\ \A k \in (OwnKeys(d, "zh") \cap OwnKeys(d, "en")) \ compared[d] :
                     \E l \in Langs : <<l, k>> \in failed[e] \/ <<l, k>> \notin ItemsOf(e)
  <2>1. \A l \in Langs : /\ held[d][l].report = [keys |-> OwnKeys(d, l), rows |-> ImportedRows(d, l)]
                        /\ held[d][l].rows = ImportedRows(d, l)
    BY <1>1, <1>9 DEF GoesOn, OnOwn, HasReport, HasRows
  <2>2. \A l \in Langs : held[d][l].report = ReportOf(d, l)
    BY <2>1 DEF ReportOf
  <2>3. ASSUME NEW k \in (OwnKeys(d, "zh") \cap OwnKeys(d, "en")) \ compared[d]
        PROVE  \E l \in Langs : <<l, k>> \in failed[e] \/ <<l, k>> \notin ItemsOf(e)
    <3>1. PICK l \in Langs : ~Scorable(d, l, k)
      BY <1>1, <2>3 DEF Paired
    <3>2. k \in OwnKeys(d, l) /\ k \notin Answered(ImportedRows(d, l))
      BY <2>1, <2>3, <3>1 DEF Scorable, Langs
    <3>3. k \in DOMAIN ImportedRows(d, l) /\ ImportedRows(d, l)[k] = NoAnswer
      BY <3>2 DEF Answered, ImportedRows
    <3>4. SUFFICES ASSUME <<l, k>> \in ItemsOf(e)
                   PROVE  <<l, k>> \in failed[e]
      OBVIOUS
    <3>5. <<l, k>> \in Items
      <4>1. job[e] \in Jobs /\ IdsPair(job[e])
        BY <1>5 DEF DrivesInv, Driving
      <4>2. ItemsOf(e) \subseteq Items
        BY <4>1 DEF ItemsOf, Items, Langs
      <4>3. QED
        BY <3>4, <4>2
    <3>6. <<l, k>> \notin DOMAIN got[e][l]
      <4>1. SUFFICES ASSUME <<l, k>> \in DOMAIN got[e][l]
                     PROVE  FALSE
        OBVIOUS
      <4>2. ImportedRows(d, l)[k] = got[e][l][<<l, k>>]
        BY <1>4, <3>2, <4>1 DEF ImportedRows, Found
      <4>3. got[e][l][<<l, k>>] = <<l, k>>
        BY <1>5, <4>1
      <4>4. QED
        BY <3>3, <3>5, <4>2, <4>3, AnswerAssumption
    <3>7. <<l, k>> \notin DOMAIN got[e].zh \cup DOMAIN got[e].en
      <4>1. \A h \in Langs : <<l, k>> \in DOMAIN got[e][h] => h = l
        BY <1>5
      <4>2. QED
        BY <3>6, <4>1 DEF Langs
    <3>8. QED
      BY <1>5, <3>4, <3>7
  <2>4. QED
    BY <2>2, <2>3
<1>10. QED
  BY <1>2, <1>3, <1>7, <1>8, <1>9

\* The two sides that are compared are of the same run, and each answer is to
\* its own prompt: however many acceptances share the directory and the files
\* of one run there, pick what is newest, and have their drivers killed or
\* skipped.  One that is alone with its run leaves out no pair of its sets that
\* was driven and not given up, and its tables are of the rows it compares.
THEOREM ComparesLikeWithLike == ASSUME OneRunPerSecond PROVE AcceptSpec => []CompareLikeWithLike
<1>1. AcceptInv /\ DirectoryInv /\ DrivesInv => CompareLikeWithLike
  BY AcceptedIsLike DEF CompareLikeWithLike
<1>2. AcceptSpec => []DirectoryInv /\ []DrivesInv
  BY AcceptanceDrives, DirectoryInvariant, DrivesInvariant, PTL
<1>3. QED
  BY <1>1, <1>2, AcceptInvariant, PTL
=============================================================================
