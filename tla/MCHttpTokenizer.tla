--------------------------- MODULE MCHttpTokenizer ---------------------------
(***************************************************************************)
(* Instances of HttpTokenizer for TLC: two endpoint URLs, two fields, and  *)
(* the deployments that differ in how they treat the four combinations.    *)
(***************************************************************************)
EXTENDS HttpTokenizer

CONSTANTS x1, none, empty, v1, v2, t1, t2

\* The documented default, http://127.0.0.1:8014/v1.
VersionedBase == <<"host", "v1">>

\* The two routes a server may have, by name and not by position.
Served == {<<"host", "v1", "tokenize">>, <<"host", "tokenize">>}
Posts == [url : Served, field : Fields]

Deployment(speaks, v, flaky) == [speaks |-> speaks, vocab |-> v, flaky |-> flaky]

\* Every way a server may treat the four combinations.
Steady == {Deployment(f, v1, FALSE) : f \in [Posts -> Behaviours]}

By(f(_, _)) == [p \in Posts |-> f(p.url, p.field)]

Reference(url, field) == IF field = "prompt" THEN "tokenizes" ELSE "errors"
LlamaCpp(url, field) == IF field = "content" THEN "tokenizes" ELSE "ignores"
Mute(url, field) == "ignores"

\* Of one host, replaced by one another, reliable or not: of a flaky one any
\* POST may fail.
Swapped ==
    {Deployment(By(Reference), v2, FALSE), Deployment(By(LlamaCpp), v2, FALSE),
     Deployment(By(Reference), v1, TRUE), Deployment(By(LlamaCpp), v2, TRUE),
     Deployment(By(Mute), v1, TRUE)}

MCDeployments == Steady \cup Swapped
MCRedeploys == Swapped \X Swapped

MCJobs == {<<empty>>, <<x1>>, <<empty, x1>>}
=============================================================================
