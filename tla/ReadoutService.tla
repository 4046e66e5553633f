--------------------------- MODULE ReadoutService ---------------------------
(***************************************************************************)
(* DecisionBackend::token_logprobs_batch as its trait documents it: a call *)
(* on N prompts returns exactly one readout per prompt, in the order of    *)
(* the prompts, or fails as a whole.  ReadoutBackend is shown to implement *)
(* this module; the request handler is composed with it.                   *)
(***************************************************************************)
EXTENDS Naturals, Sequences

CONSTANTS
    Calls,     \* batched calls, concurrent with one another
    Batches,   \* the prompt sequences a call may be made with
    Usages     \* the prompt-token numbers a readout may carry

VARIABLES
    prompts,   \* prompts[c]: what call c asks for
    status,    \* status[c]: where call c stands
    readouts   \* readouts[c]: what it returned

serviceVars == <<prompts, status, readouts>>

\* The readout of one prompt: whose distribution it is, and its token count.
Readout(p, n) == [prompt |-> p, prompt_tokens |-> n]

ReadoutsOf(ps) ==
    {rs \in [1..Len(ps) -> {Readout(p, n) : p \in {ps[i] : i \in 1..Len(ps)}, n \in Usages}] :
        \A i \in 1..Len(ps) : rs[i].prompt = ps[i]}

ServiceInit ==
    /\ prompts = [c \in Calls |-> <<>>]
    /\ status = [c \in Calls |-> "none"]
    /\ readouts = [c \in Calls |-> <<>>]

(* The caller awaits the readouts of ps; nothing to ask is answered at once. *)
Ask(c, ps) ==
    /\ status[c] = "none"
    /\ prompts' = [prompts EXCEPT ![c] = ps]
    /\ status' = [status EXCEPT ![c] = IF ps = <<>> THEN "answered" ELSE "pending"]
    /\ UNCHANGED readouts

(* Every prompt got its own readout. *)
Answer(c, rs) ==
    /\ status[c] = "pending"
    /\ rs \in ReadoutsOf(prompts[c])
    /\ readouts' = [readouts EXCEPT ![c] = rs]
    /\ status' = [status EXCEPT ![c] = "answered"]
    /\ UNCHANGED prompts

(* The call failed, and nothing of it is seen. *)
Fail(c) ==
    /\ status[c] = "pending"
    /\ status' = [status EXCEPT ![c] = "failed"]
    /\ UNCHANGED <<prompts, readouts>>

(* The caller's future is dropped while it waits. *)
Abandon(c) ==
    /\ status[c] = "pending"
    /\ status' = [status EXCEPT ![c] = "abandoned"]
    /\ UNCHANGED <<prompts, readouts>>

ServiceNext ==
    \E c \in Calls :
        \/ \E ps \in Batches : Ask(c, ps)
        \/ \E rs \in ReadoutsOf(prompts[c]) : Answer(c, rs)
        \/ Fail(c)
        \/ Abandon(c)

ServiceSpec == ServiceInit /\ [][ServiceNext]_serviceVars
=============================================================================
