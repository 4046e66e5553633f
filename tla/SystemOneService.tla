-------------------------- MODULE SystemOneService --------------------------
(***************************************************************************)
(* POST /v1/systemone as its clients see it: a request is answered as a    *)
(* whole, every question from its own prompt, or refused as a whole; its   *)
(* prompts are read, and paid for, once at most.  SystemOne is shown to    *)
(* implement this module; the evaluation drivers are composed with it.     *)
(***************************************************************************)
EXTENDS Naturals, Sequences

CONSTANTS
    Requests,
    Bodies     \* the prompt sequences a request may ask about

VARIABLES
    status,    \* status[r]: where request r stands
    asked,     \* asked[r]: the prompts of its questions
    paid,      \* paid[r]: the endpoint has read its prompts
    answers    \* answers[r]: per question, the prompt the answer is about

serviceVars == <<status, asked, paid, answers>>

ServiceInit ==
    /\ status = [r \in Requests |-> "none"]
    /\ asked = [r \in Requests |-> <<>>]
    /\ paid = [r \in Requests |-> FALSE]
    /\ answers = [r \in Requests |-> <<>>]

To(r, next) == status' = [status EXCEPT ![r] = next]

(* The request comes in; one without questions is refused at once. *)
Take(r, b) ==
    /\ status[r] = "none"
    /\ asked' = [asked EXCEPT ![r] = b]
    /\ To(r, IF b = <<>> THEN "refused" ELSE "pending")
    /\ UNCHANGED <<paid, answers>>

(* The endpoint is asked for the distributions. *)
Pay(r) ==
    /\ status[r] = "pending"
    /\ ~paid[r]
    /\ paid' = [paid EXCEPT ![r] = TRUE]
    /\ UNCHANGED <<status, asked, answers>>

(* 200: every question, in order. *)
Answer(r) ==
    /\ status[r] = "pending"
    /\ paid[r]
    /\ answers' = [answers EXCEPT ![r] = asked[r]]
    /\ To(r, "answered")
    /\ UNCHANGED <<asked, paid>>

(* 422 or 502, before or after the readout, and no answer at all. *)
Refuse(r) ==
    /\ status[r] = "pending"
    /\ To(r, "refused")
    /\ UNCHANGED <<asked, paid, answers>>

(* The client has gone away, and the server has noticed. *)
Abandon(r) ==
    /\ status[r] = "pending"
    /\ To(r, "abandoned")
    /\ UNCHANGED <<asked, paid, answers>>

Serve(r) == Pay(r) \/ Answer(r) \/ Refuse(r) \/ Abandon(r)

ServiceNext == \E r \in Requests : (\E b \in Bodies : Take(r, b)) \/ Serve(r)

ServiceSpec == ServiceInit /\ [][ServiceNext]_serviceVars
=============================================================================
