---------------------------- MODULE TokenService ----------------------------
(***************************************************************************)
(* What the request handler of jev-server relies on when it calls          *)
(* `Prefetch::prefetch` and then the synchronous `SlotVerifier::encode`:   *)
(* a store of tokenizations shared by every task of the process, and, per  *)
(* task, a call that is served only when every text it asked for is in the *)
(* store.  A store entry may be replaced (two tasks may tokenize one text  *)
(* against two deployments of the endpoint) but it never goes away.        *)
(* HttpTokenizer is shown to implement this module.                        *)
(***************************************************************************)
CONSTANTS
    Tasks,       \* concurrent callers
    Texts,       \* texts a caller may ask for
    Ids,         \* tokenizations an entry may hold
    Empty,       \* the text "", the only one that may have no tokens
    NoTokens,    \* the tokenization without tokens
    NotCached    \* a text without an entry

VARIABLES
    cache,       \* cache[x]: the tokenization stored for x, or NotCached
    asked,       \* asked[t]: the texts of t's current (or last) call
    status       \* status[t]: where t's call stands

vars == <<cache, asked, status>>

Init ==
    /\ cache = [x \in Texts |-> NotCached]
    /\ asked = [t \in Tasks |-> {}]
    /\ status = [t \in Tasks |-> "none"]

Stored(x) == cache[x] # NotCached

\* Never the empty tokenization of a non-empty text.
Acceptable(x, ids) == ids = NoTokens => x = Empty

(* A task calls prefetch; it has no call outstanding. *)
Ask(t, S) ==
    /\ status[t] # "pending"
    /\ asked' = [asked EXCEPT ![t] = S]
    /\ status' = [status EXCEPT ![t] = "pending"]
    /\ UNCHANGED cache

(* A pending call brings in the tokenization of a text it asked for. *)
Fill(t, x, ids) ==
    /\ status[t] = "pending"
    /\ x \in asked[t]
    /\ Acceptable(x, ids)
    /\ cache' = [cache EXCEPT ![x] = ids]
    /\ UNCHANGED <<asked, status>>

(* Every text is there: the caller may encode all of them synchronously. *)
Serve(t) ==
    /\ status[t] = "pending"
    /\ \A x \in asked[t] : Stored(x)
    /\ status' = [status EXCEPT ![t] = "served"]
    /\ UNCHANGED <<cache, asked>>

(* The call returns an error; the texts it already stored stay stored. *)
Refuse(t) ==
    /\ status[t] = "pending"
    /\ status' = [status EXCEPT ![t] = "failed"]
    /\ UNCHANGED <<cache, asked>>

(* The caller's future is dropped while it waits. *)
Abandon(t) ==
    /\ status[t] = "pending"
    /\ status' = [status EXCEPT ![t] = "none"]
    /\ UNCHANGED <<cache, asked>>

Next ==
    \E t \in Tasks :
        \/ \E S \in SUBSET Texts : Ask(t, S)
        \/ \E x \in Texts, ids \in Ids : Fill(t, x, ids)
        \/ Serve(t)
        \/ Refuse(t)
        \/ Abandon(t)

Spec == Init /\ [][Next]_vars
=============================================================================
