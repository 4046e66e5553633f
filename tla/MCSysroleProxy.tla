--------------------------- MODULE MCSysroleProxy ---------------------------
(***************************************************************************)
(* Conversations of up to three messages, some of them lists of parts, a   *)
(* body that is not JSON, and one that is a JSON list; one connection to an *)
(* endpoint that finishes what it begins, and one that it may break off.   *)
(***************************************************************************)
EXTENDS SysroleProxy, SequencesExt

Message(role, content) == [role |-> role, content |-> content, marked |-> FALSE]
Object(ms) == [shape |-> "object", messages |-> ms]

System == Message("system", "text")
SystemParts == Message("system", "parts")
User == Message("user", "text")

MCBodies ==
    {Object(<<User>>), Object(<<System, System>>), Object(<<System, User, SystemParts>>),
     NoBody, [shape |-> "list", messages |-> <<>>]}
=============================================================================
