---------------------------- MODULE SysroleProxy ----------------------------
(***************************************************************************)
(* tools/sysrole-proxy.py: between a client that keeps its connection and  *)
(* an endpoint that accepts a system message only in first place.  One     *)
(* handler thread per connection rewrites the roles of a request, forwards *)
(* it over a connection of its own, and relays the reply: a chunked one    *)
(* byte by byte until the end of file, any other as a whole.               *)
(* Threads share nothing but two counters for the log, which are left out. *)
(***************************************************************************)
EXTENDS Naturals, Sequences

CONSTANTS
    Clients,
    Bodies,         \* the request bodies, see below
    MaxRequests,    \* bound on the requests of a client
    MaxChunks,      \* bound on the chunks of a reply
    Unlucky         \* the clients whose streams, and replies without a length, may break off

\* A body is [shape, messages]: not JSON, JSON that is no object, or an object
\* with a list of messages.  A message is [role, content, marked]: its content
\* is a string or a list of parts, and the mark "[system] " may have been put
\* in front of a string.
Shapes == {"opaque", "list", "object"}
SentMessages == [role : STRING, content : {"text", "parts"}, marked : {FALSE}]

ASSUME ProxyAssumption ==
    /\ Bodies \subseteq [shape : Shapes, messages : Seq(SentMessages)]
    /\ MaxRequests \in Nat /\ MaxChunks \in Nat \ {0} /\ Unlucky \subseteq Clients

VARIABLES
    client,     \* idle, waiting for a reply, dropped by the proxy, or gone
    asked,      \* how many requests the client has sent
    unread,     \* a request the thread has not read yet
    body,       \* the last request
    thread,     \* idle (reading), forward, stream, or closed
    forwarded,  \* what the endpoint got
    wire,       \* chunks sent by the endpoint and not read by the thread
    open,       \* the endpoint's side of the stream is open
    emitted,    \* history: the chunks of the reply under way
    got         \* what the client has received of it

vars == <<client, asked, unread, body, thread, forwarded, wire, open, emitted, got>>
upstreamVars == <<wire, open, emitted>>

NoBody == [shape |-> "opaque", messages |-> <<>>]

Init ==
    /\ client = [c \in Clients |-> "idle"]
    /\ asked = [c \in Clients |-> 0]
    /\ unread = [c \in Clients |-> FALSE]
    /\ body = [c \in Clients |-> NoBody]
    /\ thread = [c \in Clients |-> "idle"]
    /\ forwarded = [c \in Clients |-> NoBody]
    /\ wire = [c \in Clients |-> <<>>]
    /\ open = [c \in Clients |-> FALSE]
    /\ emitted = [c \in Clients |-> <<>>]
    /\ got = [c \in Clients |-> <<>>]

Becomes(c, next) == client' = [client EXCEPT ![c] = next]
Thread(c, next) == thread' = [thread EXCEPT ![c] = next]

\* The client's side when the thread ends with its request unanswered.
Hangup(c) ==
    /\ Thread(c, "closed")
    /\ client' = [client EXCEPT ![c] = IF @ = "waiting" THEN "dropped" ELSE @]

\* The last of a reply is written to the client.
Completes(c, reply) ==
    /\ got' = [got EXCEPT ![c] = reply]
    /\ client' = [client EXCEPT ![c] = IF @ = "waiting" THEN "idle" ELSE @]

-----------------------------------------------------------------------------
(* The client. *)

\* A request on the connection, or on a new one if that was closed.
Ask(c, b) ==
    /\ client[c] = "idle"
    /\ asked[c] < MaxRequests
    /\ asked' = [asked EXCEPT ![c] = @ + 1]
    /\ Becomes(c, "waiting")
    /\ unread' = [unread EXCEPT ![c] = TRUE]
    /\ body' = [body EXCEPT ![c] = b]
    /\ got' = [got EXCEPT ![c] = <<>>]
    /\ thread' = [thread EXCEPT ![c] = IF @ = "closed" THEN "idle" ELSE @]
    /\ UNCHANGED <<forwarded, upstreamVars>>

Leave(c) ==
    /\ client[c] = "waiting"
    /\ Becomes(c, "gone")
    /\ UNCHANGED <<asked, unread, body, thread, forwarded, upstreamVars, got>>

-----------------------------------------------------------------------------
(* The request. *)

\* Mutant: the system messages at the head are all taken for leading ones.
MisplacedAfterOthers(ms, i) ==
    ms[i].role = "system" /\ \E j \in 1..(i - 1) : ms[j].role # "system"

Misplaced(ms, i) == ms[i].role = "system" /\ i # 1

\* A string content gets the mark, a list of parts does not.
Marked(m) == [m EXCEPT !.marked = m.content = "text"]

RewriteSystemRoles(ms) ==
    [i \in DOMAIN ms |->
        IF Misplaced(ms, i) THEN [Marked(ms[i]) EXCEPT !.role = "user"] ELSE ms[i]]

\* Content-Length bytes are read.
Consumed(c) == unread' = [unread EXCEPT ![c] = FALSE]

\* The body is read and rewritten; `obj.get` of what is no object raises, and
\* the thread ends.
Rewrite(c) ==
    /\ thread[c] = "idle"
    /\ unread[c]
    /\ Consumed(c)
    /\ IF body[c].shape = "list"
         THEN Hangup(c) /\ UNCHANGED forwarded
         ELSE /\ forwarded' = [forwarded EXCEPT ![c] =
                    [body[c] EXCEPT !.messages = RewriteSystemRoles(@)]]
              /\ Thread(c, "forward")
              /\ UNCHANGED client
    /\ UNCHANGED <<asked, body, upstreamVars, got>>

-----------------------------------------------------------------------------
(* The reply. *)

\* Mutant: the handler returns without a word.
UpstreamErrorSilent(c) ==
    /\ thread[c] = "forward"
    /\ Thread(c, "idle")
    /\ UNCHANGED <<client, asked, unread, body, forwarded, upstreamVars, got>>

\* Nobody listens, or nothing comes for 3600 s: a 502.
UpstreamError(c) ==
    /\ thread[c] = "forward"
    /\ Completes(c, <<"502">>)
    /\ Thread(c, "idle")
    /\ UNCHANGED <<asked, unread, body, forwarded, upstreamVars>>

\* A reply that is not chunked is read as a whole, then written; a gone client
\* ends the thread.
Replies(c, reply) ==
    /\ thread[c] = "forward"
    /\ Completes(c, <<reply>>)
    /\ Thread(c, IF client[c] = "gone" THEN "closed" ELSE "idle")
    /\ UNCHANGED <<asked, unread, body, forwarded, upstreamVars>>

WholeReply(c) == Replies(c, "whole")

\* A reply without a length ends with the endpoint's connection, and is sent
\* with a length of its own: what broke off looks like a whole one.
PartReply(c) == c \in Unlucky /\ Replies(c, "part")

\* A reply of known length breaks off, or nothing more of it comes for 3600 s:
\* `read` raises, before a byte of it was sent.
ReplyCutShort(c) ==
    /\ thread[c] = "forward"
    /\ Hangup(c)
    /\ UNCHANGED <<asked, unread, body, forwarded, upstreamVars, got>>

\* The head of a chunked reply.
StreamStarts(c) ==
    /\ thread[c] = "forward"
    /\ Thread(c, "stream")
    /\ wire' = [wire EXCEPT ![c] = <<>>]
    /\ emitted' = [emitted EXCEPT ![c] = <<>>]
    /\ open' = [open EXCEPT ![c] = TRUE]
    /\ UNCHANGED <<client, asked, unread, body, forwarded, got>>

Ended(chunks) == chunks # <<>> /\ chunks[Len(chunks)] = "end"

\* The endpoint sends a chunk, the last one being the terminal chunk.
UpstreamEmits(c) ==
    /\ open[c]
    /\ ~Ended(emitted[c])
    /\ \E chunk \in {"data", "end"} :
        /\ Len(emitted[c]) < MaxChunks \/ chunk = "end"
        /\ emitted' = [emitted EXCEPT ![c] = Append(@, chunk)]
        /\ wire' = [wire EXCEPT ![c] = Append(@, chunk)]
    /\ UNCHANGED <<client, asked, unread, body, thread, forwarded, open, got>>

\* It closes a connection that is idle, or dies.
UpstreamCloses(c) ==
    /\ open[c]
    /\ Ended(emitted[c]) \/ c \in Unlucky
    /\ open' = [open EXCEPT ![c] = FALSE]
    /\ UNCHANGED <<client, asked, unread, body, thread, forwarded, wire, emitted, got>>

\* read1, write, flush.  The thread does not look at what it relays, and goes
\* on reading behind the terminal chunk.
Relay(c) ==
    /\ thread[c] = "stream"
    /\ wire[c] # <<>>
    /\ wire' = [wire EXCEPT ![c] = Tail(@)]
    /\ IF client[c] = "gone"
         THEN Thread(c, "closed") /\ open' = [open EXCEPT ![c] = FALSE] /\ UNCHANGED <<client, got>>
         ELSE /\ IF Head(wire[c]) = "end"
                   THEN Completes(c, Append(got[c], "end"))
                   ELSE got' = [got EXCEPT ![c] = Append(@, "data")] /\ UNCHANGED client
              /\ UNCHANGED <<thread, open>>
    /\ UNCHANGED <<asked, unread, body, forwarded, emitted>>

\* Mutant: the proxy ends the stream itself.
AtEofTerminates(c) ==
    IF Ended(emitted[c]) THEN UNCHANGED <<client, got>> ELSE Completes(c, Append(got[c], "end"))

AtEof(c) == UNCHANGED <<client, got>>

\* End of file: the loop is left, and the thread reads the next request.
RelayEnds(c) ==
    /\ thread[c] = "stream"
    /\ wire[c] = <<>>
    /\ ~open[c]
    /\ AtEof(c)
    /\ Thread(c, "idle")
    /\ UNCHANGED <<asked, unread, body, forwarded, upstreamVars>>

\* Nothing comes for 3600 s: the exception is none of those that are caught.
RelayTimesOut(c) ==
    /\ thread[c] = "stream"
    /\ wire[c] = <<>>
    /\ open[c]
    /\ open' = [open EXCEPT ![c] = FALSE]
    /\ Hangup(c)
    /\ unread' = [unread EXCEPT ![c] = FALSE]
    /\ UNCHANGED <<asked, body, forwarded, wire, emitted, got>>

ThreadStep(c) ==
    \/ Rewrite(c)
    \/ UpstreamError(c) \/ WholeReply(c) \/ PartReply(c) \/ ReplyCutShort(c)
    \/ StreamStarts(c)
    \/ Relay(c) \/ RelayEnds(c)

\* Something happens to a stream within the timeout, or the timeout does.
StreamStep(c) == UpstreamEmits(c) \/ UpstreamCloses(c) \/ RelayTimesOut(c)

Next ==
    \E c \in Clients :
        \/ \E b \in Bodies : Ask(c, b)
        \/ Leave(c)
        \/ ThreadStep(c)
        \/ StreamStep(c)

Spec == Init /\ [][Next]_vars

\* Threads are scheduled; every read of a thread has a timeout.
FairSpec == Spec /\ \A c \in Clients : WF_vars(ThreadStep(c)) /\ WF_vars(StreamStep(c))

-----------------------------------------------------------------------------
(* Properties. *)

Messages(c) == forwarded[c].messages

\* "System message must be at the beginning": no request the endpoint gets has
\* a system message anywhere else, and what reached it is the conversation the
\* client sent: every message in its place, a message without the mark either
\* in its old role or with parts for a content.
AcceptedUpstream ==
    \A c \in Clients : thread[c] \in {"forward", "stream"} /\ ~unread[c] =>
        /\ Len(Messages(c)) = Len(body[c].messages)
        /\ \A i \in DOMAIN Messages(c) :
            LET new == Messages(c)[i] old == body[c].messages[i] IN
            /\ new.role = "system" => i = 1
            /\ new.content = old.content
            /\ new.marked = (new.role # old.role /\ new.content = "text")

\* "Streaming framing preserved verbatim": what the client has of a stream is
\* the beginning of what the endpoint sent, and it is taken for a whole reply
\* only if the endpoint ended it, however the two connections come to an end.
\* (Of a reply that is neither chunked nor has a length this cannot be said.)
TruncationIsNotAnAnswer ==
    \A c \in Clients : thread[c] = "stream" \/ Ended(got[c]) =>
        /\ Len(got[c]) <= Len(emitted[c])
        /\ got[c] = SubSeq(emitted[c], 1, Len(got[c]))

\* A client whose streams are not broken off gets to the end of every reply, or
\* sees its connection end, whatever else the endpoint and it do.
EveryReplyEnds == \A c \in Clients \ Unlucky : client[c] = "waiting" ~> client[c] # "waiting"
=============================================================================
