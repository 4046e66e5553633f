-------------------------- MODULE SysroleProxyProofs --------------------------
(***************************************************************************)
(* Proofs about the system-role proxy, for every set of clients and        *)
(* bodies, and replies of any length.                                      *)
(***************************************************************************)
EXTENDS SysroleProxy, SequenceTheorems, TLAPS

StreamChunks == {"data", "end"}
Chunks == StreamChunks \cup {"502", "whole", "part"}

Types(c) ==
    /\ body[c] \in Bodies \cup {NoBody}
    /\ wire[c] \in Seq(StreamChunks) /\ emitted[c] \in Seq(StreamChunks)
    /\ got[c] \in Seq(Chunks)
    /\ open[c] \in BOOLEAN /\ unread[c] \in BOOLEAN

\* A chunk "end" is the last one.
EndsOnce(sent) == \A i \in 1..(Len(sent) - 1) : sent[i] # "end"

IsBeginning(had, sent) ==
    Len(had) <= Len(sent) /\ \A i \in 1..Len(had) : had[i] = sent[i]

\* What was sent is what one side has, followed by what is on the way.
Follows(had, way, sent) ==
    /\ Len(had) + Len(way) = Len(sent)
    /\ \A i \in 1..Len(had) : had[i] = sent[i]
    /\ \A i \in 1..Len(way) : way[i] = sent[Len(had) + i]

Beginning(c) == IsBeginning(got[c], emitted[c])
Relayed(c) == Follows(got[c], wire[c], emitted[c])

\* Where the thread of c, its client and the endpoint stand to one another.
Stands(c) ==
    /\ open[c] => thread[c] = "stream"
    /\ unread[c] => client[c] \in {"waiting", "gone"} /\ got[c] = <<>>
    /\ thread[c] = "forward" =>
          client[c] \in {"waiting", "gone"} /\ got[c] = <<>> /\ ~unread[c]
    /\ thread[c] = "stream" /\ ~unread[c] => Relayed(c)
    /\ thread[c] = "stream" /\ (unread[c] \/ client[c] = "idle") =>
          wire[c] = <<>> /\ Ended(emitted[c])
    /\ Ended(got[c]) => Beginning(c)
    /\ EndsOnce(emitted[c])

\* The endpoint got the rewritten request.
Forwards(c) ==
    thread[c] \in {"forward", "stream"} /\ ~unread[c] =>
        Messages(c) = RewriteSystemRoles(body[c].messages)

Connection(c) == Types(c) /\ Stands(c) /\ Forwards(c)

Families ==
    /\ DOMAIN client = Clients /\ DOMAIN asked = Clients /\ DOMAIN unread = Clients
    /\ DOMAIN body = Clients /\ DOMAIN thread = Clients /\ DOMAIN forwarded = Clients
    /\ DOMAIN wire = Clients /\ DOMAIN open = Clients /\ DOMAIN emitted = Clients
    /\ DOMAIN got = Clients

ProxyInv == Families /\ \A c \in Clients : Connection(c)

-----------------------------------------------------------------------------
(* What was got, is on the way, and was sent. *)

\* A chunk that is sent is the last on the way.
LEMMA SentIsOnTheWay ==
    ASSUME NEW had \in Seq(Chunks), NEW way \in Seq(StreamChunks),
           NEW sent \in Seq(StreamChunks), NEW chunk \in StreamChunks,
           Follows(had, way, sent), EndsOnce(sent), ~Ended(sent)
    PROVE  /\ Append(way, chunk) \in Seq(StreamChunks)
           /\ Append(sent, chunk) \in Seq(StreamChunks)
           /\ Follows(had, Append(way, chunk), Append(sent, chunk))
           /\ EndsOnce(Append(sent, chunk))
<1> DEFINE way2 == Append(way, chunk)
<1> DEFINE sent2 == Append(sent, chunk)
<1> DEFINE g == Len(had)
<1> DEFINE w == Len(way)
<1> DEFINE e == Len(sent)
<1>1. g \in Nat /\ w \in Nat /\ e \in Nat /\ g + w = e
  BY DEF Follows
<1>2. /\ way2 \in Seq(StreamChunks) /\ sent2 \in Seq(StreamChunks)
      /\ Len(way2) = w + 1 /\ Len(sent2) = e + 1
      /\ \A i \in 1..w : way2[i] = way[i]
      /\ \A i \in 1..e : sent2[i] = sent[i]
      /\ way2[w + 1] = chunk /\ sent2[e + 1] = chunk
  OBVIOUS
<1>3. /\ \A i \in 1..g : had[i] = sent[i]
      /\ \A i \in 1..w : way[i] = sent[g + i]
  BY DEF Follows
<1>4. \A i \in 1..(e - 1) : sent[i] # "end"
  BY DEF EndsOnce
<1>5. e > 0 => sent[e] # "end"
  BY <1>1, EmptySeq DEF Ended
<1> HIDE DEF way2, sent2, g, w, e
<1>6. \A i \in 1..g : had[i] = sent2[i]
  <2>1. \A i \in 1..g : i \in 1..e
    BY <1>1
  <2>2. QED
    BY <1>2, <1>3, <2>1
<1>7. \A i \in 1..(w + 1) : way2[i] = sent2[g + i]
  <2>1. \A i \in 1..w : g + i \in 1..e
    BY <1>1
  <2>2. \A i \in 1..(w + 1) : i \in 1..w \/ i = w + 1
    BY <1>1
  <2>3. g + (w + 1) = e + 1
    BY <1>1
  <2>4. \A i \in 1..w : way2[i] = sent2[g + i]
    BY <1>2, <1>3, <2>1
  <2>5. way2[w + 1] = sent2[g + (w + 1)]
    BY <1>2, <2>3
  <2>6. QED
    BY <2>2, <2>4, <2>5
<1>8. g + Len(way2) = Len(sent2)
  BY <1>1, <1>2
<1>9. \A i \in 1..(Len(sent2) - 1) : sent2[i] # "end"
  <2>1. Len(sent2) - 1 = e
    BY <1>1, <1>2
  <2>2. \A i \in 1..e : i \in 1..(e - 1) \/ (i = e /\ e > 0)
    BY <1>1
  <2>3. QED
    BY <1>2, <1>4, <1>5, <2>1, <2>2
<1>10. QED
  BY <1>2, <1>6, <1>7, <1>8, <1>9 DEF Follows, EndsOnce, way2, sent2, g

\* A chunk that is relayed was the first on the way.
LEMMA GotFromTheWay ==
    ASSUME NEW had \in Seq(Chunks), NEW way \in Seq(StreamChunks),
           NEW sent \in Seq(StreamChunks),
           Follows(had, way, sent), EndsOnce(sent), way # <<>>
    PROVE  /\ Head(way) \in StreamChunks
           /\ Tail(way) \in Seq(StreamChunks)
           /\ Append(had, Head(way)) \in Seq(Chunks)
           /\ Follows(Append(had, Head(way)), Tail(way), sent)
           /\ Head(way) = "end" => Tail(way) = <<>> /\ Ended(sent)
<1> DEFINE had2 == Append(had, Head(way))
<1> DEFINE way2 == Tail(way)
<1> DEFINE g == Len(had)
<1> DEFINE w == Len(way)
<1> DEFINE e == Len(sent)
<1>1. g \in Nat /\ w \in Nat /\ w # 0 /\ e \in Nat /\ g + w = e
  BY EmptySeq DEF Follows
<1>2. /\ Head(way) = way[1] /\ way[1] \in StreamChunks /\ way[1] \in Chunks
      /\ way2 \in Seq(StreamChunks) /\ Len(way2) = w - 1
      /\ \A i \in 1..(w - 1) : way2[i] = way[i + 1]
  BY <1>1 DEF Chunks
<1>3. /\ had2 \in Seq(Chunks) /\ Len(had2) = g + 1
      /\ \A i \in 1..g : had2[i] = had[i]
      /\ had2[g + 1] = way[1]
  BY <1>2
<1>4. /\ \A i \in 1..g : had[i] = sent[i]
      /\ \A i \in 1..w : way[i] = sent[g + i]
  BY DEF Follows
<1>5. \A i \in 1..(e - 1) : sent[i] # "end"
  BY DEF EndsOnce
<1> HIDE DEF had2, way2, g, w, e
<1>6. way[1] = sent[g + 1]
  BY <1>1, <1>4
<1>7. \A i \in 1..(g + 1) : had2[i] = sent[i]
  <2>1. \A i \in 1..(g + 1) : i \in 1..g \/ i = g + 1
    BY <1>1
  <2>2. QED
    BY <1>3, <1>4, <1>6, <2>1
<1>8. \A i \in 1..(w - 1) : way2[i] = sent[(g + 1) + i]
  <2>1. \A i \in 1..(w - 1) : i + 1 \in 1..w /\ g + (i + 1) = (g + 1) + i
    BY <1>1
  <2>2. QED
    BY <1>2, <1>4, <2>1
<1>9. (g + 1) + (w - 1) = e
  BY <1>1
<1>10. ASSUME way[1] = "end"
       PROVE  w = 1 /\ e = g + 1
  <2>1. ~(g + 1 \in 1..(e - 1))
    BY <1>5, <1>6, <1>10
  <2>2. QED
    BY <1>1, <2>1
<1>11. ASSUME way[1] = "end"
       PROVE  way2 = <<>> /\ Ended(sent)
  <2>1. way2 = <<>>
    BY <1>1, <1>2, <1>10, <1>11, EmptySeq
  <2>2. sent[e] = "end"
    BY <1>6, <1>10, <1>11
  <2>3. sent # <<>>
    BY <1>1, <1>10, <1>11, EmptySeq DEF e
  <2>4. QED
    BY <2>1, <2>2, <2>3 DEF Ended, e
<1>12. Follows(had2, way2, sent)
  BY <1>2, <1>3, <1>7, <1>8, <1>9 DEF Follows, e
<1>13. QED
  BY <1>2, <1>3, <1>11, <1>12 DEF had2, way2

\* What one side has is the beginning of what was sent.
LEMMA FollowsIsBeginning ==
    ASSUME NEW had \in Seq(Chunks), NEW way \in Seq(StreamChunks),
           NEW sent \in Seq(StreamChunks), Follows(had, way, sent)
    PROVE  IsBeginning(had, sent)
  BY DEF Follows, IsBeginning

-----------------------------------------------------------------------------
\* Rewriting keeps the conversation and leaves a system message in front only.
LEMMA RewritingKeepsTheConversation ==
    ASSUME NEW ms \in Seq(SentMessages)
    PROVE  LET new == RewriteSystemRoles(ms) IN
           /\ Len(new) = Len(ms) /\ DOMAIN new = DOMAIN ms
           /\ \A i \in DOMAIN new :
                /\ new[i].role = "system" => i = 1
                /\ new[i].content = ms[i].content
                /\ new[i].marked = (new[i].role # ms[i].role /\ new[i].content = "text")
<1> DEFINE new == RewriteSystemRoles(ms)
<1>1. DOMAIN new = 1..Len(ms) /\ Len(ms) \in Nat /\ DOMAIN ms = 1..Len(ms)
  BY DEF RewriteSystemRoles
<1>2. ASSUME NEW i \in DOMAIN ms
      PROVE  /\ new[i].role = "system" => i = 1
             /\ new[i].content = ms[i].content
             /\ new[i].marked = (new[i].role # ms[i].role /\ new[i].content = "text")
  <2>1. ms[i] \in SentMessages
    OBVIOUS
  <2>2. CASE Misplaced(ms, i)
    <3>1. new[i] = [role |-> "user", content |-> ms[i].content,
                    marked |-> ms[i].content = "text"]
      BY <2>1, <2>2 DEF RewriteSystemRoles, Marked, SentMessages
    <3>2. ms[i].role = "system"
      BY <2>2 DEF Misplaced
    <3>3. QED
      BY <3>1, <3>2
  <2>3. CASE ~Misplaced(ms, i)
    <3>1. new[i] = ms[i]
      BY <2>3 DEF RewriteSystemRoles
    <3>2. ms[i].marked = FALSE
      BY <2>1 DEF SentMessages
    <3>3. QED
      BY <2>3, <3>1, <3>2 DEF Misplaced
  <2>4. QED
    BY <2>2, <2>3
<1>3. new \in Seq({new[i] : i \in DOMAIN new})
  <2>1. new \in [1..Len(ms) -> {new[i] : i \in DOMAIN new}]
    BY <1>1 DEF RewriteSystemRoles
  <2>2. QED
    BY <1>1, <2>1
<1>4. Len(new) = Len(ms)
  BY <1>1, <1>3
<1>5. QED
  BY <1>1, <1>2, <1>4

\* What is forwarded of a body.
LEMMA Rewritten ==
    ASSUME NEW c \in Clients, Types(c)
    PROVE  /\ body[c].messages \in Seq(SentMessages)
           /\ [body[c] EXCEPT !.messages = RewriteSystemRoles(@)].messages
                = RewriteSystemRoles(body[c].messages)
<1>1. NoBody \in [shape : Shapes, messages : Seq(SentMessages)]
  BY EmptySeq DEF NoBody, Shapes
<1>2. body[c] \in [shape : Shapes, messages : Seq(SentMessages)]
  BY <1>1, ProxyAssumption DEF Types
<1>3. QED
  BY <1>2

-----------------------------------------------------------------------------
(* A connection moves by itself. *)

Same(c) ==
    /\ client'[c] = client[c] /\ unread'[c] = unread[c] /\ body'[c] = body[c]
    /\ thread'[c] = thread[c] /\ forwarded'[c] = forwarded[c]
    /\ wire'[c] = wire[c] /\ open'[c] = open[c] /\ emitted'[c] = emitted[c]
    /\ got'[c] = got[c]

\* A connection that does not move keeps its state.
LEMMA ConnectionStays ==
    ASSUME NEW c \in Clients, Connection(c), Same(c)
    PROVE  Connection(c)'
  BY DEF Connection, Same, Types, Stands, Beginning, Relayed, Ended, Forwards, Messages

StepOf(c) ==
    \/ \E b \in Bodies : Ask(c, b)
    \/ Leave(c) \/ ThreadStep(c) \/ StreamStep(c)

\* A step moves one connection.
LEMMA OneConnection ==
    ASSUME Families, NEW c \in Clients, StepOf(c)
    PROVE  Families' /\ \A d \in Clients : d # c => Same(d)
<1> USE DEF Families, Same, Becomes, Thread, Hangup, Completes, Consumed, upstreamVars
<1>1. ASSUME NEW b \in Bodies, Ask(c, b)
      PROVE  Families' /\ \A d \in Clients : d # c => Same(d)
  BY <1>1 DEF Ask
<1>2. CASE Leave(c)
  BY <1>2 DEF Leave
<1>3. CASE Rewrite(c)
  BY <1>3 DEF Rewrite
<1>4. CASE UpstreamError(c) \/ WholeReply(c) \/ PartReply(c) \/ ReplyCutShort(c) \/ StreamStarts(c)
  BY <1>4 DEF UpstreamError, WholeReply, PartReply, Replies, ReplyCutShort, StreamStarts
<1>5. CASE Relay(c)
  BY <1>5 DEF Relay
<1>6. CASE RelayEnds(c) \/ RelayTimesOut(c)
  BY <1>6 DEF RelayEnds, AtEof, RelayTimesOut
<1>7. CASE UpstreamEmits(c) \/ UpstreamCloses(c)
  BY <1>7 DEF UpstreamEmits, UpstreamCloses
<1>8. QED
  BY <1>1, <1>2, <1>3, <1>4, <1>5, <1>6, <1>7 DEF StepOf, ThreadStep, StreamStep

-----------------------------------------------------------------------------
(* The steps of one connection. *)

\* A request is sent, or its client leaves.
LEMMA ClientStep ==
    ASSUME ProxyInv, NEW c \in Clients,
           (\E b \in Bodies : Ask(c, b)) \/ Leave(c)
    PROVE  Connection(c)'
<1>0. Families /\ Connection(c)
  BY DEF ProxyInv
<1>1. ASSUME NEW b \in Bodies, Ask(c, b)
      PROVE  Connection(c)'
  <2>1. /\ client[c] = "idle" /\ client'[c] = "waiting" /\ unread'[c] = TRUE
        /\ got'[c] = <<>> /\ body'[c] = b
        /\ thread'[c] = IF thread[c] = "closed" THEN "idle" ELSE thread[c]
        /\ wire'[c] = wire[c] /\ open'[c] = open[c] /\ emitted'[c] = emitted[c]
    BY <1>0, <1>1 DEF Ask, Families, Becomes, upstreamVars
  <2>2. <<>> \in Seq(Chunks) /\ ~Ended(<<>>)
    BY EmptySeq DEF Ended
  <2>3. Types(c)'
    BY <1>0, <2>1, <2>2 DEF Connection, Types
  <2>4. Stands(c)'
    BY <1>0, <2>1, <2>2 DEF Connection, Stands
  <2>5. QED
    BY <2>1, <2>3, <2>4 DEF Connection, Forwards
<1>2. CASE Leave(c)
  <2>1. /\ client[c] = "waiting" /\ client'[c] = "gone"
        /\ UNCHANGED <<unread, body, thread, forwarded, wire, open, emitted, got>>
    BY <1>0, <1>2 DEF Leave, Families, Becomes, upstreamVars
  <2>2. Types(c)' /\ Stands(c)' /\ Forwards(c)'
    BY <1>0, <2>1 DEF Connection, Types, Stands, Relayed, Beginning, Forwards, Messages
  <2>3. QED
    BY <2>2 DEF Connection
<1>3. QED
  BY <1>1, <1>2

\* The request is rewritten, or the reply begins or fails.
LEMMA RequestStep ==
    ASSUME ProxyInv, NEW c \in Clients,
           \/ Rewrite(c) \/ UpstreamError(c) \/ WholeReply(c) \/ PartReply(c)
           \/ ReplyCutShort(c) \/ StreamStarts(c)
    PROVE  Connection(c)'
<1>0. Families /\ Connection(c)
  BY DEF ProxyInv
<1>1. CASE Rewrite(c)
  <2>1. /\ thread[c] = "idle" /\ unread[c] /\ unread'[c] = FALSE
        /\ UNCHANGED <<body, wire, open, emitted, got>>
    BY <1>0, <1>1 DEF Rewrite, Families, Consumed, upstreamVars
  <2>2. \/ thread'[c] = "closed"
        \/ /\ thread'[c] = "forward" /\ client' = client
           /\ forwarded'[c] = [body[c] EXCEPT !.messages = RewriteSystemRoles(@)]
    BY <1>0, <1>1 DEF Rewrite, Families, Thread, Hangup
  <2>3. thread'[c] = "forward" =>
            forwarded'[c].messages = RewriteSystemRoles(body[c].messages)
    BY <1>0, <2>2, Rewritten DEF Connection
  <2>4. Types(c)' /\ Forwards(c)'
    BY <1>0, <2>1, <2>2, <2>3 DEF Connection, Types, Forwards, Messages
  <2>5. Stands(c)'
    BY <1>0, <2>1, <2>2 DEF Connection, Types, Stands, Beginning
  <2>6. QED
    BY <2>4, <2>5 DEF Connection
<1>2. CASE UpstreamError(c) \/ WholeReply(c) \/ PartReply(c)
  <2>1. /\ thread[c] = "forward" /\ thread'[c] \in {"idle", "closed"}
        /\ got'[c] \in {<<"502">>, <<"whole">>, <<"part">>}
        /\ UNCHANGED <<unread, body, wire, open, emitted>>
    BY <1>0, <1>2
    DEF UpstreamError, WholeReply, PartReply, Replies, Families, Thread, Completes, upstreamVars
  <2>2. ASSUME NEW x \in {"502", "whole", "part"}
        PROVE  <<x>> \in Seq(Chunks) /\ ~Ended(<<x>>)
    <3>1. <<x>> \in Seq(Chunks) /\ Len(<<x>>) = 1 /\ <<x>>[1] = x
      BY <2>2 DEF Chunks
    <3>2. QED
      BY <2>2, <3>1 DEF Ended
  <2>3. got'[c] \in Seq(Chunks) /\ ~Ended(got'[c])
    BY <2>1, <2>2
  <2>4. Types(c)' /\ Forwards(c)'
    BY <1>0, <2>1, <2>3 DEF Connection, Types, Forwards
  <2>5. Stands(c)'
    BY <1>0, <2>1, <2>3 DEF Connection, Stands
  <2>6. QED
    BY <2>4, <2>5 DEF Connection
<1>3. CASE ReplyCutShort(c)
  <2>1. /\ thread[c] = "forward" /\ thread'[c] = "closed"
        /\ UNCHANGED <<unread, body, wire, open, emitted, got>>
    BY <1>0, <1>3 DEF ReplyCutShort, Families, Thread, Hangup, upstreamVars
  <2>2. Types(c)' /\ Stands(c)' /\ Forwards(c)'
    BY <1>0, <2>1 DEF Connection, Types, Stands, Beginning, Forwards
  <2>3. QED
    BY <2>2 DEF Connection
<1>4. CASE StreamStarts(c)
  <2>1. /\ thread[c] = "forward" /\ thread'[c] = "stream"
        /\ wire'[c] = <<>> /\ emitted'[c] = <<>> /\ open'[c] = TRUE
        /\ UNCHANGED <<client, unread, body, forwarded, got>>
    BY <1>0, <1>4 DEF StreamStarts, Families, Thread
  <2>2. got[c] = <<>> /\ ~unread[c] /\ client[c] # "idle"
    BY <1>0, <2>1 DEF Connection, Stands
  <2>3. <<>> \in Seq(StreamChunks) /\ Len(<<>>) = 0 /\ ~Ended(<<>>) /\ EndsOnce(<<>>)
    BY EmptySeq DEF Ended, EndsOnce
  <2>4. Types(c)' /\ Forwards(c)'
    BY <1>0, <2>1, <2>3 DEF Connection, Types, Forwards, Messages
  <2>5. Relayed(c)'
    BY <2>1, <2>2, <2>3 DEF Relayed, Follows
  <2>6. Stands(c)'
    BY <2>1, <2>2, <2>3, <2>5 DEF Stands
  <2>7. QED
    BY <2>4, <2>6 DEF Connection
<1>5. QED
  BY <1>1, <1>2, <1>3, <1>4

\* A chunk is sent, relayed, or the stream ends.
LEMMA StreamingStep ==
    ASSUME ProxyInv, NEW c \in Clients,
           Relay(c) \/ RelayEnds(c) \/ StreamStep(c)
    PROVE  Connection(c)'
<1>0. Families /\ Types(c) /\ Stands(c) /\ Forwards(c)
  BY DEF ProxyInv, Connection
<1>1. CASE UpstreamEmits(c)
  <2>1. PICK chunk \in StreamChunks :
           /\ open[c] /\ ~Ended(emitted[c])
           /\ emitted'[c] = Append(emitted[c], chunk)
           /\ wire'[c] = Append(wire[c], chunk)
           /\ UNCHANGED <<client, unread, body, thread, forwarded, open, got>>
    BY <1>0, <1>1 DEF UpstreamEmits, Families, StreamChunks
  <2>2. thread[c] = "stream" /\ ~unread[c] /\ client[c] # "idle" /\ Relayed(c)
    BY <1>0, <2>1 DEF Stands
  <2>3. /\ wire'[c] \in Seq(StreamChunks) /\ emitted'[c] \in Seq(StreamChunks)
        /\ Relayed(c)' /\ EndsOnce(emitted'[c])
    BY <1>0, <2>1, <2>2, SentIsOnTheWay DEF Types, Stands, Relayed
  <2>4. Types(c)' /\ Forwards(c)'
    BY <1>0, <2>1, <2>3 DEF Types, Forwards, Messages
  <2>5. Beginning(c)'
    BY <2>3, <2>4, FollowsIsBeginning DEF Types, Relayed, Beginning
  <2>6. Stands(c)'
    BY <1>0, <2>1, <2>2, <2>3, <2>5 DEF Stands
  <2>7. QED
    BY <2>4, <2>6 DEF Connection
<1>2. CASE UpstreamCloses(c)
  <2>1. /\ open'[c] = FALSE
        /\ UNCHANGED <<client, unread, body, thread, forwarded, wire, emitted, got>>
    BY <1>0, <1>2 DEF UpstreamCloses, Families
  <2>2. Types(c)' /\ Stands(c)' /\ Forwards(c)'
    BY <1>0, <2>1 DEF Types, Stands, Beginning, Relayed, Forwards, Messages
  <2>3. QED
    BY <2>2 DEF Connection
<1>3. CASE RelayEnds(c)
  <2>1. /\ thread[c] = "stream" /\ thread'[c] = "idle" /\ ~open[c]
        /\ UNCHANGED <<client, unread, body, forwarded, wire, open, emitted, got>>
    BY <1>0, <1>3 DEF RelayEnds, AtEof, Families, Thread, upstreamVars
  <2>2. Types(c)' /\ Stands(c)' /\ Forwards(c)'
    BY <1>0, <2>1 DEF Types, Stands, Beginning, Forwards
  <2>3. QED
    BY <2>2 DEF Connection
<1>4. CASE RelayTimesOut(c)
  <2>1. /\ thread'[c] = "closed" /\ open'[c] = FALSE /\ unread'[c] = FALSE
        /\ UNCHANGED <<body, forwarded, wire, emitted, got>>
    BY <1>0, <1>4 DEF RelayTimesOut, Families, Thread, Hangup
  <2>2. Types(c)' /\ Stands(c)' /\ Forwards(c)'
    BY <1>0, <2>1 DEF Types, Stands, Beginning, Forwards
  <2>3. QED
    BY <2>2 DEF Connection
<1>5. CASE Relay(c)
  <2>1. /\ thread[c] = "stream" /\ wire[c] # <<>>
        /\ wire'[c] = Tail(wire[c])
        /\ UNCHANGED <<unread, body, forwarded, emitted>>
    BY <1>0, <1>5 DEF Relay, Families
  <2>2. ~unread[c] /\ client[c] # "idle" /\ Relayed(c)
    BY <1>0, <2>1 DEF Stands
  <2>3. /\ Head(wire[c]) \in StreamChunks
        /\ wire'[c] \in Seq(StreamChunks)
        /\ Append(got[c], Head(wire[c])) \in Seq(Chunks)
        /\ Follows(Append(got[c], Head(wire[c])), wire'[c], emitted[c])
        /\ Head(wire[c]) = "end" => wire'[c] = <<>> /\ Ended(emitted[c])
    BY <1>0, <2>1, <2>2, GotFromTheWay DEF Types, Stands, Relayed
  <2>6. CASE client[c] = "gone"
    <3>1. thread'[c] = "closed" /\ open'[c] = FALSE /\ got' = got /\ client' = client
      BY <1>0, <1>5, <2>6 DEF Relay, Families, Thread
    <3>2. Types(c)' /\ Stands(c)' /\ Forwards(c)'
      BY <1>0, <2>1, <2>3, <3>1 DEF Types, Stands, Beginning, Forwards
    <3>3. QED
      BY <3>2 DEF Connection
  <2>7. CASE client[c] # "gone"
    <3>1. /\ thread' = thread /\ open' = open
          /\ got'[c] = Append(got[c], Head(wire[c]))
          /\ client'[c] = "idle" => Head(wire[c]) = "end"
      <4>1. CASE Head(wire[c]) = "end"
        BY <1>0, <1>5, <2>7, <4>1 DEF Relay, Families, Completes
      <4>2. CASE Head(wire[c]) = "data"
        BY <1>0, <1>5, <2>2, <2>7, <4>2 DEF Relay, Families
      <4>3. QED
        BY <2>3, <4>1, <4>2 DEF StreamChunks
    <3>2. Types(c)' /\ Forwards(c)'
      BY <1>0, <2>1, <2>3, <3>1 DEF Types, Forwards, Messages
    <3>3. Relayed(c)'
      BY <2>1, <2>3, <3>1 DEF Relayed
    <3>4. Beginning(c)'
      BY <3>2, <3>3, FollowsIsBeginning DEF Types, Relayed, Beginning
    <3>5. Stands(c)'
      BY <1>0, <2>1, <2>2, <2>3, <3>1, <3>3, <3>4 DEF Stands
    <3>6. QED
      BY <3>2, <3>5 DEF Connection
  <2>8. QED
    BY <2>6, <2>7
<1>6. QED
  BY <1>1, <1>2, <1>3, <1>4, <1>5 DEF StreamStep

-----------------------------------------------------------------------------
(* The invariant of the proxy. *)

\* Nothing has been asked.
LEMMA ProxyStarts == Init => ProxyInv
<1> SUFFICES ASSUME Init PROVE ProxyInv
  OBVIOUS
<1>1. Families
  BY DEF Init, Families
<1>2. ASSUME NEW c \in Clients
      PROVE  Connection(c)
  <2>1. /\ <<>> \in Seq(StreamChunks) /\ <<>> \in Seq(Chunks)
        /\ Len(<<>>) = 0 /\ ~Ended(<<>>) /\ EndsOnce(<<>>)
    BY EmptySeq DEF Ended, EndsOnce
  <2>2. /\ client[c] = "idle" /\ unread[c] = FALSE /\ body[c] = NoBody
        /\ thread[c] = "idle" /\ wire[c] = <<>> /\ open[c] = FALSE
        /\ emitted[c] = <<>> /\ got[c] = <<>>
    BY DEF Init
  <2>3. Types(c) /\ Stands(c) /\ Forwards(c)
    BY <2>1, <2>2 DEF Types, Stands, Forwards
  <2>4. QED
    BY <2>3 DEF Connection
<1>3. QED
  BY <1>1, <1>2 DEF ProxyInv

\* No step breaks the invariant.
LEMMA ProxyKeeps == ProxyInv /\ [Next]_vars => ProxyInv'
<1> SUFFICES ASSUME ProxyInv, [Next]_vars
             PROVE  ProxyInv'
  OBVIOUS
<1>1. ASSUME NEW c \in Clients, StepOf(c)
      PROVE  ProxyInv'
  <2>1. Families' /\ \A d \in Clients : d # c => Same(d)
    BY <1>1, OneConnection DEF ProxyInv
  <2>2. Connection(c)'
    BY <1>1, ClientStep, RequestStep, StreamingStep DEF StepOf, ThreadStep
  <2>3. \A d \in Clients : d # c => Connection(d)'
    BY <2>1, ConnectionStays DEF ProxyInv
  <2>4. QED
    BY <2>1, <2>2, <2>3 DEF ProxyInv
<1>2. CASE UNCHANGED vars
  <2>1. Families'
    BY <1>2 DEF ProxyInv, Families, vars
  <2>2. \A c \in Clients : Same(c)
    BY <1>2 DEF Same, vars
  <2>3. QED
    BY <2>1, <2>2, ConnectionStays DEF ProxyInv
<1>3. QED
  BY <1>1, <1>2 DEF Next, StepOf

\* The invariant the theorems below follow from.
THEOREM ProxyInvariant == Spec => []ProxyInv
  BY ProxyStarts, ProxyKeeps, PTL DEF Spec

\* No request the proxy forwards has a system message behind another one, and
\* none loses, moves or changes a message beyond the role and the mark.
THEOREM OnlyAcceptedRequests == Spec => []AcceptedUpstream
<1>1. ProxyInv => AcceptedUpstream
  <2> SUFFICES ASSUME ProxyInv, NEW c \in Clients,
                      thread[c] \in {"forward", "stream"}, ~unread[c]
               PROVE  /\ Len(Messages(c)) = Len(body[c].messages)
                      /\ \A i \in DOMAIN Messages(c) :
                          /\ Messages(c)[i].role = "system" => i = 1
                          /\ Messages(c)[i].content = body[c].messages[i].content
                          /\ Messages(c)[i].marked =
                                (Messages(c)[i].role # body[c].messages[i].role
                                 /\ Messages(c)[i].content = "text")
    BY DEF AcceptedUpstream
  <2>1. Messages(c) = RewriteSystemRoles(body[c].messages)
    BY DEF ProxyInv, Connection, Forwards
  <2>2. body[c].messages \in Seq(SentMessages)
    BY Rewritten DEF ProxyInv, Connection
  <2>3. QED
    BY <2>1, <2>2, RewritingKeepsTheConversation
<1>2. QED
  BY <1>1, ProxyInvariant, PTL

\* A client never has anything of a stream but its beginning, and never takes
\* what broke off for a whole reply.
THEOREM OnlyWholeStreams == Spec => []TruncationIsNotAnAnswer
<1>1. ProxyInv => TruncationIsNotAnAnswer
  <2> SUFFICES ASSUME ProxyInv, NEW c \in Clients,
                      thread[c] = "stream" \/ Ended(got[c])
               PROVE  /\ Len(got[c]) <= Len(emitted[c])
                      /\ got[c] = SubSeq(emitted[c], 1, Len(got[c]))
    BY DEF TruncationIsNotAnAnswer
  <2>1. Types(c) /\ Stands(c)
    BY DEF ProxyInv, Connection
  <2>2. Len(<<>>) = 0
    OBVIOUS
  <2>3. Beginning(c)
    <3>1. CASE Ended(got[c])
      BY <2>1, <3>1 DEF Stands
    <3>2. CASE thread[c] = "stream" /\ unread[c]
      BY <2>1, <2>2, <3>2 DEF Types, Stands, Beginning, IsBeginning
    <3>3. CASE thread[c] = "stream" /\ ~unread[c]
      BY <2>1, <3>3, FollowsIsBeginning DEF Types, Stands, Relayed, Beginning
    <3>4. QED
      BY <3>1, <3>2, <3>3
  <2>4. /\ Len(got[c]) \in Nat /\ Len(emitted[c]) \in Nat
        /\ Len(got[c]) <= Len(emitted[c])
        /\ \A i \in 1..Len(got[c]) : got[c][i] = emitted[c][i]
    BY <2>1, <2>3 DEF Types, Beginning, IsBeginning
  <2>5. got[c] = [i \in 1..Len(got[c]) |-> got[c][i]]
    BY <2>1 DEF Types
  <2>6. SubSeq(emitted[c], 1, Len(got[c])) = [i \in 1..Len(got[c]) |-> emitted[c][i]]
    BY <2>1, <2>4 DEF Types
  <2>7. QED
    BY <2>4, <2>5, <2>6
<1>2. QED
  BY <1>1, ProxyInvariant, PTL
=============================================================================
