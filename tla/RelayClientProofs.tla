--------------------------- MODULE RelayClientProofs ---------------------------
(***************************************************************************)
(* Theorems about RelayClient, for any number of events, calls, dropped    *)
(* calls and frames sent unasked: what a call reports as served or as      *)
(* accepted is, whatever stale frames lie in the stream.                   *)
(***************************************************************************)
EXTENDS RelayClient, TLAPS

-----------------------------------------------------------------------------
(* Lemmas about queues *)

\* What is taken from a queue is one of its elements, and the rest still is a
\* queue of them.
LEMMA Taken ==
  ASSUME NEW S, NEW q \in Seq(S), q # <<>>
  PROVE  Head(q) \in S /\ Tail(q) \in Seq(S)
  OBVIOUS

\* What is put into a queue.
LEMMA Put ==
  ASSUME NEW S, NEW q \in Seq(S), NEW f \in S
  PROVE  Append(q, f) \in Seq(S)
  OBVIOUS

\* What is put into a queue, as a sequence of frames.
LEMMA PutAll ==
  ASSUME NEW S, NEW q \in Seq(S), NEW fs \in Seq(S)
  PROVE  q \o fs \in Seq(S)
  OBVIOUS

\* A queue of the elements of a set is one of the elements of a larger set.
LEMMA Wider ==
  ASSUME NEW S, NEW T, S \subseteq T, NEW q \in Seq(S)
  PROVE  q \in Seq(T)
  OBVIOUS

-----------------------------------------------------------------------------
(* Types *)

\* What a call in progress looks like.
LEMMA CallFields ==
  ASSUME call \in {Idle} \cup Call, call # Idle
  PROVE  /\ call.op \in Op
         /\ call.event \in Event \cup {AuthId}
         /\ call.found \in BOOLEAN
         /\ call.wait \in {"ok", "stored"} =>
              /\ call.event \in Event
              /\ call.op \in {"publish", "publish_verified", "has_event"}
              /\ call.wait = "ok" => call.op \in {"publish", "publish_verified"}
              /\ call.wait = "stored" => call.op \in {"publish_verified", "has_event"}
         /\ call.wait \in {"challenge", "auth_ok"} =>
              call.event = AuthId /\ call.op = "authenticate"
  BY DEF Call, Calling, Op, Idle

\* A call that ends leaves no call and a well-formed outcome.
LEMMA FinishType ==
  ASSUME call \in {Idle} \cup Call, call # Idle, abandoned \in BOOLEAN,
         NEW r \in Result, NEW b \in BOOLEAN, Finish(r, b)
  PROVE  /\ call' = Idle /\ abandoned' \in BOOLEAN /\ last' \in Outcome
         /\ last'.op = call.op /\ last'.event = call.event /\ last'.result = r
  <1>1. call.op \in Op /\ call.event \in Event \cup {AuthId}
    BY CallFields
  <1> QED
    BY <1>1 DEF Finish, Outcome

\* A call that goes on is a well-formed call, where it may go on to w.
LEMMA ContinueType ==
  ASSUME call \in {Idle} \cup Call, call # Idle, last \in Outcome,
         abandoned \in BOOLEAN, NEW w, NEW f \in BOOLEAN, Continue(w, f),
         \/ w = "stored" /\ call.wait \in {"ok", "stored"}
                         /\ call.op # "publish"
         \/ w = "auth_ok" /\ call.wait = "challenge"
  PROVE  /\ call' \in Call /\ call' # Idle
         /\ call'.op = call.op /\ call'.event = call.event /\ call'.found = f
         /\ last' = last /\ abandoned' \in BOOLEAN
  <1>1. call.op \in Op
    BY CallFields
  <1> QED
    BY <1>1, CallFields DEF Continue, Call, Calling, Idle, Op

\* Reading takes one frame and leaves the relay as it is.
LEMMA ReadsType ==
  ASSUME TypeOK, NEW w, NEW types, Reads(w, types)
  PROVE  /\ call # Idle /\ call.wait = w
         /\ Head(down) \in RelayFrame /\ Head(down).type \in types
         /\ down' \in Seq(RelayFrame)
         /\ open' \in BOOLEAN /\ admitted' \in BOOLEAN /\ subscribed' \in BOOLEAN
         /\ stored' \subseteq Event /\ accepted' \subseteq Event
         /\ noise' \in 0..MaxNoise /\ calls' \in 0..MaxCalls /\ drops' \in 0..MaxDrops
  <1>1. Head(down) \in RelayFrame /\ Tail(down) \in Seq(RelayFrame)
    BY Taken DEF TypeOK, Reads
  <1> QED
    BY <1>1 DEF TypeOK, Reads, relayVars

\* Sending the next frame of a call, or finding the connection closed.
LEMMA SendType ==
  ASSUME TypeOK, call # Idle, NEW type, NEW w, SendThenWait(type, w),
         \/ /\ type = "REQ" /\ w = "stored" /\ call.wait = "ok"
            /\ call.op # "publish"
         \/ type = "AUTH" /\ w = "auth_ok" /\ call.wait = "challenge"
  PROVE  /\ up' \in Seq(ClientFrame) /\ call' \in {Idle} \cup Call
         /\ last' \in Outcome /\ abandoned' \in BOOLEAN
         /\ call' # Idle => call'.found = FALSE
         /\ last' = last \/ last'.result = "transport"
  <1>1. CASE open
    <2>1. [type |-> type, id |-> call.event] \in ClientFrame
      BY CallFields DEF TypeOK, ClientFrame
    <2>2. up' \in Seq(ClientFrame)
      BY <1>1, <2>1, Put DEF SendThenWait, TypeOK
    <2>3. Continue(w, FALSE)
      BY <1>1 DEF SendThenWait
    <2> QED
      BY <2>2, <2>3, ContinueType DEF TypeOK
  <1>2. CASE ~open
    <2>1. Finish("transport", TRUE) /\ up' = up
      BY <1>2 DEF SendThenWait
    <2>2. "transport" \in Result
      BY DEF Result
    <2> QED
      BY <2>1, <2>2, FinishType DEF TypeOK
  <1> QED
    BY <1>1, <1>2 DEF TypeOK

\* What the relay puts into the stream are frames, and it leaves the client.
LEMMA ReplyType ==
  ASSUME TypeOK, up # <<>>, NEW fs \in Seq(RelayFrame), Reply(fs)
  PROVE  /\ up' \in Seq(ClientFrame) /\ down' \in Seq(RelayFrame)
         /\ open' \in BOOLEAN /\ noise' \in 0..MaxNoise
         /\ authenticated' \in BOOLEAN /\ abandoned' \in BOOLEAN
         /\ call' \in {Idle} \cup Call /\ last' \in Outcome
         /\ calls' \in 0..MaxCalls /\ drops' \in 0..MaxDrops
  <1>1. Tail(up) \in Seq(ClientFrame)
    BY Taken DEF TypeOK
  <1>2. down \o fs \in Seq(RelayFrame)
    BY PutAll DEF TypeOK
  <1> QED
    BY <1>1, <1>2 DEF Reply, TypeOK

\* Whatever the relay answers, the types hold.
LEMMA AnswersType ==
  ASSUME TypeOK, RelayAnswers
  PROVE  TypeOK'
  <1>0. up # <<>> => Head(up) \in ClientFrame
    BY Taken DEF TypeOK
  <1>1. CASE RelayAuth
    <2>1. PICK flag \in Flag : Reply(<<OK(AuthId, flag)>>)
      BY <1>1 DEF RelayAuth
    <2>2. <<OK(AuthId, flag)>> \in Seq(RelayFrame)
      BY DEF RelayFrame, OK
    <2> QED
      BY <1>1, <2>1, <2>2, ReplyType DEF RelayAuth, Received, TypeOK
  <1>2. CASE RelayEvent
    <2>1. Head(up).id \in Event
      BY <1>0, <1>2 DEF RelayEvent, Received, ClientFrame
    <2>2. PICK flag \in Flag : Reply(<<OK(Head(up).id, flag)>>)
      BY <1>2 DEF RelayEvent
    <2>3. <<OK(Head(up).id, flag)>> \in Seq(RelayFrame)
      BY <2>1 DEF RelayFrame, OK
    <2>4. stored' \subseteq Event /\ accepted' \subseteq Event
      BY <1>2, <2>1 DEF RelayEvent, TypeOK
    <2> QED
      BY <1>2, <2>2, <2>3, <2>4, ReplyType DEF RelayEvent, Received, TypeOK
  <1>3. CASE RelayReq
    <2>1. Head(up).id \in Event
      BY <1>0, <1>3 DEF RelayReq, Received, ClientFrame
    <2>2. <<Control("CLOSED")>> \in Seq(RelayFrame)
      BY DEF RelayFrame
    <2>3. <<Served(Head(up).id), Control("EOSE")>> \in Seq(RelayFrame)
      BY <2>1 DEF RelayFrame
    <2>4. <<Control("EOSE")>> \in Seq(RelayFrame)
      BY DEF RelayFrame
    <2>5. PICK fs \in Seq(RelayFrame) : Reply(fs)
      BY <1>3, <2>2, <2>3, <2>4 DEF RelayReq
    <2> QED
      BY <1>3, <2>5, ReplyType DEF RelayReq, Received, TypeOK
  <1>4. CASE RelayClose
    <2>1. <<>> \in Seq(RelayFrame)
      OBVIOUS
    <2> QED
      BY <1>4, <2>1, ReplyType DEF RelayClose, Received, TypeOK
  <1> QED
    BY <1>1, <1>2, <1>3, <1>4 DEF RelayAnswers

\* A call begins well-formed, and what it sends is a frame.
LEMMA BeginType ==
  ASSUME TypeOK, NEW op \in Op, NEW e \in Event \cup {AuthId}, NEW w \in Wait,
         [op |-> op, event |-> e, wait |-> w, found |-> FALSE] \in Call,
         w \in {"ok", "stored"} => e \in Event,
         Begin(op, e, w)
  PROVE  TypeOK'
  <1> DEFINE sent == CASE w = "ok" -> <<[type |-> "EVENT", id |-> e]>>
                       [] w = "stored" -> <<[type |-> "REQ", id |-> e]>>
                       [] OTHER -> <<>>
  <1>1. sent \in Seq(ClientFrame)
    <2>1. CASE w = "ok"
      <3>1. [type |-> "EVENT", id |-> e] \in ClientFrame
        BY <2>1 DEF ClientFrame
      <3> QED
        BY <2>1, <3>1
    <2>2. CASE w = "stored"
      <3>1. [type |-> "REQ", id |-> e] \in ClientFrame
        BY <2>2 DEF ClientFrame
      <3> QED
        BY <2>2, <3>1
    <2>3. CASE w \notin {"ok", "stored"}
      <3>1. sent = <<>>
        BY <2>3
      <3> QED
        BY <3>1
    <2> QED
      BY <2>1, <2>2, <2>3
  <1>2. up \o sent \in Seq(ClientFrame)
    <2> HIDE DEF sent
    <2> QED
      BY <1>1, PutAll DEF TypeOK
  <1>3. up' \in Seq(ClientFrame)
    BY <1>2 DEF Begin, TypeOK
  <1>4. call' \in {Idle} \cup Call
    BY DEF Begin
  <1>5. last' \in Outcome
    BY DEF Begin, Outcome, Result
  <1>6. calls' \in 0..MaxCalls
    BY RelayAssumption DEF Begin, TypeOK
  <1> QED
    BY <1>3, <1>4, <1>5, <1>6 DEF Begin, TypeOK, relayVars

\* TypeOK holds in every reachable state.
THEOREM TypeCorrect == Spec => []TypeOK
  <1>1. Init => TypeOK
    <2> SUFFICES ASSUME Init PROVE TypeOK
      OBVIOUS
    <2>1. Control("AUTH") \in RelayFrame
      BY DEF RelayFrame
    <2>2. down \in Seq(RelayFrame) /\ up \in Seq(ClientFrame)
      <3>1. <<Control("AUTH")>> \in Seq(RelayFrame)
        BY <2>1
      <3>2. <<>> \in Seq(RelayFrame) /\ <<>> \in Seq(ClientFrame)
        OBVIOUS
      <3> QED
        BY <3>1, <3>2 DEF Init
    <2>3. last \in Outcome
      BY DEF Init, Outcome, Result
    <2>4. noise \in 0..MaxNoise /\ calls \in 0..MaxCalls /\ drops \in 0..MaxDrops
      BY RelayAssumption DEF Init
    <2>5. /\ open \in BOOLEAN /\ admitted \in BOOLEAN /\ subscribed \in BOOLEAN
          /\ authenticated \in BOOLEAN /\ abandoned \in BOOLEAN
      BY DEF Init
    <2>6. /\ stored \subseteq Event /\ accepted \subseteq Event
          /\ call \in {Idle} \cup Call
      BY DEF Init
    <2> QED
      BY <2>2, <2>3, <2>4, <2>5, <2>6 DEF TypeOK
  <1>2. TypeOK /\ [Next]_vars => TypeOK'
    <2> SUFFICES ASSUME TypeOK, [Next]_vars PROVE TypeOK'
      OBVIOUS
    <2> USE RelayAssumption
    <2>1. CASE Authenticate
      <3>1. [op |-> "authenticate", event |-> AuthId, wait |-> "challenge",
             found |-> FALSE] \in Call
        BY DEF Call, Calling
      <3> QED
        BY <2>1, <3>1, BeginType DEF Authenticate, Op, Wait
    <2>2. ASSUME NEW e \in Event, Publish(e) PROVE TypeOK'
      <3>1. [op |-> "publish", event |-> e, wait |-> "ok", found |-> FALSE] \in Call
        BY DEF Call, Calling
      <3> QED
        BY <2>2, <3>1, BeginType DEF Publish, Op, Wait
    <2>3. ASSUME NEW e \in Event, PublishVerified(e) PROVE TypeOK'
      <3>1. [op |-> "publish_verified", event |-> e, wait |-> "ok",
             found |-> FALSE] \in Call
        BY DEF Call, Calling
      <3> QED
        BY <2>3, <3>1, BeginType DEF PublishVerified, Op, Wait
    <2>4. ASSUME NEW e \in Event, HasEvent(e) PROVE TypeOK'
      <3>1. [op |-> "has_event", event |-> e, wait |-> "stored",
             found |-> FALSE] \in Call
        BY DEF Call, Calling
      <3> QED
        BY <2>4, <3>1, BeginType DEF HasEvent, Op, Wait
    <2>5. CASE ReadChallenge
      <3>1. Reads("challenge", {"AUTH"}) /\ SendThenWait("AUTH", "auth_ok")
            /\ UNCHANGED authenticated
        BY <2>5 DEF ReadChallenge
      <3> QED
        BY <3>1, ReadsType, SendType DEF TypeOK
    <2>6. CASE ReadAuthOk
      <3>1. Reads("auth_ok", {"OK"})
        BY <2>6 DEF ReadAuthOk
      <3>2. PICK r \in {"ok", "auth_failed"} : Finish(r, TRUE)
        BY <2>6 DEF ReadAuthOk
      <3>3. authenticated' \in BOOLEAN /\ up' = up
        BY <2>6 DEF ReadAuthOk, TypeOK
      <3>4. r \in Result
        BY DEF Result
      <3> QED
        BY <3>1, <3>2, <3>3, <3>4, ReadsType, FinishType DEF TypeOK
    <2>7. CASE ReadUnexpected
      <3>1. Finish("auth_failed", FALSE) /\ UNCHANGED <<up, authenticated>>
        BY <2>7 DEF ReadUnexpected
      <3>2. "auth_failed" \in Result
        BY DEF Result
      <3>3. CASE Reads("challenge", {"OK", "EVENT", "EOSE", "CLOSED"})
        BY <3>1, <3>2, <3>3, ReadsType, FinishType DEF TypeOK
      <3>4. CASE Reads("auth_ok", {"AUTH", "EVENT", "EOSE", "CLOSED"})
        BY <3>1, <3>2, <3>4, ReadsType, FinishType DEF TypeOK
      <3> QED
        BY <2>7, <3>3, <3>4 DEF ReadUnexpected
    <2>8. CASE ReadOk
      <3>1. Reads("ok", {"OK"}) /\ UNCHANGED authenticated
        BY <2>8 DEF ReadOk
      <3>2. CASE Accepted(Head(down)) /\ call.op # "publish"
        <4>1. SendThenWait("REQ", "stored")
          BY <2>8, <3>2 DEF ReadOk
        <4>2. call # Idle /\ call.wait = "ok"
          BY <3>1 DEF Reads
        <4>3. /\ up' \in Seq(ClientFrame) /\ call' \in {Idle} \cup Call
              /\ last' \in Outcome /\ abandoned' \in BOOLEAN
          BY <3>2, <4>1, <4>2, SendType
        <4> QED
          BY <3>1, <4>3, ReadsType DEF TypeOK
      <3>3. CASE ~(Accepted(Head(down)) /\ call.op # "publish")
        <4>1. up' = up /\ \E r \in {"rejected", "ok"} : Finish(r, TRUE)
          BY <2>8, <3>3 DEF ReadOk
        <4>2. {"rejected", "ok"} \subseteq Result
          BY DEF Result
        <4> QED
          BY <3>1, <4>1, <4>2, ReadsType, FinishType DEF TypeOK
      <3> QED
        BY <3>2, <3>3
    <2>9. CASE ReadClosedPublishing
      <3>1. Reads("ok", {"CLOSED"}) /\ Finish("rejected", FALSE)
            /\ UNCHANGED <<up, authenticated>>
        BY <2>9 DEF ReadClosedPublishing
      <3>2. "rejected" \in Result
        BY DEF Result
      <3> QED
        BY <3>1, <3>2, ReadsType, FinishType DEF TypeOK
    <2>10. CASE ReadServed
      <3>1. Reads("stored", {"EVENT"}) /\ UNCHANGED <<up, authenticated>>
        BY <2>10 DEF ReadServed
      <3>2. PICK f \in BOOLEAN : Continue("stored", f)
        BY <2>10, CallFields DEF ReadServed, Reads, TypeOK
      <3>3. call.op # "publish"
        BY <3>1, CallFields DEF Reads, TypeOK
      <3> QED
        BY <3>1, <3>2, <3>3, ReadsType, ContinueType DEF TypeOK
    <2>11. CASE ReadEndOfStored
      <3>1. Reads("stored", {"EOSE"}) /\ UNCHANGED authenticated
        BY <2>11 DEF ReadEndOfStored
      <3>2. PICK r \in {"true", "false", "ok", "not_retrievable"} : Finish(r, TRUE)
        BY <2>11 DEF ReadEndOfStored
      <3>3. r \in Result
        BY DEF Result
      <3>4. [type |-> "CLOSE", id |-> AuthId] \in ClientFrame
        BY DEF ClientFrame
      <3>5. up' \in Seq(ClientFrame)
        BY <2>11, <3>4, Put DEF ReadEndOfStored, TypeOK
      <3> QED
        BY <3>1, <3>2, <3>3, <3>5, ReadsType, FinishType DEF TypeOK
    <2>12. CASE ReadClosedVerifying
      <3>1. Reads("stored", {"CLOSED"}) /\ Finish("transport", FALSE)
            /\ UNCHANGED <<up, authenticated>>
        BY <2>12 DEF ReadClosedVerifying
      <3>2. "transport" \in Result
        BY DEF Result
      <3> QED
        BY <3>1, <3>2, ReadsType, FinishType DEF TypeOK
    <2>13. CASE ReadIgnored
      <3>1. PICK w, types : Reads(w, types)
        BY <2>13 DEF ReadIgnored
      <3>2. UNCHANGED <<up, authenticated, call, last, abandoned>>
        BY <2>13 DEF ReadIgnored
      <3> QED
        BY <3>1, <3>2, ReadsType DEF TypeOK
    <2>14. CASE ReadMalformed
      <3>1. PICK w \in Wait : Reads(w, {"malformed"})
        BY <2>14 DEF ReadMalformed
      <3>2. Finish("malformed", FALSE) /\ UNCHANGED <<up, authenticated>>
        BY <2>14 DEF ReadMalformed
      <3>3. "malformed" \in Result
        BY DEF Result
      <3> QED
        BY <3>1, <3>2, <3>3, ReadsType, FinishType DEF TypeOK
    <2>15. CASE ReadEnd
      <3>1. "transport" \in Result
        BY DEF Result
      <3> QED
        BY <2>15, <3>1, FinishType DEF ReadEnd, TypeOK, relayVars
    <2>16. CASE Drop
      <3>1. "dropped" \in Result
        BY DEF Result
      <3>2. drops' \in 0..MaxDrops
        BY <2>16 DEF Drop, TypeOK
      <3>3. call' = Idle /\ last' \in Outcome /\ abandoned' \in BOOLEAN
        BY <2>16, <3>1, FinishType DEF Drop, TypeOK
      <3> QED
        BY <2>16, <3>2, <3>3 DEF Drop, TypeOK, relayVars
    <2>17. CASE RelayAnswers
      BY <2>17, AnswersType
    <2>18. ASSUME NEW type \in {"NOTICE", "malformed", "AUTH", "CLOSED"},
                  RelaySends(type)
           PROVE  TypeOK'
      <3>1. Control(type) \in RelayFrame
        BY DEF RelayFrame
      <3>2. down' \in Seq(RelayFrame)
        BY <2>18, <3>1, Put DEF RelaySends, TypeOK
      <3>3. noise' \in 0..MaxNoise /\ subscribed' \in BOOLEAN
        BY <2>18 DEF RelaySends, TypeOK
      <3>4. UNCHANGED <<up, open, admitted, stored, accepted,
                        authenticated, call, last, calls, drops, abandoned>>
        BY <2>18 DEF RelaySends
      <3>5. /\ up' \in Seq(ClientFrame)
            /\ open' \in BOOLEAN /\ admitted' \in BOOLEAN
            /\ authenticated' \in BOOLEAN /\ abandoned' \in BOOLEAN
        BY <3>4 DEF TypeOK
      <3>6. /\ stored' \subseteq Event /\ accepted' \subseteq Event
            /\ call' \in {Idle} \cup Call /\ last' \in Outcome
            /\ calls' \in 0..MaxCalls /\ drops' \in 0..MaxDrops
        BY <3>4 DEF TypeOK
      <3> QED
        BY <3>2, <3>3, <3>5, <3>6 DEF TypeOK
    <2>19. CASE RelayHangsUp
      <3>1. up' \in Seq(ClientFrame)
        <4>1. <<>> \in Seq(ClientFrame)
          OBVIOUS
        <4> QED
          BY <2>19, <4>1 DEF RelayHangsUp
      <3>2. open' \in BOOLEAN
        BY <2>19 DEF RelayHangsUp
      <3> QED
        BY <2>19, <3>1, <3>2 DEF RelayHangsUp, TypeOK, relayVars
    <2>20. CASE UNCHANGED vars
      BY <2>20 DEF vars, relayVars, TypeOK
    <2> QED
      BY <2>1, <2>2, <2>3, <2>4, <2>5, <2>6, <2>7, <2>8, <2>9, <2>10, <2>11,
         <2>12, <2>13, <2>14, <2>15, <2>16, <2>17, <2>18, <2>19, <2>20
      DEF Next, ClientReads
  <1> QED
    BY <1>1, <1>2, PTL DEF Spec

-----------------------------------------------------------------------------
(* What the stream proves *)

\* A frame that says what is so: an event that is served, a yes that was given.
BackedBy(served, yes) ==
  {f \in RelayFrame : /\ f.type = "EVENT" => f.id \in served
                      /\ f.type = "OK" /\ Accepted(f) => f.id \in yes \cup {AuthId}}

Backed == BackedBy(stored, accepted)

\* The strengthening: every frame in the stream is backed, and so is what the
\* call has found so far.  Nothing is asked of which call a frame answers.
StreamBacked == down \in Seq(Backed)
FoundBacked == call # Idle /\ call.found => call.event \in stored

BackedInv ==
  StreamBacked /\ FoundBacked /\ VerifiedIsServed /\ PublishedIsAccepted

\* What the relay serves and has accepted only grows.
LEMMA BackedGrows ==
  ASSUME NEW st, NEW ac, NEW st2, NEW ac2, st \subseteq st2, ac \subseteq ac2
  PROVE  BackedBy(st, ac) \subseteq BackedBy(st2, ac2)
  BY DEF BackedBy

\* Reading takes one backed frame, and keeps the relay.
LEMMA ReadsBacked ==
  ASSUME StreamBacked, NEW w, NEW types, Reads(w, types)
  PROVE  /\ Head(down) \in Backed /\ StreamBacked'
         /\ stored' = stored /\ accepted' = accepted
  <1>1. Head(down) \in Backed /\ Tail(down) \in Seq(Backed)
    BY Taken DEF StreamBacked, Reads
  <1> QED
    BY <1>1 DEF StreamBacked, Backed, Reads, relayVars

\* A call that ends with neither a yes nor a found event shows nothing.
LEMMA EndsWithout ==
  ASSUME StreamBacked', call' = Idle, last'.result \notin {"ok", "true"}
  PROVE  BackedInv'
  BY DEF BackedInv, FoundBacked, VerifiedIsServed, PublishedIsAccepted

\* What the call and the outcome showed stays shown while they stay.
LEMMA KeepsCall ==
  ASSUME BackedInv, StreamBacked', UNCHANGED <<call, last>>,
         stored \subseteq stored', accepted \subseteq accepted'
  PROVE  BackedInv'
  BY DEF BackedInv, FoundBacked, VerifiedIsServed, PublishedIsAccepted

\* A call that has just begun has found nothing, and there is no outcome yet.
LEMMA BeginBacked ==
  ASSUME BackedInv, NEW op, NEW e, NEW w, Begin(op, e, w)
  PROVE  BackedInv'
  <1>1. StreamBacked'
    BY DEF BackedInv, StreamBacked, Backed, Begin, relayVars
  <1>2. last'.result \notin {"ok", "true"}
    BY DEF Begin
  <1>3. call' # Idle => call'.found = FALSE
    BY DEF Begin
  <1> QED
    BY <1>1, <1>2, <1>3
    DEF BackedInv, FoundBacked, VerifiedIsServed, PublishedIsAccepted

\* The relay answers: what it puts into the stream is backed.
LEMMA ReplyBacked ==
  ASSUME BackedInv, stored \subseteq stored', accepted \subseteq accepted',
         NEW fs \in Seq(Backed'), Reply(fs)
  PROVE  BackedInv'
  <1>1. Backed \subseteq Backed'
    BY BackedGrows DEF Backed
  <1>2. down \in Seq(Backed')
    BY <1>1, Wider DEF BackedInv, StreamBacked
  <1>3. down \o fs \in Seq(Backed')
    BY <1>2, PutAll
  <1>4. StreamBacked'
    BY <1>3 DEF StreamBacked, Reply
  <1> QED
    BY <1>4, KeepsCall DEF Reply

\* Every frame but a served event and a yes is backed by nothing.
LEMMA ControlBacked ==
  ASSUME NEW type \in {"AUTH", "EOSE", "CLOSED", "NOTICE", "malformed"}
  PROVE  Control(type) \in Backed
  BY DEF Control, Backed, BackedBy, RelayFrame

LEMMA AnswersBacked ==
  ASSUME TypeOK, BackedInv, RelayAnswers
  PROVE  BackedInv'
  <1>0. up # <<>> => Head(up) \in ClientFrame
    BY Taken DEF TypeOK
  <1>1. CASE RelayAuth
    <2>1. PICK flag \in Flag : Reply(<<OK(AuthId, flag)>>)
      BY <1>1 DEF RelayAuth
    <2>2. OK(AuthId, flag) \in Backed'
      BY DEF RelayFrame, OK, Backed, BackedBy
    <2>3. <<OK(AuthId, flag)>> \in Seq(Backed')
      BY <2>2
    <2> QED
      BY <1>1, <2>1, <2>3, ReplyBacked DEF RelayAuth
  <1>2. CASE RelayEvent
    <2>1. Head(up).id \in Event
      BY <1>0, <1>2 DEF RelayEvent, Received, ClientFrame
    <2>2. PICK flag \in Flag :
            /\ Reply(<<OK(Head(up).id, flag)>>)
            /\ stored \subseteq stored' /\ accepted \subseteq accepted'
            /\ flag = "true" => Head(up).id \in accepted'
      BY <1>2 DEF RelayEvent
    <2>3. OK(Head(up).id, flag) \in Backed'
      BY <2>1, <2>2 DEF RelayFrame, OK, Backed, BackedBy, Accepted
    <2>4. <<OK(Head(up).id, flag)>> \in Seq(Backed')
      BY <2>3
    <2> QED
      BY <2>2, <2>4, ReplyBacked
  <1>3. CASE RelayReq
    <2>1. Head(up).id \in Event
      BY <1>0, <1>3 DEF RelayReq, Received, ClientFrame
    <2>2. stored' = stored /\ accepted' = accepted
      BY <1>3 DEF RelayReq
    <2>3. Control("CLOSED") \in Backed' /\ Control("EOSE") \in Backed'
      BY <2>2, ControlBacked DEF Backed
    <2>4. Head(up).id \in stored => Served(Head(up).id) \in Backed'
      BY <2>1, <2>2 DEF RelayFrame, Served, Backed, BackedBy
    <2>5. PICK fs \in Seq(Backed') : Reply(fs)
      <3>1. <<Control("CLOSED")>> \in Seq(Backed') /\ <<Control("EOSE")>> \in Seq(Backed')
        BY <2>3
      <3>2. Head(up).id \in stored =>
              <<Served(Head(up).id), Control("EOSE")>> \in Seq(Backed')
        BY <2>3, <2>4
      <3> QED
        BY <1>3, <3>1, <3>2 DEF RelayReq
    <2> QED
      BY <2>2, <2>5, ReplyBacked
  <1>4. CASE RelayClose
    <2>1. <<>> \in Seq(Backed') /\ Reply(<<>>)
      BY <1>4 DEF RelayClose
    <2> QED
      BY <1>4, <2>1, ReplyBacked DEF RelayClose
  <1> QED
    BY <1>1, <1>2, <1>3, <1>4 DEF RelayAnswers

\* A read that ends the call with neither a yes nor a found event.
LEMMA ReadEndsWithout ==
  ASSUME BackedInv, NEW w, NEW types, Reads(w, types), NEW r, NEW b, Finish(r, b),
         r \notin {"ok", "true"}
  PROVE  BackedInv'
  <1>1. StreamBacked'
    BY ReadsBacked DEF BackedInv
  <1> QED
    BY <1>1, EndsWithout DEF Finish

-----------------------------------------------------------------------------
(* The theorems *)

LEMMA BackedNext ==
  ASSUME TypeOK, BackedInv, [Next]_vars
  PROVE  BackedInv'
  <1>1. CASE Authenticate
    BY <1>1, BeginBacked DEF Authenticate
  <1>2. ASSUME NEW e \in Event, Publish(e) \/ PublishVerified(e) \/ HasEvent(e)
        PROVE  BackedInv'
    BY <1>2, BeginBacked DEF Publish, PublishVerified, HasEvent
  <1>3. CASE ReadChallenge
    <2>1. Reads("challenge", {"AUTH"}) /\ SendThenWait("AUTH", "auth_ok")
      BY <1>3 DEF ReadChallenge
    <2>2. call # Idle /\ call.wait = "challenge"
      BY <2>1 DEF Reads
    <2>3. /\ call' # Idle => call'.found = FALSE
          /\ last' = last \/ last'.result = "transport"
      BY <2>1, <2>2, SendType
    <2>4. StreamBacked' /\ stored' = stored /\ accepted' = accepted
      BY <2>1, ReadsBacked DEF BackedInv
    <2> QED
      BY <2>3, <2>4
      DEF BackedInv, FoundBacked, VerifiedIsServed, PublishedIsAccepted
  <1>4. CASE ReadAuthOk
    <2>1. Reads("auth_ok", {"OK"}) /\ \E r : Finish(r, TRUE)
      BY <1>4 DEF ReadAuthOk
    <2>2. call.op = "authenticate"
      BY <2>1, CallFields DEF Reads, TypeOK
    <2>3. /\ call' = Idle /\ last'.op = "authenticate"
          /\ last'.result \in {"ok", "auth_failed"}
      BY <1>4, <2>2 DEF ReadAuthOk, Finish
    <2>4. StreamBacked'
      BY <2>1, ReadsBacked DEF BackedInv
    <2> QED
      BY <2>3, <2>4
      DEF BackedInv, FoundBacked, VerifiedIsServed, PublishedIsAccepted
  <1>5. CASE ReadUnexpected
    <2>1. PICK w, types : Reads(w, types)
      BY <1>5 DEF ReadUnexpected
    <2> QED
      BY <1>5, <2>1, ReadEndsWithout DEF ReadUnexpected
  <1>6. CASE ReadOk
    <2>1. Reads("ok", {"OK"}) /\ Head(down).id = call.event
      BY <1>6 DEF ReadOk
    <2>2. /\ Head(down) \in Backed /\ StreamBacked'
          /\ stored' = stored /\ accepted' = accepted
      BY <2>1, ReadsBacked DEF BackedInv
    <2>3. /\ call # Idle /\ call.wait = "ok" /\ call.event \in Event
          /\ call.op \in {"publish", "publish_verified"}
      BY <2>1, CallFields DEF Reads, TypeOK
    <2>4. CASE ~Accepted(Head(down))
      BY <1>6, <2>1, <2>4, ReadEndsWithout DEF ReadOk
    <2>5. CASE Accepted(Head(down)) /\ call.op = "publish"
      <3>1. call' = Idle /\ last' = [op |-> "publish", event |-> call.event, result |-> "ok"]
        BY <1>6, <2>5 DEF ReadOk, Finish
      <3>2. call.event \in accepted
        BY <2>1, <2>2, <2>3, <2>5, RelayAssumption DEF Backed, BackedBy, Reads
      <3> QED
        BY <2>2, <3>1, <3>2
        DEF BackedInv, FoundBacked, VerifiedIsServed, PublishedIsAccepted
    <2>6. CASE Accepted(Head(down)) /\ call.op # "publish"
      <3>1. SendThenWait("REQ", "stored")
        BY <1>6, <2>6 DEF ReadOk
      <3>2. /\ call' # Idle => call'.found = FALSE
            /\ last' = last \/ last'.result = "transport"
        BY <2>3, <2>6, <3>1, SendType
      <3> QED
        BY <2>2, <3>2
        DEF BackedInv, FoundBacked, VerifiedIsServed, PublishedIsAccepted
    <2> QED
      BY <2>4, <2>5, <2>6
  <1>7. CASE ReadClosedPublishing
    BY <1>7, ReadEndsWithout DEF ReadClosedPublishing
  <1>8. CASE ReadServed
    <2>1. Reads("stored", {"EVENT"})
      BY <1>8 DEF ReadServed
    <2>2. /\ Head(down) \in Backed /\ StreamBacked'
          /\ stored' = stored /\ accepted' = accepted
      BY <2>1, ReadsBacked DEF BackedInv
    <2>3. Head(down).id \in stored
      BY <2>1, <2>2 DEF Backed, BackedBy, Reads
    <2>4. /\ call'.event = call.event /\ last' = last
          /\ call'.found = (call.found \/ Head(down).id = call.event)
      BY <1>8 DEF ReadServed, Continue
    <2>5. call # Idle /\ (call.found => call.event \in stored)
      BY <2>1 DEF Reads, BackedInv, FoundBacked
    <2>6. call'.found => call'.event \in stored'
      BY <2>2, <2>3, <2>4, <2>5
    <2> QED
      BY <2>2, <2>4, <2>6
      DEF BackedInv, FoundBacked, VerifiedIsServed, PublishedIsAccepted
  <1>9. CASE ReadEndOfStored
    <2>1. Reads("stored", {"EOSE"})
      BY <1>9 DEF ReadEndOfStored
    <2>2. StreamBacked' /\ stored' = stored /\ accepted' = accepted
      BY <2>1, ReadsBacked DEF BackedInv
    <2>3. call # Idle /\ call.op \in {"publish_verified", "has_event"}
      BY <2>1, CallFields DEF Reads, TypeOK
    <2>4. CASE call.found
      <3>1. call.event \in stored
        BY <2>3, <2>4 DEF BackedInv, FoundBacked
      <3>2. call' = Idle /\ last'.event = call.event /\ last'.op = call.op
        BY <1>9 DEF ReadEndOfStored, Finish
      <3> QED
        BY <2>2, <2>3, <3>1, <3>2
        DEF BackedInv, FoundBacked, VerifiedIsServed, PublishedIsAccepted
    <2>5. CASE ~call.found
      <3>1. call' = Idle /\ last'.result \in {"false", "not_retrievable"}
        BY <1>9, <2>5 DEF ReadEndOfStored, Finish
      <3> QED
        BY <2>2, <3>1, EndsWithout
    <2> QED
      BY <2>4, <2>5
  <1>10. CASE ReadClosedVerifying
    BY <1>10, ReadEndsWithout DEF ReadClosedVerifying
  <1>11. CASE ReadIgnored
    <2>1. PICK w, types : Reads(w, types)
      BY <1>11 DEF ReadIgnored
    <2>2. StreamBacked' /\ stored' = stored /\ accepted' = accepted
      BY <2>1, ReadsBacked DEF BackedInv
    <2> QED
      BY <1>11, <2>2, KeepsCall DEF ReadIgnored
  <1>12. CASE ReadMalformed
    <2>1. PICK w \in Wait : Reads(w, {"malformed"})
      BY <1>12 DEF ReadMalformed
    <2> QED
      BY <1>12, <2>1, ReadEndsWithout DEF ReadMalformed
  <1>13. CASE ReadEnd \/ Drop
    <2>1. StreamBacked'
      BY <1>13 DEF ReadEnd, Drop, relayVars, BackedInv, StreamBacked, Backed
    <2>2. call' = Idle /\ last'.result \in {"transport", "dropped"}
      BY <1>13 DEF ReadEnd, Drop, Finish
    <2> QED
      BY <2>1, <2>2, EndsWithout
  <1>14. CASE RelayAnswers
    BY <1>14, AnswersBacked
  <1>15. ASSUME NEW type \in {"NOTICE", "malformed", "AUTH", "CLOSED"},
                RelaySends(type)
         PROVE  BackedInv'
    <2>1. Control(type) \in Backed
      BY ControlBacked
    <2>2. Backed' = Backed
      BY <1>15 DEF RelaySends, Backed
    <2>3. StreamBacked'
      BY <1>15, <2>1, <2>2, Put DEF RelaySends, BackedInv, StreamBacked
    <2> QED
      BY <1>15, <2>3, KeepsCall DEF RelaySends
  <1>16. CASE RelayHangsUp \/ UNCHANGED vars
    <2>1. UNCHANGED <<down, stored, accepted, call, last>>
      BY <1>16 DEF RelayHangsUp, relayVars, vars
    <2>2. StreamBacked'
      BY <2>1 DEF BackedInv, StreamBacked, Backed
    <2> QED
      BY <2>1, <2>2, KeepsCall
  <1> QED
    BY <1>1, <1>2, <1>3, <1>4, <1>5, <1>6, <1>7, <1>8, <1>9, <1>10, <1>11,
       <1>12, <1>13, <1>14, <1>15, <1>16
    DEF Next, ClientReads

LEMMA BackedInit ==
  ASSUME Init
  PROVE  BackedInv
  <1>1. <<Control("AUTH")>> \in Seq(Backed) /\ <<>> \in Seq(Backed)
    <2>1. Control("AUTH") \in Backed
      BY ControlBacked
    <2> QED
      BY <2>1
  <1>2. StreamBacked
    BY <1>1 DEF Init, StreamBacked
  <1> QED
    BY <1>2 DEF Init, BackedInv, FoundBacked, VerifiedIsServed, PublishedIsAccepted

\* publish_verified and has_event say yes only of an event that the relay
\* serves.
THEOREM VerifiedIsServedHolds == Spec => []VerifiedIsServed
  <1>1. Init => BackedInv
    BY BackedInit
  <1>2. TypeOK /\ BackedInv /\ [Next]_vars => BackedInv'
    BY BackedNext
  <1>3. BackedInv => VerifiedIsServed
    BY DEF BackedInv
  <1> QED
    BY <1>1, <1>2, <1>3, TypeCorrect, PTL DEF Spec

\* publish succeeds only when the relay has said yes to this event.
THEOREM PublishedIsAcceptedHolds == Spec => []PublishedIsAccepted
  <1>1. Init => BackedInv
    BY BackedInit
  <1>2. TypeOK /\ BackedInv /\ [Next]_vars => BackedInv'
    BY BackedNext
  <1>3. BackedInv => PublishedIsAccepted
    BY DEF BackedInv
  <1> QED
    BY <1>1, <1>2, <1>3, TypeCorrect, PTL DEF Spec
-----------------------------------------------------------------------------
(* Which frame answers which call                                            *)
(*                                                                           *)
(* Every earlier call having ended on its own answer, at most one frame in   *)
(* flight asks the relay for something, it is the last one sent and the call *)
(* in progress has sent it; or its answer is in the stream, and nothing      *)
(* follows it that could be taken for another.                               *)
Asking(f) == f.type \in {"EVENT", "REQ"}
Answering(f) == f.type \in {"EVENT", "EOSE"} \/ (f.type = "OK" /\ f.id \in Event)

Asks(f, c) ==
  /\ c # Idle
  /\ f.id = c.event
  /\ \/ c.wait = "ok" /\ f.type = "EVENT"
     \/ c.wait = "stored" /\ f.type = "REQ"

Answers(f, c) ==
  /\ c # Idle
  /\ \/ c.wait = "ok" /\ f.type = "OK" /\ f.id = c.event
     \/ c.wait = "stored" /\ f.type = "EVENT" /\ f.id = c.event
     \/ c.wait = "stored" /\ f.type = "EOSE"

Unasked(u) == \A i \in 1..Len(u) : ~Asking(u[i])
Unanswered(d) == \A i \in 1..Len(d) : ~Answering(d[i])

InStep(u, d, c, served) ==
  /\ \A i \in 1..Len(u) : Asking(u[i]) => Asks(u[i], c) /\ i = Len(u)
  /\ \A i \in 1..Len(d) : Answering(d[i]) =>
       /\ Answers(d[i], c)
       /\ Unasked(u)
       /\ d[i].type # "EVENT" => \A j \in (i + 1)..Len(d) : ~Answering(d[j])
  /\ \A i \in 1..Len(d) : d[i].type = "EOSE" /\ c.event \in served =>
       c.found \/ \E j \in 1..(i - 1) : d[j].type = "EVENT"

Admitting(yes) == {f \in RelayFrame : f.type = "OK" /\ f.id = AuthId /\ Accepted(f) => yes}
AuthBacked == down \in Seq(Admitting(admitted))

\* The strengthening of NotServedIsTrue and AuthIsReal.
Settled == last.result \notin {"false", "not_retrievable"}

ClientInv ==
  /\ AuthBacked
  /\ open \/ up = <<>>
  /\ call # Idle => Settled
  /\ ~abandoned => InStep(up, down, call, stored)
  /\ NotServedIsTrue /\ AuthIsReal

\* Positions after one frame is put into or taken from a queue.
LEMMA PutAt ==
  ASSUME NEW S, NEW q \in Seq(S), NEW f
  PROVE  /\ Len(q) \in Nat /\ Len(Append(q, f)) = Len(q) + 1
         /\ \A i \in 1..Len(q) : Append(q, f)[i] = q[i]
         /\ Append(q, f)[Len(q) + 1] = f
         /\ 1..(Len(q) + 1) = 1..Len(q) \cup {Len(q) + 1}
  OBVIOUS

LEMMA TakenAt ==
  ASSUME NEW S, NEW q \in Seq(S), q # <<>>
  PROVE  /\ Len(q) \in Nat /\ Len(q) >= 1 /\ Len(Tail(q)) = Len(q) - 1
         /\ Head(q) = q[1]
         /\ \A i \in 1..(Len(q) - 1) : i + 1 \in 1..Len(q) /\ Tail(q)[i] = q[i + 1]
  OBVIOUS

LEMMA UnaskedPut ==
  ASSUME NEW S, NEW u \in Seq(S), NEW f, Unasked(u), ~Asking(f)
  PROVE  Unasked(Append(u, f))
  BY PutAt DEF Unasked

LEMMA UnaskedTaken ==
  ASSUME NEW S, NEW u \in Seq(S), u # <<>>, Unasked(u)
  PROVE  Unasked(Tail(u))
  BY TakenAt DEF Unasked

LEMMA UnansweredTaken ==
  ASSUME NEW S, NEW d \in Seq(S), d # <<>>, Unanswered(d)
  PROVE  Unanswered(Tail(d))
  BY TakenAt DEF Unanswered

\* Where nothing is asked for and nothing answered, any call is in step.
LEMMA QuietInStep ==
  ASSUME NEW u, NEW d, Unasked(u), Unanswered(d), NEW c, NEW served
  PROVE  InStep(u, d, c, served)
  BY DEF InStep, Unasked, Unanswered, Answering

\* Unless a call waits for an answer of the relay, the stream is quiet.
LEMMA InStepQuiet ==
  ASSUME NEW u, NEW d, NEW c, NEW served, InStep(u, d, c, served),
         c = Idle \/ c.wait \notin {"ok", "stored"}
  PROVE  Unasked(u) /\ Unanswered(d)
  BY DEF InStep, Unasked, Unanswered, Asks, Answers

\* A call that has just asked.
LEMMA AskInStep ==
  ASSUME NEW S, NEW u \in Seq(S), NEW d, Unasked(u), Unanswered(d),
         NEW c, NEW f, Asks(f, c), NEW served
  PROVE  InStep(Append(u, f), d, c, served)
  <1>1. \A i \in 1..Len(Append(u, f)) :
          Asking(Append(u, f)[i]) => Asks(Append(u, f)[i], c) /\ i = Len(Append(u, f))
    BY PutAt DEF Unasked
  <1> QED
    BY <1>1 DEF InStep, Unanswered, Answering

\* A frame that answers nothing comes or is taken.
LEMMA PutInStep ==
  ASSUME NEW S, NEW u, NEW d \in Seq(S), NEW c, NEW served, InStep(u, d, c, served),
         NEW f, ~Answering(f)
  PROVE  InStep(u, Append(d, f), c, served)
  <1> DEFINE e == Append(d, f)
  <1>0. /\ Len(e) = Len(d) + 1 /\ Len(d) \in Nat
        /\ \A i \in 1..Len(d) : e[i] = d[i]
        /\ e[Len(d) + 1] = f
    BY PutAt
  <1>1. /\ Len(e) = Len(d) + 1 /\ Len(d) \in Nat
        /\ \A i \in 1..Len(d) : e[i] = d[i]
        /\ \A i \in 1..Len(e) : i \in 1..Len(d) \/ (i = Len(e) /\ e[i] = f)
    <2> HIDE DEF e
    <2> QED
      BY <1>0
  <1> HIDE DEF e
  <1>2. ASSUME NEW i \in 1..Len(e), Answering(e[i])
        PROVE  /\ Answers(e[i], c) /\ Unasked(u)
               /\ e[i].type # "EVENT" => \A j \in (i + 1)..Len(e) : ~Answering(e[j])
    <2>1. i \in 1..Len(d) /\ e[i] = d[i]
      BY <1>1, <1>2
    <2>2. /\ Answers(d[i], c) /\ Unasked(u)
          /\ d[i].type # "EVENT" => \A j \in (i + 1)..Len(d) : ~Answering(d[j])
      BY <1>2, <2>1 DEF InStep
    <2> QED
      BY <1>1, <2>1, <2>2
  <1>3. ASSUME NEW i \in 1..Len(e), e[i].type = "EOSE", c.event \in served, ~c.found
        PROVE  \E j \in 1..(i - 1) : e[j].type = "EVENT"
    <2>1. i \in 1..Len(d) /\ e[i] = d[i]
      BY <1>1, <1>3 DEF Answering
    <2>2. PICK j \in 1..(i - 1) : d[j].type = "EVENT"
      BY <1>3, <2>1 DEF InStep
    <2> QED
      BY <1>1, <2>1, <2>2
  <1> QED
    BY <1>2, <1>3 DEF InStep, e

LEMMA TakenInStep ==
  ASSUME NEW S, NEW u, NEW d \in Seq(S), d # <<>>, NEW c, NEW served,
         InStep(u, d, c, served), NEW b,
         \/ ~Answering(Head(d)) /\ b = c
         \/ /\ Head(d).type = "EVENT" /\ b.found
            /\ \A f : Answers(f, c) => Answers(f, b)
            /\ \A f : Asks(f, c) => Asks(f, b)
  PROVE  InStep(u, Tail(d), b, served)
  <1> DEFINE e == Tail(d)
  <1>1. /\ Len(e) = Len(d) - 1 /\ Len(d) \in Nat /\ Len(d) >= 1
        /\ Head(d) = d[1]
        /\ \A i \in 1..Len(e) : i + 1 \in 1..Len(d) /\ e[i] = d[i + 1]
    BY TakenAt
  <1> HIDE DEF e
  <1>2. ASSUME NEW i \in 1..Len(e), Answering(e[i])
        PROVE  /\ Answers(e[i], b) /\ Unasked(u)
               /\ e[i].type # "EVENT" => \A j \in (i + 1)..Len(e) : ~Answering(e[j])
    <2>1. i + 1 \in 1..Len(d) /\ e[i] = d[i + 1]
      BY <1>1
    <2>2. /\ Answers(d[i + 1], c) /\ Unasked(u)
          /\ d[i + 1].type # "EVENT" => \A j \in (i + 2)..Len(d) : ~Answering(d[j])
      BY <1>2, <2>1 DEF InStep
    <2>3. ASSUME NEW j \in (i + 1)..Len(e)
          PROVE  j + 1 \in (i + 2)..Len(d) /\ e[j] = d[j + 1]
      BY <1>1
    <2> QED
      BY <2>1, <2>2, <2>3
  <1>3. ASSUME NEW i \in 1..Len(e), e[i].type = "EOSE", b.event \in served, ~b.found
        PROVE  \E j \in 1..(i - 1) : e[j].type = "EVENT"
    <2>1. i + 1 \in 1..Len(d) /\ e[i] = d[i + 1] /\ b = c /\ ~Answering(d[1])
      BY <1>1, <1>3
    <2>2. PICK j \in 1..i : d[j].type = "EVENT"
      BY <1>3, <2>1 DEF InStep
    <2>3. j # 1
      BY <2>1, <2>2 DEF Answering
    <2>4. j - 1 \in 1..(i - 1) /\ j - 1 \in 1..Len(e) /\ (j - 1) + 1 = j
      BY <1>1, <2>2, <2>3
    <2>5. e[j - 1] = d[j]
      BY <1>1, <2>4
    <2> QED
      BY <2>2, <2>4, <2>5
  <1>4. \A f : Asks(f, c) => Asks(f, b)
    OBVIOUS
  <1>5. \A i \in 1..Len(u) : Asking(u[i]) => Asks(u[i], b) /\ i = Len(u)
    BY <1>4 DEF InStep
  <1> QED
    BY <1>2, <1>3, <1>5 DEF InStep, e

LEMMA HeadAnswers ==
  ASSUME NEW S, NEW u, NEW d \in Seq(S), d # <<>>, NEW c, NEW served,
         InStep(u, d, c, served), Answering(Head(d))
  PROVE  Answers(Head(d), c)
  <1>1. 1 \in 1..Len(d) /\ Head(d) = d[1]
    BY TakenAt
  <1> QED
    BY <1>1 DEF InStep

\* The end of an answer leaves the stream quiet.
LEMMA EndQuiet ==
  ASSUME NEW S, NEW u, NEW d \in Seq(S), d # <<>>, NEW c, NEW served,
         InStep(u, d, c, served), Answering(Head(d)), Head(d).type # "EVENT"
  PROVE  /\ Unasked(u) /\ Unanswered(Tail(d))
         /\ Head(d).type = "EOSE" /\ c.event \in served => c.found
  <1>1. /\ Len(d) \in Nat /\ Len(d) >= 1 /\ Len(Tail(d)) = Len(d) - 1 /\ Head(d) = d[1]
        /\ \A i \in 1..(Len(d) - 1) : i + 1 \in 1..Len(d) /\ Tail(d)[i] = d[i + 1]
    BY TakenAt
  <1>2. 1 \in 1..Len(d) /\ \A i \in 1..(Len(d) - 1) : i + 1 \in 2..Len(d)
    BY <1>1
  <1>3. Unasked(u) /\ \A j \in 2..Len(d) : ~Answering(d[j])
    BY <1>1, <1>2 DEF InStep
  <1>4. d[1].type = "EOSE" /\ c.event \in served => c.found
    BY <1>2 DEF InStep
  <1> QED
    BY <1>1, <1>2, <1>3, <1>4 DEF Unanswered

\* The relay takes a frame that asks for nothing.
LEMMA SentInStep ==
  ASSUME NEW S, NEW u \in Seq(S), u # <<>>, NEW d, NEW c, NEW served,
         InStep(u, d, c, served), ~Asking(Head(u))
  PROVE  InStep(Tail(u), d, c, served)
  <1> DEFINE t == Tail(u)
  <1>1. /\ Len(u) \in Nat /\ Len(u) >= 1 /\ Len(t) = Len(u) - 1
        /\ \A i \in 1..(Len(u) - 1) : i + 1 \in 1..Len(u) /\ t[i] = u[i + 1]
    BY TakenAt
  <1>2. Unasked(u) => Unasked(t)
    BY UnaskedTaken
  <1> HIDE DEF t
  <1>3. ASSUME NEW i \in 1..Len(t), Asking(t[i])
        PROVE  Asks(t[i], c) /\ i = Len(t)
    <2>1. i + 1 \in 1..Len(u) /\ t[i] = u[i + 1]
      BY <1>1
    <2>2. Asks(u[i + 1], c) /\ i + 1 = Len(u)
      BY <1>3, <2>1 DEF InStep
    <2> QED
      BY <1>1, <2>1, <2>2
  <1> QED
    BY <1>2, <1>3 DEF InStep, t

\* The relay takes the frame that asks: there is no other, and no answer yet.
LEMMA AskedAlone ==
  ASSUME NEW S, NEW u \in Seq(S), u # <<>>, NEW d, NEW c, NEW served,
         InStep(u, d, c, served), Asking(Head(u))
  PROVE  Asks(Head(u), c) /\ Unasked(Tail(u)) /\ Unanswered(d)
  <1> DEFINE h == Head(u)
             t == Tail(u)
  <1>1. Len(u) \in Nat /\ Len(u) >= 1 /\ Len(t) = Len(u) - 1 /\ h = u[1] /\ Asking(h)
    BY TakenAt
  <1> HIDE DEF h, t
  <1>2. Asks(u[1], c) /\ 1 = Len(u)
    BY <1>1 DEF InStep
  <1>3. ~Unasked(u)
    BY <1>1, <1>2 DEF Unasked
  <1>4. Unanswered(d)
    BY <1>3 DEF InStep, Unanswered
  <1>5. Unasked(t)
    <2>1. Len(t) = 0
      BY <1>1, <1>2, SMTT(30)
    <2>2. 1..Len(t) = {}
      BY <2>1
    <2> QED
      BY <2>2 DEF Unasked
  <1> QED
    BY <1>1, <1>2, <1>4, <1>5 DEF h, t

\* Its answer, of one frame or of the event and the end.
LEMMA AnswerInStep ==
  ASSUME NEW S, NEW u, NEW d \in Seq(S), Unasked(u), Unanswered(d),
         NEW c, NEW f, Answers(f, c), f.type # "EVENT", NEW served,
         f.type = "EOSE" => c.event \notin served
  PROVE  InStep(u, Append(d, f), c, served)
  <1> DEFINE e == Append(d, f)
  <1>1. /\ Len(e) = Len(d) + 1 /\ Len(d) \in Nat
        /\ \A i \in 1..Len(e) : (i = Len(e) /\ e[i] = f) \/ ~Answering(e[i])
    BY PutAt DEF Unanswered
  <1> HIDE DEF e
  <1>2. ASSUME NEW i \in 1..Len(e), Answering(e[i])
        PROVE  /\ Answers(e[i], c) /\ Unasked(u)
               /\ \A j \in (i + 1)..Len(e) : ~Answering(e[j])
    BY <1>1, <1>2
  <1>3. ASSUME NEW i \in 1..Len(e), e[i].type = "EOSE"
        PROVE  c.event \notin served
    BY <1>1, <1>3 DEF Answering
  <1>4. \A i \in 1..Len(u) : ~Asking(u[i])
    BY DEF Unasked
  <1> QED
    BY <1>2, <1>3, <1>4 DEF InStep, e

LEMMA ServedInStep ==
  ASSUME NEW S, NEW u, NEW d \in Seq(S), Unasked(u), Unanswered(d), NEW c, NEW served,
         NEW f \in S, f.type = "EVENT", Answers(f, c), NEW g, g.type = "EOSE", Answers(g, c)
  PROVE  InStep(u, Append(Append(d, f), g), c, served)
  <1> DEFINE a == Append(d, f)
             e == Append(a, g)
  <1>1. a \in Seq(S)
    BY Put
  <1>2. /\ Len(a) = Len(d) + 1 /\ Len(d) \in Nat
        /\ \A i \in 1..Len(d) : a[i] = d[i]
        /\ a[Len(a)] = f
    BY PutAt
  <1>3. /\ Len(e) = Len(a) + 1
        /\ \A i \in 1..Len(a) : e[i] = a[i]
        /\ e[Len(e)] = g
    BY <1>1, PutAt
  <1> HIDE DEF a, e
  <1>4. ASSUME NEW i \in 1..Len(e)
        PROVE  \/ i = Len(e) /\ e[i] = g
               \/ i = Len(a) /\ e[i] = f
               \/ ~Answering(e[i])
    BY <1>2, <1>3 DEF Unanswered
  <1>5. ASSUME NEW i \in 1..Len(e), Answering(e[i])
        PROVE  /\ Answers(e[i], c) /\ Unasked(u)
               /\ e[i].type # "EVENT" => \A j \in (i + 1)..Len(e) : ~Answering(e[j])
    BY <1>3, <1>4, <1>5
  <1>6. ASSUME NEW i \in 1..Len(e), e[i].type = "EOSE"
        PROVE  \E j \in 1..(i - 1) : e[j].type = "EVENT"
    <2>1. i = Len(e) /\ Len(a) \in 1..(i - 1) /\ Len(a) \in 1..Len(a)
      BY <1>2, <1>3, <1>4, <1>6 DEF Answering
    <2>2. e[Len(a)].type = "EVENT"
      BY <1>2, <1>3, <2>1
    <2> QED
      BY <2>1, <2>2
  <1>7. \A i \in 1..Len(u) : ~Asking(u[i])
    BY DEF Unasked
  <1> QED
    BY <1>5, <1>6, <1>7 DEF InStep, a, e

-----------------------------------------------------------------------------
(* A yes to the auth event in the stream is one the relay has said. *)

\* Every read but the last takes one frame from the stream.
LEMMA ReadsOne ==
  ASSUME ClientReads
  PROVE  ReadEnd \/ \E w, types : Reads(w, types)
  BY DEF ClientReads, ReadChallenge, ReadAuthOk, ReadUnexpected, ReadOk,
         ReadClosedPublishing, ReadServed, ReadEndOfStored, ReadClosedVerifying,
         ReadIgnored, ReadMalformed

LEMMA ReplyAuth ==
  ASSUME AuthBacked, NEW fs \in Seq(Admitting(admitted')), Reply(fs), admitted => admitted'
  PROVE  AuthBacked'
  <1>1. Admitting(admitted) \subseteq Admitting(admitted')
    BY DEF Admitting
  <1>2. down \in Seq(Admitting(admitted'))
    BY <1>1, Wider DEF AuthBacked
  <1>3. down \o fs \in Seq(Admitting(admitted'))
    BY <1>2, PutAll
  <1> QED
    BY <1>3 DEF AuthBacked, Reply

LEMMA AuthStep ==
  ASSUME TypeOK, AuthBacked, [Next]_vars
  PROVE  AuthBacked'
  <1>0. up # <<>> => Head(up) \in ClientFrame
    BY Taken DEF TypeOK
  <1>1. ASSUME UNCHANGED <<down, admitted>>
        PROVE  AuthBacked'
    BY <1>1 DEF AuthBacked
  <1>2. CASE ClientReads
    <2>1. CASE ReadEnd
      BY <1>1, <2>1 DEF ReadEnd, relayVars
    <2>2. ASSUME NEW w, NEW types, Reads(w, types)
          PROVE  AuthBacked'
      <3>1. Tail(down) \in Seq(Admitting(admitted))
        BY <2>2, Taken DEF Reads, AuthBacked
      <3> QED
        BY <2>2, <3>1 DEF Reads, relayVars, AuthBacked
    <2> QED
      BY <1>2, <2>1, <2>2, ReadsOne
  <1>3. CASE Authenticate \/ Drop \/ RelayHangsUp \/ UNCHANGED vars
    BY <1>1, <1>3 DEF Authenticate, Begin, Drop, RelayHangsUp, vars, relayVars
  <1>4. ASSUME NEW e \in Event, Publish(e) \/ PublishVerified(e) \/ HasEvent(e)
        PROVE  AuthBacked'
    BY <1>1, <1>4 DEF Publish, PublishVerified, HasEvent, Begin, relayVars
  <1>5. ASSUME NEW type \in {"NOTICE", "malformed", "AUTH", "CLOSED"}, RelaySends(type)
        PROVE  AuthBacked'
    <2>1. Control(type) \in Admitting(admitted)
      BY DEF Control, Admitting, RelayFrame
    <2> QED
      BY <1>5, <2>1, Put DEF RelaySends, AuthBacked
  <1>6. CASE RelayAuth
    <2>1. PICK flag \in Flag : Reply(<<OK(AuthId, flag)>>) /\ admitted' = (admitted \/ flag = "true")
      BY <1>6 DEF RelayAuth
    <2>2. OK(AuthId, flag) \in Admitting(admitted')
      BY <2>1 DEF RelayFrame, OK, Admitting, Accepted
    <2>3. <<OK(AuthId, flag)>> \in Seq(Admitting(admitted'))
      BY <2>2
    <2> QED
      BY <2>1, <2>3, ReplyAuth
  <1>7. CASE RelayEvent
    <2>1. Head(up).id \in Event /\ admitted' = admitted
      BY <1>0, <1>7 DEF RelayEvent, Received, ClientFrame
    <2>2. PICK flag \in Flag : Reply(<<OK(Head(up).id, flag)>>)
      BY <1>7 DEF RelayEvent
    <2>3. OK(Head(up).id, flag) \in Admitting(admitted')
      BY <2>1, RelayAssumption DEF RelayFrame, OK, Admitting
    <2>4. <<OK(Head(up).id, flag)>> \in Seq(Admitting(admitted'))
      BY <2>3
    <2> QED
      BY <2>1, <2>2, <2>4, ReplyAuth
  <1>8. CASE RelayReq
    <2>1. Head(up).id \in Event /\ admitted' = admitted
      BY <1>0, <1>8 DEF RelayReq, Received, ClientFrame
    <2>2. /\ Control("CLOSED") \in Admitting(admitted') /\ Control("EOSE") \in Admitting(admitted')
          /\ Served(Head(up).id) \in Admitting(admitted')
      BY <2>1 DEF Control, Served, RelayFrame, Admitting
    <2>3. /\ <<Control("CLOSED")>> \in Seq(Admitting(admitted'))
          /\ <<Control("EOSE")>> \in Seq(Admitting(admitted'))
          /\ <<Served(Head(up).id), Control("EOSE")>> \in Seq(Admitting(admitted'))
      BY <2>2
    <2>4. PICK fs \in Seq(Admitting(admitted')) : Reply(fs)
      BY <1>8, <2>3 DEF RelayReq
    <2> QED
      BY <2>1, <2>4, ReplyAuth
  <1>9. CASE RelayClose
    <2>1. <<>> \in Seq(Admitting(admitted')) /\ Reply(<<>>) /\ admitted' = admitted
      BY <1>9 DEF RelayClose
    <2> QED
      BY <2>1, ReplyAuth
  <1> QED
    BY <1>2, <1>3, <1>4, <1>5, <1>6, <1>7, <1>8, <1>9 DEF Next, RelayAnswers

-----------------------------------------------------------------------------
(* The calls stay in step. *)

\* A call that ends on a frame that is not its answer.
LEMMA Abandons ==
  ASSUME ClientInv, AuthBacked', NEW r, Finish(r, FALSE), UNCHANGED <<up, open>>
  PROVE  ClientInv'
  BY DEF ClientInv, Finish, NotServedIsTrue, AuthIsReal

\* A call that ends on its answer leaves the stream quiet.
LEMMA Ends ==
  ASSUME ClientInv, AuthBacked', NEW r, Finish(r, TRUE), open' \/ up' = <<>>,
         ~abandoned => /\ Unasked(up') /\ Unanswered(down')
                       /\ r \in {"false", "not_retrievable"} => call.event \notin stored'
                       /\ authenticated' => admitted'
  PROVE  ClientInv'
  <1>1. /\ call' = Idle /\ last'.event = call.event /\ last'.result = r
        /\ ~abandoned' => ~abandoned
    BY DEF Finish
  <1>2. ~abandoned => InStep(up', down', call', stored')
    BY QuietInStep
  <1> QED
    BY <1>1, <1>2 DEF ClientInv, NotServedIsTrue, AuthIsReal

\* A call that goes on, whatever the relay stores meanwhile.
LEMMA GoesOn ==
  ASSUME ClientInv, AuthBacked', call # Idle, UNCHANGED <<last, abandoned, authenticated>>,
         admitted => admitted', open' \/ up' = <<>>,
         ~abandoned => InStep(up', down', call', stored')
  PROVE  ClientInv'
  BY DEF ClientInv, Settled, NotServedIsTrue, AuthIsReal

\* Nothing happens to the call, and nothing new is stored.
LEMMA StaysPut ==
  ASSUME ClientInv, AuthBacked', UNCHANGED <<last, abandoned, authenticated, call, stored>>,
         admitted => admitted', open' \/ up' = <<>>,
         ~abandoned => InStep(up', down', call', stored')
  PROVE  ClientInv'
  BY DEF ClientInv, Settled, NotServedIsTrue, AuthIsReal

LEMMA BeginsInStep ==
  ASSUME TypeOK, ClientInv, AuthBacked', NEW op, op # "none", NEW e, NEW w, Begin(op, e, w)
  PROVE  ClientInv'
  <1> DEFINE f == [type |-> IF w = "ok" THEN "EVENT" ELSE "REQ", id |-> e]
             c == [op |-> op, event |-> e, wait |-> w, found |-> FALSE]
  <1>1. /\ call = Idle /\ last'.result \in {"none", "transport"}
        /\ UNCHANGED <<down, open, relayVars, authenticated, abandoned>>
    BY DEF Begin
  <1>2. ~abandoned => Unasked(up) /\ Unanswered(down)
    BY <1>1, InStepQuiet DEF ClientInv
  <1>3. \/ up' = up
        \/ open /\ up' = Append(up, f) /\ call' = c /\ w \in {"ok", "stored"}
    BY DEF Begin, TypeOK
  <1>4. ~abandoned => InStep(up', down', call', stored')
    <2>1. CASE up' = up
      BY <1>1, <1>2, <2>1, QuietInStep
    <2>2. CASE open /\ up' = Append(up, f) /\ call' = c /\ w \in {"ok", "stored"}
      <3>1. Asks(f, c)
        <4>1. c.op = op /\ c.event = e /\ c.wait = w /\ Idle.op = "none"
          BY DEF Idle
        <4>2. f.id = e /\ f.type = IF w = "ok" THEN "EVENT" ELSE "REQ"
          OBVIOUS
        <4> HIDE DEF f, c
        <4> QED
          BY <2>2, <4>1, <4>2 DEF Asks
      <3> HIDE DEF f, c
      <3>2. ~abandoned => InStep(Append(up, f), down, c, stored')
        BY <1>2, <3>1, AskInStep DEF TypeOK
      <3> QED
        BY <1>1, <2>2, <3>2
    <2> QED
      BY <1>3, <2>1, <2>2
  <1>5. open' \/ up' = <<>>
    BY <1>1, <1>3 DEF ClientInv
  <1>6. AuthIsReal' /\ Settled'
    BY <1>1 DEF ClientInv, AuthIsReal, relayVars, Settled
  <1> QED
    BY <1>1, <1>4, <1>5, <1>6 DEF ClientInv, NotServedIsTrue, Settled

\* The next frame of a call that waits for an answer of the relay's, or for
\* one to its auth event; or the connection turns out to be closed.
LEMMA SendsInStep ==
  ASSUME TypeOK, ClientInv, AuthBacked', call # Idle, NEW type, NEW w, SendThenWait(type, w),
         UNCHANGED <<open, relayVars, authenticated>>,
         ~abandoned => Unasked(up) /\ Unanswered(down'),
         type = "AUTH" \/ (type = "REQ" /\ w = "stored")
  PROVE  ClientInv'
  <1> DEFINE f == [type |-> type, id |-> call.event]
  <1>1. CASE ~open
    BY <1>1, Ends DEF SendThenWait, ClientInv, AuthIsReal, relayVars
  <1>2. CASE open
    <2>1. up' = Append(up, f) /\ Continue(w, FALSE)
      BY <1>2 DEF SendThenWait
    <2>2. CASE type = "AUTH"
      <3>1. ~Asking(f)
        BY <2>2 DEF Asking
      <3> HIDE DEF f
      <3>2. ~abandoned => Unasked(up')
        BY <2>1, <3>1, UnaskedPut DEF TypeOK
      <3> QED
        BY <1>2, <2>1, <3>2, QuietInStep, GoesOn DEF Continue, relayVars
    <2>3. CASE type = "REQ" /\ w = "stored"
      <3>1. Asks(f, call')
        BY <2>1, <2>3 DEF Asks, Continue, Idle
      <3> HIDE DEF f
      <3>2. ~abandoned => InStep(Append(up, f), down', call', stored')
        BY <3>1, AskInStep DEF TypeOK
      <3> QED
        BY <1>2, <2>1, <3>2, GoesOn DEF Continue, relayVars
    <2> QED
      BY <2>2, <2>3
  <1> QED
    BY <1>1, <1>2

LEMMA ReadsInStep ==
  ASSUME TypeOK, ClientInv, AuthBacked', ClientReads
  PROVE  ClientInv'
  <1>0. ASSUME NEW w, NEW types, Reads(w, types)
        PROVE  /\ call # Idle /\ call.wait = w /\ down # <<>> /\ down' = Tail(down)
               /\ Head(down).type \in types /\ Head(down) \in Admitting(admitted)
               /\ down \in Seq(RelayFrame)
               /\ UNCHANGED <<open, relayVars>>
               /\ ~abandoned => InStep(up, down, call, stored)
    BY <1>0, Taken DEF Reads, TypeOK, ClientInv, AuthBacked
  <1>1. ASSUME NEW w \in {"challenge", "auth_ok"}, NEW types, Reads(w, types), ~abandoned
        PROVE  Unasked(up) /\ Unanswered(down) /\ Unanswered(down')
    <2>1. Unasked(up) /\ Unanswered(down)
      BY <1>0, <1>1, InStepQuiet
    <2> QED
      BY <1>0, <1>1, <2>1, UnansweredTaken
  <1>2. CASE ReadChallenge
    BY <1>0, <1>1, <1>2, SendsInStep DEF ReadChallenge
  <1>3. CASE ReadAuthOk
    <2>1. Reads("auth_ok", {"OK"})
      BY <1>3 DEF ReadAuthOk
    <2>2. PICK r \in {"ok", "auth_failed"} : Finish(r, TRUE)
      BY <1>3 DEF ReadAuthOk
    <2>3. ASSUME ~abandoned, Accepted(Head(down))
          PROVE  admitted
      <3>1. Head(down).type = "OK" /\ Head(down) \in RelayFrame /\ ~Answering(Head(down))
        BY <1>0, <1>1, <2>1, <2>3, TakenAt DEF Admitting, Unanswered
      <3>2. Head(down).id = AuthId
        BY <3>1 DEF RelayFrame, Answering, Served, Control
      <3> QED
        BY <1>0, <2>1, <2>3, <3>1, <3>2 DEF Admitting
    <2>4. ~abandoned /\ authenticated' => admitted'
      BY <1>0, <1>3, <2>1, <2>3 DEF ReadAuthOk, ClientInv, AuthIsReal, relayVars
    <2>5. up' = up /\ (open' \/ up' = <<>>)
      BY <1>0, <1>3, <2>1 DEF ReadAuthOk, ClientInv
    <2>6. ~abandoned => Unasked(up') /\ Unanswered(down')
      BY <1>1, <2>1, <2>5
    <2> QED
      BY <2>2, <2>4, <2>5, <2>6, Ends
  <1>4. CASE ReadUnexpected \/ ReadClosedPublishing \/ ReadClosedVerifying \/ ReadMalformed
    <2>1. UNCHANGED <<up, open>> /\ \E r : Finish(r, FALSE)
      BY <1>4 DEF ReadUnexpected, ReadClosedPublishing, ReadClosedVerifying, ReadMalformed, Reads
    <2> QED
      BY <2>1, Abandons
  <1>5. CASE ReadOk
    <2>1. Reads("ok", {"OK"}) /\ Head(down).id = call.event /\ authenticated' = authenticated
      BY <1>5 DEF ReadOk
    <2>2. call.event \in Event
      BY <1>0, <2>1, CallFields DEF TypeOK
    <2>3. Answering(Head(down)) /\ Head(down).type # "EVENT"
      BY <1>0, <2>1, <2>2 DEF Answering
    <2>6. ~abandoned => Unasked(up) /\ Unanswered(down')
      BY <1>0, <2>1, <2>3, EndQuiet
    <2>4. CASE SendThenWait("REQ", "stored")
      BY <1>0, <2>1, <2>6, <2>4, SendsInStep
    <2>5. CASE up' = up /\ \E r \in {"rejected", "ok"} : Finish(r, TRUE)
      BY <1>0, <2>1, <2>6, <2>5, Ends DEF ClientInv, AuthIsReal, relayVars
    <2> QED
      BY <1>5, <2>4, <2>5 DEF ReadOk
  <1>6. CASE ReadServed
    <2>1. Reads("stored", {"EVENT"}) /\ UNCHANGED <<up, authenticated, last, abandoned>>
      BY <1>6 DEF ReadServed, Continue
    <2>2. /\ call'.event = call.event /\ call'.wait = call.wait /\ call' # Idle
          /\ call'.found = (call.found \/ Head(down).id = call.event)
      BY <1>0, <1>6, <2>1 DEF ReadServed, Continue, Idle
    <2>3. ASSUME ~abandoned
          PROVE  InStep(up', down', call', stored')
      <3>1. Answers(Head(down), call)
        <4>1. Answering(Head(down))
          BY <1>0, <2>1 DEF Answering
        <4> QED
          BY <1>0, <2>1, <2>3, <4>1, HeadAnswers
      <3>2. call'.found
        <4>1. call.wait = "stored" /\ Head(down).type = "EVENT"
          BY <1>0, <2>1
        <4>2. Head(down).id = call.event
          BY <3>1, <4>1 DEF Answers
        <4> QED
          BY <2>2, <4>2
      <3>3. /\ \A f : Answers(f, call) => Answers(f, call')
            /\ \A f : Asks(f, call) => Asks(f, call')
        BY <2>2 DEF Answers, Asks
      <3>4. InStep(up, Tail(down), call', stored)
        BY <1>0, <2>1, <2>3, <3>2, <3>3, TakenInStep
      <3> QED
        BY <1>0, <2>1, <3>4 DEF relayVars
    <2>4. open' \/ up' = <<>>
      BY <1>0, <2>1 DEF ClientInv
    <2> QED
      BY <1>0, <2>1, <2>3, <2>4, GoesOn DEF relayVars
  <1>7. CASE ReadEndOfStored
    <2> DEFINE f == [type |-> "CLOSE", id |-> AuthId]
               r == IF call.op = "has_event" THEN (IF call.found THEN "true" ELSE "false")
                    ELSE (IF call.found THEN "ok" ELSE "not_retrievable")
    <2>1. Reads("stored", {"EOSE"}) /\ authenticated' = authenticated
      BY <1>7 DEF ReadEndOfStored
    <2>2. Finish(r, TRUE) /\ (r \in {"false", "not_retrievable"} => ~call.found)
      BY <1>7 DEF ReadEndOfStored
    <2>8. Answering(Head(down)) /\ Head(down).type = "EOSE"
      BY <1>0, <2>1 DEF Answering
    <2>3. ~abandoned => /\ Unasked(up) /\ Unanswered(down')
                        /\ call.event \in stored => call.found
      BY <1>0, <2>1, <2>8, EndQuiet
    <2>4. ~Asking(f)
      BY DEF Asking
    <2>5. (up' = up /\ ~open) \/ (up' = Append(up, f) /\ open)
      BY <1>7 DEF ReadEndOfStored
    <2> HIDE DEF f, r
    <2>6. ~abandoned => Unasked(up')
      BY <2>3, <2>4, <2>5, UnaskedPut DEF TypeOK
    <2>7. open' \/ up' = <<>>
      BY <1>0, <2>1, <2>5 DEF ClientInv
    <2> QED
      BY <1>0, <2>1, <2>2, <2>3, <2>6, <2>7, Ends DEF ClientInv, AuthIsReal, relayVars
  <1>8. CASE ReadIgnored
    <2>1. PICK w, types : Reads(w, types)
      BY <1>8 DEF ReadIgnored
    <2>2. UNCHANGED <<up, authenticated, call, last, abandoned>>
      BY <1>8 DEF ReadIgnored
    <2>3. ~Answers(Head(down), call)
      BY <1>8 DEF ReadIgnored, Reads, Answers
    <2>4. ASSUME ~abandoned
          PROVE  InStep(up', down', call', stored')
      <3>1. ~Answering(Head(down))
        BY <1>0, <2>1, <2>3, <2>4, TakenAt DEF InStep
      <3>2. InStep(up, Tail(down), call, stored)
        BY <1>0, <2>1, <2>4, <3>1, TakenInStep
      <3> QED
        BY <1>0, <2>1, <2>2, <3>2 DEF relayVars
    <2>5. open' \/ up' = <<>>
      BY <1>0, <2>1, <2>2 DEF ClientInv
    <2> QED
      BY <1>0, <2>1, <2>2, <2>4, <2>5, GoesOn DEF relayVars
  <1>9. CASE ReadEnd
    <2>1. down = <<>> /\ ~open /\ Finish("transport", TRUE)
          /\ UNCHANGED <<up, down, open, relayVars, authenticated>>
      BY <1>9 DEF ReadEnd
    <2>2. up' = <<>> /\ down' = <<>>
      BY <2>1 DEF ClientInv
    <2>3. Unasked(up') /\ Unanswered(down')
      BY <2>2 DEF Unasked, Unanswered
    <2> QED
      BY <2>1, <2>2, <2>3, Ends DEF ClientInv, AuthIsReal, relayVars
  <1> QED
    BY <1>2, <1>3, <1>4, <1>5, <1>6, <1>7, <1>8, <1>9 DEF ClientReads

LEMMA AnswersInStep ==
  ASSUME TypeOK, ClientInv, AuthBacked', RelayAnswers
  PROVE  ClientInv'
  <1>1. /\ up # <<>> /\ up' = Tail(up) /\ Head(up) \in ClientFrame /\ up \in Seq(ClientFrame)
        /\ UNCHANGED <<open, authenticated, call, last, abandoned>>
        /\ admitted => admitted'
        /\ ~abandoned => InStep(up, down, call, stored)
    BY Taken DEF RelayAnswers, RelayAuth, RelayEvent, RelayReq, RelayClose, Received, Reply,
                 TypeOK, ClientInv
  <1>2. open' \/ up' = <<>>
    BY <1>1 DEF ClientInv
  <1>3. CASE RelayAuth
    <2>1. PICK flag : Reply(<<OK(AuthId, flag)>>) /\ stored' = stored
      BY <1>3 DEF RelayAuth
    <2>2. down' = Append(down, OK(AuthId, flag)) /\ ~Asking(Head(up))
      BY <1>3, <2>1 DEF RelayAuth, Received, Reply, Asking, TypeOK
    <2>3. ~Answering(OK(AuthId, flag))
      BY RelayAssumption DEF Answering, OK
    <2>4. ~abandoned => InStep(Tail(up), down, call, stored)
      BY <1>1, <2>2, SentInStep
    <2>5. ~abandoned => InStep(Tail(up), Append(down, OK(AuthId, flag)), call, stored)
      BY <2>3, <2>4, PutInStep DEF TypeOK
    <2> QED
      BY <1>1, <1>2, <2>1, <2>2, <2>5, StaysPut
  <1>4. CASE RelayClose
    <2>1. down' = down /\ stored' = stored /\ ~Asking(Head(up))
      BY <1>4 DEF RelayClose, Received, Reply, Asking, TypeOK
    <2>2. ~abandoned => InStep(Tail(up), down, call, stored)
      BY <1>1, <2>1, SentInStep
    <2> QED
      BY <1>1, <1>2, <2>1, <2>2, StaysPut
  <1>5. ASSUME RelayEvent \/ RelayReq, ~abandoned
        PROVE  Asks(Head(up), call) /\ Unasked(up') /\ Unanswered(down) /\ call # Idle
    <2>1. Asking(Head(up))
      BY <1>5 DEF RelayEvent, RelayReq, Received, Asking
    <2>2. Asks(Head(up), call) /\ Unasked(Tail(up)) /\ Unanswered(down)
      BY <1>1, <1>5, <2>1, AskedAlone
    <2> QED
      BY <1>1, <2>2 DEF Asks
  <1>6. CASE abandoned
    BY <1>1, <1>2, <1>6 DEF ClientInv, Settled, NotServedIsTrue, AuthIsReal
  <1>7. CASE RelayEvent /\ ~abandoned
    <2>1. PICK flag : Reply(<<OK(Head(up).id, flag)>>)
      BY <1>7 DEF RelayEvent
    <2> DEFINE f == OK(Head(up).id, flag)
    <2>2. down' = Append(down, f)
      BY <2>1 DEF Reply, TypeOK
    <2>3. Answers(f, call) /\ f.type = "OK"
      BY <1>5, <1>7 DEF RelayEvent, Received, Asks, Answers, OK
    <2> HIDE DEF f
    <2>4. InStep(up', Append(down, f), call, stored')
      BY <1>5, <1>7, <2>3, AnswerInStep DEF TypeOK
    <2> QED
      BY <1>1, <1>2, <1>5, <1>7, <2>2, <2>4, GoesOn
  <1>8. CASE RelayReq /\ ~abandoned
    <2>1. /\ stored' = stored /\ call.wait = "stored" /\ Head(up).id = call.event
      BY <1>5, <1>8 DEF RelayReq, Received, Asks
    <2>2. CASE down' = Append(down, Control("CLOSED"))
      <3>1. ~Answering(Control("CLOSED"))
        BY DEF Answering, Control
      <3>2. InStep(up', down, call, stored)
        BY <1>5, <1>8, QuietInStep
      <3>3. InStep(up', Append(down, Control("CLOSED")), call, stored)
        BY <3>1, <3>2, PutInStep DEF TypeOK
      <3> QED
        BY <1>1, <1>2, <2>1, <2>2, <3>3, StaysPut
    <2>3. Answers(Control("EOSE"), call) /\ Control("EOSE").type = "EOSE"
      BY <1>5, <1>8, <2>1 DEF Answers, Control
    <2>4. CASE down' = Append(down, Control("EOSE")) /\ call.event \notin stored
      <3>1. InStep(up', Append(down, Control("EOSE")), call, stored)
        BY <1>5, <1>8, <2>3, <2>4, AnswerInStep DEF TypeOK
      <3> QED
        BY <1>1, <1>2, <2>1, <2>4, <3>1, StaysPut
    <2>5. CASE down' = Append(Append(down, Served(Head(up).id)), Control("EOSE"))
      <3> DEFINE f == Served(Head(up).id)
      <3>1. Answers(f, call) /\ f.type = "EVENT"
        BY <1>5, <1>8, <2>1 DEF Answers, Served
      <3>2. f \in RelayFrame
        BY <1>1, <1>8 DEF RelayReq, Received, ClientFrame, RelayFrame
      <3> HIDE DEF f
      <3>3. InStep(up', Append(Append(down, f), Control("EOSE")), call, stored)
        BY <1>5, <1>8, <2>3, <3>1, <3>2, ServedInStep DEF TypeOK
      <3> QED
        BY <1>1, <1>2, <2>1, <2>5, <3>3, StaysPut DEF f
    <2> QED
      BY <1>8, <2>1, <2>2, <2>4, <2>5, SMTT(30) DEF RelayReq, Reply, TypeOK
  <1> QED
    BY <1>3, <1>4, <1>6, <1>7, <1>8 DEF RelayAnswers

LEMMA ClientStep == TypeOK /\ ClientInv /\ [Next]_vars => ClientInv'
  <1> SUFFICES ASSUME TypeOK, ClientInv, [Next]_vars
               PROVE  ClientInv'
    OBVIOUS
  <1>0. AuthBacked'
    BY AuthStep DEF ClientInv
  <1>1. CASE Authenticate
    BY <1>0, <1>1, BeginsInStep DEF Authenticate
  <1>2. ASSUME NEW e \in Event, Publish(e) \/ PublishVerified(e) \/ HasEvent(e)
        PROVE  ClientInv'
    BY <1>0, <1>2, BeginsInStep DEF Publish, PublishVerified, HasEvent
  <1>3. CASE Drop
    BY <1>0, <1>3, Abandons DEF Drop
  <1>4. ASSUME NEW type \in {"NOTICE", "malformed", "AUTH", "CLOSED"}, RelaySends(type)
        PROVE  ClientInv'
    <2>1. ~Answering(Control(type)) /\ down' = Append(down, Control(type))
      BY <1>4 DEF Answering, Control, RelaySends
    <2>2. ~abandoned => InStep(up, Append(down, Control(type)), call, stored)
      BY <2>1, PutInStep DEF ClientInv, TypeOK
    <2> QED
      BY <1>0, <1>4, <2>1, <2>2, StaysPut DEF RelaySends, ClientInv
  <1>5. CASE RelayHangsUp
    <2>1. up' = <<>> /\ UNCHANGED <<down, relayVars, authenticated, call, last, abandoned>>
      BY <1>5 DEF RelayHangsUp
    <2>2. ~abandoned => InStep(<<>>, down, call, stored)
      BY DEF ClientInv, InStep, Unasked
    <2> QED
      BY <1>0, <2>1, <2>2, StaysPut DEF relayVars
  <1>6. CASE UNCHANGED vars
    BY <1>6 DEF vars, relayVars, ClientInv, AuthBacked, Settled, NotServedIsTrue, AuthIsReal
  <1> QED
    BY <1>0, <1>1, <1>2, <1>3, <1>4, <1>5, <1>6, ReadsInStep, AnswersInStep DEF Next

LEMMA ClientInit == Init => ClientInv
  <1> SUFFICES ASSUME Init
               PROVE  ClientInv
    OBVIOUS
  <1>1. Control("AUTH") \in Admitting(admitted) /\ ~Answering(Control("AUTH"))
    BY DEF Admitting, RelayFrame, Control, Answering
  <1>2. <<>> \in Seq(Admitting(admitted)) /\ <<Control("AUTH")>> \in Seq(Admitting(admitted))
    BY <1>1
  <1>3. Unanswered(<<>>) /\ Unanswered(<<Control("AUTH")>>) /\ Unasked(<<>>)
    BY <1>1 DEF Unanswered, Unasked
  <1>4. AuthBacked /\ Unanswered(down) /\ Unasked(up)
    BY <1>2, <1>3 DEF Init, AuthBacked
  <1>5. InStep(up, down, call, stored)
    BY <1>4, QuietInStep
  <1> QED
    BY <1>4, <1>5 DEF Init, ClientInv, Settled, NotServedIsTrue, AuthIsReal

\* has_event says no, and publish_verified gives up, only about an event the
\* relay does not serve, if every earlier call ended on its own answer.
THEOREM NotServedIsTrueHolds == Spec => []NotServedIsTrue
  <1>1. ClientInv => NotServedIsTrue
    BY DEF ClientInv
  <1> QED
    BY <1>1, ClientInit, ClientStep, TypeCorrect, PTL DEF Spec

\* The client takes itself for authenticated only when the relay has accepted
\* its auth event, under the same proviso.
THEOREM AuthIsRealHolds == Spec => []AuthIsReal
  <1>1. ClientInv => AuthIsReal
    BY DEF ClientInv
  <1> QED
    BY <1>1, ClientInit, ClientStep, TypeCorrect, PTL DEF Spec
=============================================================================
