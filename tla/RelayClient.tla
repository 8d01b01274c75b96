------------------------------ MODULE RelayClient ------------------------------
(***************************************************************************)
(* The connection that carries receipts to a Nostr relay (nostr_relay.rs): *)
(* authenticate, publish, publish_verified and has_event read one stream   *)
(* of frames and have to tell which of them answers what they asked.       *)
(*                                                                         *)
(* Both directions are first in, first out.  The relay is outside of the   *)
(* repository: it may refuse, accept without storing, say something that   *)
(* is neither yes nor no, end a subscription, send what nobody asked for,  *)
(* or hang up.  The future of a call may be dropped while it reads, by a   *)
(* caller's timeout or select!; the connection is then used again.         *)
(***************************************************************************)
EXTENDS Naturals, Sequences

CONSTANTS
  Event,    \* the events to publish
  AuthId,   \* the id of the event that answers a challenge
  MaxCalls, \* bound on the calls made
  MaxDrops, \* bound on the calls dropped
  MaxNoise  \* bound on the frames the relay sends unasked

ASSUME RelayAssumption ==
  /\ AuthId \notin Event
  /\ MaxCalls \in Nat /\ MaxDrops \in Nat /\ MaxNoise \in Nat

VARIABLES
  up,            \* frames on their way to the relay
  down,          \* frames on their way to the client
  open,          \* the relay has not closed the connection
  admitted,      \* the relay has accepted this client's auth event
  stored,        \* the events that the relay serves
  accepted,      \* history: the events the relay said yes to
  subscribed,    \* zb-verify is open at the relay
  noise,
  authenticated, \* RelayClient::authenticated
  call,          \* the call in progress
  last,          \* the result of the last call
  calls,
  drops,
  abandoned      \* history: a call ended on a frame that was not its answer

relayVars == <<admitted, stored, accepted, subscribed, noise>>
vars == <<up, down, open, relayVars, authenticated, call, last, calls, drops,
          abandoned>>

-----------------------------------------------------------------------------
(* Frames *)

Flag == {"true", "false", "unclear"}
Control(type) == [type |-> type, id |-> AuthId, flag |-> "unclear"]
OK(id, flag) == [type |-> "OK", id |-> id, flag |-> flag]
Served(id) == [type |-> "EVENT", id |-> id, flag |-> "unclear"]

ClientFrame == [type : {"EVENT", "REQ"}, id : Event]
                 \cup [type : {"AUTH", "CLOSE"}, id : {AuthId}]
RelayFrame ==
  [type : {"OK"}, id : Event \cup {AuthId}, flag : Flag]
    \cup {Served(e) : e \in Event}
    \cup {Control(t) : t \in {"AUTH", "EOSE", "CLOSED", "NOTICE", "malformed"}}

\* Mutant: whatever is not a clear no is a yes.
AcceptedUnlessFalse(frame) == frame.flag # "false"

\* parse_frame: a flag that is not the boolean true is not a yes.
Accepted(frame) == frame.flag = "true"

Op == {"authenticate", "publish", "publish_verified", "has_event"}
Wait == {"challenge", "auth_ok", "ok", "stored"}
Idle == [op |-> "none"]
Calling(op, events, waits) ==
  [op : {op}, event : events, wait : waits, found : BOOLEAN]
Call ==
  Calling("authenticate", {AuthId}, {"challenge", "auth_ok"})
    \cup Calling("publish", Event, {"ok"})
    \cup Calling("publish_verified", Event, {"ok", "stored"})
    \cup Calling("has_event", Event, {"stored"})
Result == {"none", "ok", "true", "false", "auth_failed", "rejected",
           "not_retrievable", "transport", "malformed", "dropped"}
Outcome == [op : Op \cup {"none"}, event : Event \cup {AuthId}, result : Result]

Init ==
  /\ up = <<>>
  /\ down \in {<<>>, <<Control("AUTH")>>}
  /\ open = TRUE
  /\ admitted = FALSE
  /\ stored = {} /\ accepted = {}
  /\ subscribed = FALSE
  /\ noise = 0
  /\ authenticated = FALSE
  /\ call = Idle
  /\ last = [op |-> "none", event |-> AuthId, result |-> "none"]
  /\ calls = 0
  /\ drops = 0
  /\ abandoned = FALSE

-----------------------------------------------------------------------------
(* The relay, which is not part of the repository *)

Reply(frames) ==
  /\ up' = Tail(up)
  /\ down' = down \o frames
  /\ UNCHANGED <<open, noise, authenticated, call, last, calls, drops, abandoned>>

Received(type) == up # <<>> /\ Head(up).type = type

RelayAuth ==
  /\ Received("AUTH")
  /\ \E flag \in Flag :
       /\ Reply(<<OK(AuthId, flag)>>)
       /\ admitted' = (admitted \/ flag = "true")
  /\ UNCHANGED <<stored, accepted, subscribed>>

RelayEvent ==
  /\ Received("EVENT")
  /\ LET e == Head(up).id IN
     \E flag \in Flag :
       /\ Reply(<<OK(e, flag)>>)
       /\ stored' \in {stored, IF flag = "false" THEN stored ELSE stored \cup {e}}
       /\ accepted' = IF flag = "true" THEN accepted \cup {e} ELSE accepted
  /\ UNCHANGED <<admitted, subscribed>>

RelayReq ==
  /\ Received("REQ")
  /\ LET e == Head(up).id IN
     \/ /\ Reply(<<Control("CLOSED")>>)
        /\ subscribed' = FALSE
     \/ /\ Reply(IF e \in stored THEN <<Served(e), Control("EOSE")>>
                                 ELSE <<Control("EOSE")>>)
        /\ subscribed' = TRUE
  /\ UNCHANGED <<admitted, stored, accepted>>

RelayClose ==
  /\ Received("CLOSE")
  /\ Reply(<<>>)
  /\ subscribed' = FALSE
  /\ UNCHANGED <<admitted, stored, accepted>>

RelayAnswers == RelayAuth \/ RelayEvent \/ RelayReq \/ RelayClose

\* A notice, a frame that is not JSON, another challenge, or the end of a
\* subscription that was open.
RelaySends(type) ==
  /\ open
  /\ noise < MaxNoise
  /\ noise' = noise + 1
  /\ type = "CLOSED" => subscribed
  /\ subscribed' = (subscribed /\ type # "CLOSED")
  /\ down' = Append(down, Control(type))
  /\ UNCHANGED <<up, open, admitted, stored, accepted, authenticated,
                 call, last, calls, drops, abandoned>>

RelayHangsUp ==
  /\ open
  /\ open' = FALSE
  /\ up' = <<>>
  /\ UNCHANGED <<down, relayVars, authenticated, call, last, calls, drops, abandoned>>

-----------------------------------------------------------------------------
(* The client: how a call begins, goes on and ends *)

Finish(result, answered) ==
  /\ call' = Idle
  /\ last' = [op |-> call.op, event |-> call.event, result |-> result]
  /\ abandoned' = (abandoned \/ ~answered)

Continue(wait, found) ==
  /\ call' = [op |-> call.op, event |-> call.event, wait |-> wait, found |-> found]
  /\ UNCHANGED <<last, abandoned>>

\* Nothing can be sent once the connection is closed.
SendThenWait(type, wait) ==
  IF open
  THEN up' = Append(up, [type |-> type, id |-> call.event]) /\ Continue(wait, FALSE)
  ELSE up' = up /\ Finish("transport", TRUE)

Begin(op, e, wait) ==
  /\ call = Idle
  /\ calls < MaxCalls
  /\ calls' = calls + 1
  /\ LET sent == CASE wait = "ok" -> <<[type |-> "EVENT", id |-> e]>>
                   [] wait = "stored" -> <<[type |-> "REQ", id |-> e]>>
                   [] OTHER -> <<>>
         works == open \/ sent = <<>>
     IN  /\ up' = IF works THEN up \o sent ELSE up
         /\ call' = IF works
                    THEN [op |-> op, event |-> e, wait |-> wait, found |-> FALSE]
                    ELSE Idle
         /\ last' = [op |-> op, event |-> e,
                     result |-> IF works THEN "none" ELSE "transport"]
  /\ UNCHANGED <<down, open, relayVars, authenticated, drops, abandoned>>

Authenticate == Begin("authenticate", AuthId, "challenge")
Publish(e) == Begin("publish", e, "ok")
PublishVerified(e) == Begin("publish_verified", e, "ok")
HasEvent(e) == Begin("has_event", e, "stored")

-----------------------------------------------------------------------------
(* The client: read and what each call makes of a frame *)

Reads(wait, types) ==
  /\ call # Idle
  /\ call.wait = wait
  /\ down # <<>>
  /\ Head(down).type \in types
  /\ down' = Tail(down)
  /\ UNCHANGED <<open, relayVars, calls, drops>>

ReadChallenge ==
  /\ Reads("challenge", {"AUTH"})
  /\ SendThenWait("AUTH", "auth_ok")
  /\ UNCHANGED authenticated

\* Any OK is taken for the answer: its event id is not looked at.
ReadAuthOk ==
  /\ Reads("auth_ok", {"OK"})
  /\ authenticated' = (authenticated \/ Accepted(Head(down)))
  /\ Finish(IF Accepted(Head(down)) THEN "ok" ELSE "auth_failed", TRUE)
  /\ UNCHANGED up

ReadUnexpected ==
  /\ \/ Reads("challenge", {"OK", "EVENT", "EOSE", "CLOSED"})
     \/ Reads("auth_ok", {"AUTH", "EVENT", "EOSE", "CLOSED"})
  /\ Finish("auth_failed", FALSE)
  /\ UNCHANGED <<up, authenticated>>

ReadOk ==
  /\ Reads("ok", {"OK"})
  /\ Head(down).id = call.event
  /\ IF ~Accepted(Head(down)) THEN up' = up /\ Finish("rejected", TRUE)
     ELSE IF call.op = "publish" THEN up' = up /\ Finish("ok", TRUE)
     ELSE SendThenWait("REQ", "stored")
  /\ UNCHANGED authenticated

\* The end of any subscription is taken for a refusal of the event.
ReadClosedPublishing ==
  /\ Reads("ok", {"CLOSED"})
  /\ Finish("rejected", FALSE)
  /\ UNCHANGED <<up, authenticated>>

\* Mutant: what comes under the subscription is taken for what was asked.
ReadServedAny ==
  /\ Reads("stored", {"EVENT"})
  /\ Continue("stored", TRUE)
  /\ UNCHANGED <<up, authenticated>>

\* Mutant: that the event was served is forgotten by the end of the stored.
ReadServedForgets ==
  /\ Reads("stored", {"EVENT"})
  /\ Continue("stored", FALSE)
  /\ UNCHANGED <<up, authenticated>>

ReadServed ==
  /\ Reads("stored", {"EVENT"})
  /\ Continue("stored", call.found \/ Head(down).id = call.event)
  /\ UNCHANGED <<up, authenticated>>

\* The subscription is closed again; whether that could be sent is not asked.
ReadEndOfStored ==
  /\ Reads("stored", {"EOSE"})
  /\ up' = IF open THEN Append(up, [type |-> "CLOSE", id |-> AuthId]) ELSE up
  /\ Finish(IF call.op = "has_event" THEN (IF call.found THEN "true" ELSE "false")
            ELSE (IF call.found THEN "ok" ELSE "not_retrievable"), TRUE)
  /\ UNCHANGED authenticated

\* Mutant: the relay's refusal of the subscription is passed over.
ReadClosedIgnored ==
  /\ Reads("stored", {"CLOSED"})
  /\ UNCHANGED <<up, authenticated, call, last, abandoned>>

ReadClosedVerifying ==
  /\ Reads("stored", {"CLOSED"})
  /\ Finish("transport", FALSE)
  /\ UNCHANGED <<up, authenticated>>

\* What each loop passes over.
ReadIgnored ==
  /\ \/ Reads("challenge", {"NOTICE"})
     \/ Reads("auth_ok", {"NOTICE"})
     \/ Reads("ok", {"NOTICE", "AUTH", "EVENT", "EOSE"})
     \/ Reads("ok", {"OK"}) /\ Head(down).id # call.event
     \/ Reads("stored", {"NOTICE", "AUTH", "OK"})
  /\ UNCHANGED <<up, authenticated, call, last, abandoned>>

ReadMalformed ==
  /\ \E wait \in Wait : Reads(wait, {"malformed"})
  /\ Finish("malformed", FALSE)
  /\ UNCHANGED <<up, authenticated>>

\* The stream is over.
ReadEnd ==
  /\ call # Idle
  /\ down = <<>>
  /\ ~open
  /\ Finish("transport", TRUE)
  /\ UNCHANGED <<up, down, open, relayVars, authenticated, calls, drops>>

\* The caller drops the future at the await of read.
Drop ==
  /\ call # Idle
  /\ drops < MaxDrops
  /\ drops' = drops + 1
  /\ Finish("dropped", FALSE)
  /\ UNCHANGED <<up, down, open, relayVars, authenticated, calls>>

ClientReads ==
  \/ ReadChallenge \/ ReadAuthOk \/ ReadUnexpected
  \/ ReadOk \/ ReadClosedPublishing
  \/ ReadServed \/ ReadEndOfStored \/ ReadClosedVerifying
  \/ ReadIgnored \/ ReadMalformed \/ ReadEnd

Next ==
  \/ Authenticate
  \/ \E e \in Event : Publish(e) \/ PublishVerified(e) \/ HasEvent(e)
  \/ ClientReads
  \/ Drop
  \/ RelayAnswers
  \/ \E type \in {"NOTICE", "malformed", "AUTH", "CLOSED"} : RelaySends(type)
  \/ RelayHangsUp

Spec == Init /\ [][Next]_vars

\* The runtime polls the call whenever a frame is there.  That the relay
\* answers what it receives is assumed of it, and only for CallEnds.
FairSpec == Spec /\ WF_vars(ClientReads) /\ WF_vars(RelayAnswers)

-----------------------------------------------------------------------------
(* Properties of the code *)

\* The frames, the call and its result keep their types.
TypeOK ==
  /\ up \in Seq(ClientFrame)
  /\ down \in Seq(RelayFrame)
  /\ open \in BOOLEAN /\ admitted \in BOOLEAN /\ subscribed \in BOOLEAN
  /\ stored \subseteq Event /\ accepted \subseteq Event
  /\ noise \in 0..MaxNoise
  /\ authenticated \in BOOLEAN /\ abandoned \in BOOLEAN
  /\ call \in {Idle} \cup Call
  /\ last \in Outcome
  /\ calls \in 0..MaxCalls /\ drops \in 0..MaxDrops

\* "An OK is not believed": publish_verified succeeds, and has_event answers
\* yes, only for an event that the relay serves, whatever stale frames of
\* dropped or failed calls lie in the stream before the answer.
VerifiedIsServed ==
  \/ last.op = "publish_verified" /\ last.result = "ok"
  \/ last.result = "true"
  => last.event \in stored

\* publish succeeds only when the relay has said a clear yes to this event: a
\* yes about another event, or an answer that is not a boolean, is not enough.
PublishedIsAccepted ==
  last.op = "publish" /\ last.result = "ok" => last.event \in accepted

\* An event is reported as not served only when the relay did not serve it at
\* the time of the call, provided that every earlier call on the connection
\* ended on its own answer.  (The subscription's id is a constant, so the end
\* of an abandoned one is taken for the end of the next.)
NotServedIsTrue ==
  last.result \in {"false", "not_retrievable"} /\ ~abandoned
  => last.event \notin stored

\* The client believes itself authenticated only when the relay has accepted
\* its auth event, under the same proviso.  (The id of an OK is not compared.)
AuthIsReal == authenticated /\ ~abandoned => admitted

\* A call ends whatever the relay answers, refuses or sends unasked, unless it
\* is authenticate and waits for a challenge that nobody sends: an earlier
\* loop may have passed over it, and nothing here has a timeout.
CallEnds ==
  call # Idle ~> \/ call = Idle
                 \/ call.wait = "challenge" /\ open /\ down = <<>>
=============================================================================
