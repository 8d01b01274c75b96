------------------------------- MODULE Steward -------------------------------
(***************************************************************************)
(* The native steward of omo-diagnostic (bin/steward.rs and src/agent).    *)
(* Readers call handle_line for each diagnostic a language emits: the      *)
(* White Court decides, the diagnostic goes into the channel of the        *)
(* processor loop, and a security diagnostic is then submitted to the      *)
(* guardian and its receipt verified.  Meanwhile the loop archives what it *)
(* receives, applies it to the Reality VM and executes repairs.  The       *)
(* readers, the network and the guardian's host are the environment.       *)
(***************************************************************************)
EXTENDS Naturals, Sequences, FiniteSets

CONSTANTS
  Diag,      \* the diagnostics that are emitted
  Threshold, \* auto_merge_threshold
  Capacity,  \* of the channel
  Reader,    \* tasks that call handle_line
  MaxKeys,   \* bound on the keys the guardian has had
  Refused,   \* codes whose intent the kernel's validators refuse
  Receipt,   \* identifiers of the guardian's receipts
  MaxLines   \* bound on the lines of one behaviour

Severity == 0..2 \* Info, Warning, Error
Category == {"type", "logic", "security", "receipt", "identity", "rhythm"}
Strategy == {"none", "auto", "manual", "hybrid"}

ASSUME StewardAssumption ==
  /\ \A d \in Diag : /\ d.severity \in Severity
                     /\ d.category \subseteq Category
                     /\ d.sabbath_active \in BOOLEAN
                     /\ d.introspection \in BOOLEAN
                     /\ d.strategy \in Strategy
  /\ Threshold \in Severity
  /\ {Capacity, MaxKeys} \subseteq Nat \ {0} /\ MaxLines \in Nat

VARIABLES
  loop,      \* the place of main()
  chan,      \* the channel of the loop
  call,      \* what each reader's call of handle_line is doing
  archive,   \* files of ops/archive
  applied,   \* how often current_state holds the task of a diagnostic
  pubkey,    \* the guardian's key as fetched when the steward started
  key,       \* the guardian's key now
  signed,    \* signatures the guardian has given
  lines,     \* lines read
  accepted,  \* history: how often each diagnostic entered the channel
  taken,     \* history: how often the loop received it
  promised,  \* history: how often handle_line answered LocalRepairEligible
  attempted, \* history: how often execute_repair ended
  verified   \* history: what handle_line answered VerifiedOnChain for

vmVars == <<archive, applied, taken, attempted>>
guardVars == <<pubkey, key, signed, verified>>
stewardVars == <<loop, chan, call, vmVars, guardVars, lines, accepted, promised>>

Idle == [at |-> "idle"]
Receiving == [at |-> "recv"]
SecurityCategories == {"security", "identity"}
IsSecurity(d) == d.category \cap SecurityCategories # {}

\* What is submitted and signed: neither the trace id nor the source.
Payload(d) == [code |-> d.code, severity |-> d.severity, category |-> d.category,
               sabbath_active |-> d.sabbath_active, introspection |-> d.introspection,
               strategy |-> IF d.strategy = "none" THEN "manual" ELSE d.strategy]

Signature(id, d, k) == [id |-> id, payload |-> Payload(d), key |-> k]

StewardInit ==
  /\ loop = [at |-> "boot"]
  /\ chan = <<>>
  /\ call = [r \in Reader |-> Idle]
  /\ archive = {}
  /\ applied = [d \in Diag |-> 0]
  /\ key = 1 /\ pubkey = 1
  /\ signed = {} /\ verified = {}
  /\ lines = 0
  /\ accepted = [d \in Diag |-> 0]
  /\ taken = [d \in Diag |-> 0]
  /\ promised = [d \in Diag |-> 0]
  /\ attempted = [d \in Diag |-> 0]

-----------------------------------------------------------------------------
(* WhiteCourt::arbitrate and should_auto_merge *)

Arbitrate(d) ==
  CASE d.sabbath_active -> "reject"
    [] "identity" \in d.category -> "escalate"
    [] d.introspection -> "reject"
    [] d.severity = 2 /\ "security" \in d.category -> "escalate"
    [] OTHER -> "approve"

\* Mutant: the category is left to the court.
AutoMergeAnyCategory(d) == d.severity <= Threshold /\ d.strategy = "auto"

ShouldAutoMerge(d) ==
  /\ d.severity <= Threshold
  /\ ~IsSecurity(d)
  /\ d.strategy = "auto"

-----------------------------------------------------------------------------
(* handle_line *)

Answered(r) == call' = [call EXCEPT ![r] = Idle]

\* A line the court rejects or escalates is answered at once.
HandleRefused(r, d) ==
  /\ Arbitrate(d) # "approve"
  /\ Answered(r)

HandleApproved(r, d) ==
  /\ Arbitrate(d) = "approve"
  /\ call' = [call EXCEPT ![r] = [at |-> "sending", diag |-> d]]

HandleLine(r, d) ==
  /\ call[r] = Idle
  /\ lines < MaxLines /\ lines' = lines + 1
  /\ HandleRefused(r, d) \/ HandleApproved(r, d)
  /\ UNCHANGED <<loop, chan, vmVars, guardVars, accepted, promised>>

\* What follows the send: a security diagnostic is submitted, another one is
\* answered, eligible for a local repair or left to a human.
AfterSend(r, d) ==
  \/ /\ IsSecurity(d)
     /\ call' = [call EXCEPT ![r] = [at |-> "submitting", diag |-> d]]
     /\ UNCHANGED promised
  \/ /\ ~IsSecurity(d)
     /\ Answered(r)
     /\ promised' = IF ShouldAutoMerge(d)
                    THEN [promised EXCEPT ![d] = @ + 1] ELSE promised

\* Mutant: the send does not wait for room.
SendUnbounded(r) ==
  /\ call[r].at = "sending"
  /\ LET d == call[r].diag
     IN  /\ chan' = Append(chan, d)
         /\ accepted' = [accepted EXCEPT ![d] = @ + 1]
         /\ AfterSend(r, d)
  /\ UNCHANGED <<loop, vmVars, guardVars, lines>>

Send(r) ==
  /\ call[r].at = "sending"
  /\ Len(chan) < Capacity
  /\ LET d == call[r].diag
     IN  /\ chan' = Append(chan, d)
         /\ accepted' = [accepted EXCEPT ![d] = @ + 1]
         /\ AfterSend(r, d)
  /\ UNCHANGED <<loop, vmVars, guardVars, lines>>

\* POST /diagnostics reaches the guardian, which signs the payload as it is.
Submit(r, id) ==
  /\ call[r].at = "submitting"
  /\ \A s \in signed : s.id # id
  /\ signed' = signed \cup {Signature(id, call[r].diag, key)}
  /\ call' = [call EXCEPT ![r].at = "submitted"]
  /\ UNCHANGED <<loop, chan, vmVars, pubkey, key, verified, lines, accepted, promised>>

\* Mutant: the signature is checked against the receipt id alone.
VerifySignatureOfId(id, d, sig) == sig.id = id /\ sig.key = pubkey

VerifySignature(id, d, sig) == sig = Signature(id, d, pubkey)

\* The answer that arrives may be the one to another request; one that does
\* not verify is answered with SignatureInvalid.
ReceiptArrives(r, sig) ==
  /\ call[r].at = "submitted"
  /\ LET d == call[r].diag
     IN  verified' = IF VerifySignature(sig.id, d, sig)
                     THEN verified \cup {[diag |-> d, id |-> sig.id]} ELSE verified
  /\ Answered(r)
  /\ UNCHANGED <<loop, chan, vmVars, pubkey, key, signed, lines, accepted, promised>>

\* The request or its answer is lost: handle_line returns the error.
SubmitFails(r) ==
  /\ call[r].at \in {"submitting", "submitted"}
  /\ Answered(r)
  /\ UNCHANGED <<loop, chan, vmVars, guardVars, lines, accepted, promised>>

-----------------------------------------------------------------------------
(* main *)

Boot ==
  /\ loop.at = "boot"
  /\ loop' = Receiving
  /\ pubkey' = key
  /\ UNCHANGED <<chan, call, vmVars, key, signed, verified, lines, accepted, promised>>

File(d) == <<d.code, d.trace_id>>

\* Mutant: a refused transition ends the turn of the loop.
AfterTransitionRefused(d) ==
  loop' = IF ShouldAutoMerge(d) /\ d.code \notin Refused
          THEN [at |-> "repairing", diag |-> d] ELSE Receiving

AfterTransition(d) ==
  loop' = IF ShouldAutoMerge(d) THEN [at |-> "repairing", diag |-> d] ELSE Receiving

\* Mutant: the diagnostic leaves the channel when its turn ends.
PeekDiagnostic ==
  /\ loop = Receiving
  /\ chan # <<>>
  /\ LET d == Head(chan)
     IN  /\ archive' \in {archive, archive \cup {File(d)}}
         /\ applied' = IF d.code \in Refused THEN applied
                       ELSE [applied EXCEPT ![d] = @ + 1]
         /\ taken' = [taken EXCEPT ![d] = @ + 1]
         /\ chan' = IF ShouldAutoMerge(d) THEN chan ELSE Tail(chan)
         /\ AfterTransition(d)
  /\ UNCHANGED <<call, guardVars, lines, accepted, promised, attempted>>

\* One turn up to the repair.  The result of store_receipt is ignored, and a
\* refused transition only logged.
ProcessDiagnostic ==
  /\ loop = Receiving
  /\ chan # <<>>
  /\ LET d == Head(chan)
     IN  /\ archive' \in {archive, archive \cup {File(d)}}
         /\ applied' = IF d.code \in Refused THEN applied
                       ELSE [applied EXCEPT ![d] = @ + 1]
         /\ taken' = [taken EXCEPT ![d] = @ + 1]
         /\ chan' = Tail(chan)
         /\ AfterTransition(d)
  /\ UNCHANGED <<call, guardVars, lines, accepted, promised, attempted>>

\* execute_repair ends, with its plan run or with no sandbox made.
EndRepair ==
  /\ loop.at = "repairing"
  /\ attempted' = [attempted EXCEPT ![loop.diag] = @ + 1]
  /\ loop' = Receiving
  /\ UNCHANGED <<chan, call, archive, applied, taken, guardVars, lines, accepted, promised>>

\* The guardian's host makes a new seed, and the next key with it: the one that
\* the steward has fetched is not fetched again.
Rekey ==
  /\ key < MaxKeys
  /\ key' = key + 1
  /\ UNCHANGED <<loop, chan, call, vmVars, pubkey, signed, verified, lines, accepted, promised>>

LoopStep == ProcessDiagnostic \/ EndRepair

StewardNext ==
  \/ Boot
  \/ LoopStep
  \/ \E r \in Reader :
       \/ loop.at # "boot" /\ \E d \in Diag : HandleLine(r, d)
       \/ Send(r)
       \/ \E id \in Receipt : Submit(r, id)
       \/ \E sig \in signed : ReceiptArrives(r, sig)
       \/ SubmitFails(r)
  \/ Rekey

StewardSpec == StewardInit /\ [][StewardNext]_stewardVars

\* The runtime polls main() when it can go on, and the cp of a sandbox ends.
StewardFairSpec == StewardSpec /\ WF_stewardVars(LoopStep)
-----------------------------------------------------------------------------
(* Properties of the code *)

\* The channel keeps its capacity, a call that waits for the guardian is about
\* a security diagnostic, and the loop repairs what it has received.
StewardTypeOK ==
  /\ loop \in {[at |-> "boot"], Receiving} \cup {[at |-> "repairing", diag |-> d] : d \in Diag}
  /\ chan \in Seq(Diag) /\ Len(chan) <= Capacity
  /\ call \in [Reader -> {Idle} \cup [at : {"sending", "submitting", "submitted"}, diag : Diag]]
  /\ \A r \in Reader : call[r].at \in {"submitting", "submitted"} => IsSecurity(call[r].diag)
  /\ archive \subseteq {File(d) : d \in Diag}
  /\ key \in 1..MaxKeys /\ pubkey \in 1..key /\ \A s \in signed : s.key \in 1..key
  /\ lines \in 0..MaxLines

\* What the court rejects or escalates leaves no trace: no file, no task of
\* the Reality VM, no receipt, no repair.  What is repaired without a human
\* is neither about security nor about an identity (todo.md:71), nor above the
\* threshold, although the loop never asks the court again.
Traces(d) == applied[d] + taken[d] + attempted[d]

RefusedLeavesNoTrace ==
  \A d \in Diag :
    /\ \/ d.sabbath_active \/ d.introspection \/ "identity" \in d.category
       \/ d.severity = 2 /\ "security" \in d.category
       => Traces(d) = 0 /\ \A v \in verified : v.diag # d
    /\ attempted[d] > 0 => /\ d.category \cap {"security", "identity"} = {}
                           /\ d.severity <= Threshold /\ d.strategy = "auto"

\* Each line let into the channel is in it or was taken by the loop, exactly
\* once: nothing is lost or repeated between a full channel, a failed archive
\* and a failed submission.  No turn applies a line twice to the Reality VM, or
\* one whose code the kernel refuses, and each line that no guardian has to see
\* is applied.  When a security diagnostic may be is asked by SignedIsTrusted.
Waiting(d) == Cardinality({i \in 1..Len(chan) : chan[i] = d})

TakenOnce ==
  \A d \in Diag :
    /\ accepted[d] = taken[d] + Waiting(d)
    /\ applied[d] <= IF d.code \in Refused THEN 0 ELSE taken[d]
    /\ ~IsSecurity(d) /\ d.code \notin Refused => applied[d] = taken[d]

\* VerifiedOnChain is answered only with a receipt that the guardian signed,
\* with the key it had when the steward started, for what was submitted,
\* whichever answers the network confuses and whenever the key changes.
VerifiedIsSigned ==
  \A v \in verified : Signature(v.id, v.diag, pubkey) \in signed

\* LocalRepairEligible is a promise: the loop gets to a repair of the
\* diagnostic for each such answer, whatever else it has to process first.
PromisesKept == \A d \in Diag : attempted[d] >= promised[d]

EligibleIsRepaired == ~PromisesKept ~> PromisesKept
=============================================================================
