-------------------------------- MODULE Bridge --------------------------------
(***************************************************************************)
(* The enforcement bridge (server.rs) with the signing identity it loads   *)
(* on first use (guardian.rs) and the receipt table it writes              *)
(* (receipts.rs).  Every connection is a task of its own; a request is     *)
(* routed, signed, persisted and answered in steps that other tasks, the   *)
(* wall clock and the end of the process may come between.                 *)
(*                                                                         *)
(* The seed file and the table survive the process; GUARDIAN and the tasks *)
(* do not.  Clients, who may repeat a request they saw no answer to, and   *)
(* pollers, who ask for what is newer than the newest receipt they have,   *)
(* are outside of the repository.                                          *)
(***************************************************************************)
EXTENDS Naturals, Sequences

CONSTANTS
  Task,        \* the connections served at a time
  Request,     \* what clients send, as a record with its route
  Poller,      \* clients of GET /receipts and GET /canary-trips
  CanaryOnly,  \* the pollers that ask for /canary-trips
  Key,         \* seeds that OsRng may yield
  Absent,      \* no seed file, or no guardian in the process yet
  Torn,        \* a seed file that is not 32 bytes long
  MaxTime,     \* bound on the wall clock
  MaxReceipts, \* bound on the identifiers drawn
  MaxCrashes   \* bound on the ends of the process

ASSUME BridgeAssumption ==
  /\ Absent \notin Key /\ Torn \notin Key /\ Absent # Torn
  /\ CanaryOnly \subseteq Poller
  /\ MaxTime \in Nat /\ MaxReceipts \in Nat /\ MaxCrashes \in Nat

VARIABLES
  seed,     \* the file .guardian/seed
  guardian, \* GUARDIAN: OnceLock<Guardian>
  rows,     \* the table receipts, in the order of insertion
  task,     \* what each connection's task is doing
  drawn,    \* how many identifiers Uuid::new_v4 has given
  now,      \* the wall clock, in seconds
  answered, \* the 200 answers that clients have received
  crashes,
  cursor,   \* per poller: the timestamp it sends as since
  reply,    \* per poller: the rows on their way to it
  seen,     \* per poller: the rows it has received
  reach,    \* history, per poller: the newest timestamp read for it
  late      \* history, per row: the pollers that had read past it

guardVars == <<seed, guardian>>
tableVars == <<rows, late>>
pollVars  == <<cursor, reply, seen, reach>>
vars == <<seed, guardian, rows, task, drawn, now, answered, crashes,
          cursor, reply, seen, reach, late>>

-----------------------------------------------------------------------------
(* Types *)

Persistent == {"/receipt", "/canary-trip"}
Signed == [id : 1..MaxReceipts, req : Request, timestamp : 0..MaxTime,
           key : Key]
Idle == [stage |-> "idle"]
TaskState ==
  {Idle}
    \cup [stage : {"routed"}, req : Request]
    \cup [stage : {"generating", "writing"}, req : Request, key : Key]
    \cup [stage : {"signed", "answering"}, receipt : Signed]

Init ==
  /\ seed = Absent
  /\ guardian = Absent
  /\ rows = <<>>
  /\ task = [t \in Task |-> Idle]
  /\ drawn = 0
  /\ now = 0
  /\ answered = {}
  /\ crashes = 0
  /\ cursor = [p \in Poller |-> 0]
  /\ reply = [p \in Poller |-> {}]
  /\ seen = [p \in Poller |-> {}]
  /\ reach = [p \in Poller |-> 0]
  /\ late = <<>>

-----------------------------------------------------------------------------
(* guardian(): GUARDIAN.get_or_init(Guardian::load_or_create) *)

Become(t, state) == task' = [task EXCEPT ![t] = state]

\* A connection is accepted and its request routed; the malformed ones are
\* answered with 400 at once and change nothing.
Accept(t, req) ==
  /\ task[t] = Idle
  /\ Become(t, [stage |-> "routed", req |-> req])
  /\ UNCHANGED <<guardVars, tableVars, drawn, now, answered, crashes, pollVars>>

\* Mutant: the callers wait for the seed file to be whole.
InitialisingByFile == seed = Torn

\* get_or_init runs one initialiser; the other callers wait for it.
Initialising == \E t \in Task : task[t].stage \in {"generating", "writing"}

\* Mutant: initialisers may run side by side.
AloneNever(t) == task[t].stage = "routed" /\ guardian = Absent

Alone(t) ==
  /\ task[t].stage = "routed"
  /\ guardian = Absent
  /\ ~Initialising

LoadSeed(t) ==
  /\ Alone(t)
  /\ seed \in Key
  /\ guardian' = seed
  /\ UNCHANGED <<seed, tableVars, task, drawn, now, answered, crashes, pollVars>>

\* A file of another length is an error, and `expect` panics: the task ends
\* and its client sees the connection close.
LoadTorn(t) ==
  /\ Alone(t)
  /\ seed = Torn
  /\ Become(t, Idle)
  /\ UNCHANGED <<guardVars, tableVars, drawn, now, answered, crashes, pollVars>>

GenerateSeed(t, key) ==
  /\ Alone(t)
  /\ seed = Absent
  /\ Become(t, [stage |-> "generating", req |-> task[t].req, key |-> key])
  /\ UNCHANGED <<guardVars, tableVars, drawn, now, answered, crashes, pollVars>>

\* fs::write creates or empties the file first and then fills it.
CreateSeed(t) ==
  /\ task[t].stage = "generating"
  /\ seed' = Torn
  /\ Become(t, [stage |-> "writing", req |-> task[t].req, key |-> task[t].key])
  /\ UNCHANGED <<guardian, tableVars, drawn, now, answered, crashes, pollVars>>

WriteSeed(t) ==
  /\ task[t].stage = "writing"
  /\ seed' = task[t].key
  /\ guardian' = task[t].key
  /\ Become(t, [stage |-> "routed", req |-> task[t].req])
  /\ UNCHANGED <<tableVars, drawn, now, answered, crashes, pollVars>>

\* The write, or the set_permissions after it, fails; the panic of `expect`
\* leaves the cell empty for the next caller.
WriteFails(t) ==
  /\ task[t].stage = "writing"
  /\ seed' \in {seed, task[t].key}
  /\ Become(t, Idle)
  /\ UNCHANGED <<guardian, tableVars, drawn, now, answered, crashes, pollVars>>

-----------------------------------------------------------------------------
(* decide, make_receipt, ReceiptStore::emit *)

\* The identifier, the timestamp and the signature are all taken here, before
\* the receipt goes to the table.  The routes that do not persist sign without
\* a timestamp (0 here) and answer next.
Sign(t) ==
  /\ task[t].stage = "routed"
  /\ guardian # Absent
  /\ drawn < MaxReceipts
  /\ drawn' = drawn + 1
  /\ LET req == task[t].req IN
     Become(t, [stage |-> IF req.route \in Persistent THEN "signed" ELSE "answering",
                receipt |-> [id |-> drawn', req |-> req, key |-> guardian,
                             timestamp |-> IF req.route \in Persistent
                                           THEN now ELSE 0]])
  /\ UNCHANGED <<guardVars, tableVars, now, answered, crashes, pollVars>>

ReadPast(receipt) == {p \in Poller : reach[p] >= receipt.timestamp}

Emit(t) ==
  /\ task[t].stage = "signed"
  /\ rows' = Append(rows, task[t].receipt)
  /\ late' = Append(late, ReadPast(task[t].receipt))
  /\ Become(t, [stage |-> "answering", receipt |-> task[t].receipt])
  /\ UNCHANGED <<guardVars, drawn, now, answered, crashes, pollVars>>

\* Mutant: the error of the insert is not told to the client.
EmitFailsSilently(t) ==
  /\ task[t].stage = "signed"
  /\ Become(t, [stage |-> "answering", receipt |-> task[t].receipt])
  /\ UNCHANGED <<guardVars, tableVars, drawn, now, answered, crashes, pollVars>>

\* The insert fails (a full disk, a locked database): the client gets a 500.
EmitFails(t) ==
  /\ task[t].stage = "signed"
  /\ Become(t, Idle)
  /\ UNCHANGED <<guardVars, tableVars, drawn, now, answered, crashes, pollVars>>

\* The answer reaches the client, or the connection breaks.
Answer(t) ==
  /\ task[t].stage = "answering"
  /\ answered' \in {answered, answered \cup {task[t].receipt}}
  /\ Become(t, Idle)
  /\ UNCHANGED <<guardVars, tableVars, drawn, now, crashes, pollVars>>

-----------------------------------------------------------------------------
(* ReceiptStore::since and since_kind, as the pollers use them *)

Wanted(p, i) == p \in CanaryOnly => rows[i].req.route = "/canary-trip"

\* Mutant: the second after the cursor is skipped.
SinceSkips(p) ==
  {i \in 1..Len(rows) : rows[i].timestamp > cursor[p] + 1 /\ Wanted(p, i)}

Since(p) ==
  {i \in 1..Len(rows) : rows[i].timestamp > cursor[p] /\ Wanted(p, i)}

IsNewest(ts, found, least) ==
  /\ ts \in {least} \cup {rows[i].timestamp : i \in found}
  /\ ts >= least
  /\ \A i \in found : ts >= rows[i].timestamp

Poll(p) ==
  /\ reply[p] = {}
  /\ Since(p) # {}
  /\ reply' = [reply EXCEPT ![p] = Since(p)]
  /\ \E ts \in 0..MaxTime : /\ IsNewest(ts, Since(p), reach[p])
                            /\ reach' = [reach EXCEPT ![p] = ts]
  /\ UNCHANGED <<guardVars, tableVars, task, drawn, now, answered, crashes, cursor, seen>>

\* The poller receives the rows and moves its cursor, or never sees them.
PollAnswer(p) ==
  /\ reply[p] # {}
  /\ \/ /\ seen' = [seen EXCEPT ![p] = @ \cup reply[p]]
        /\ \E ts \in 0..MaxTime : /\ IsNewest(ts, reply[p], cursor[p])
                                  /\ cursor' = [cursor EXCEPT ![p] = ts]
     \/ UNCHANGED <<seen, cursor>>
  /\ reply' = [reply EXCEPT ![p] = {}]
  /\ UNCHANGED <<guardVars, tableVars, task, drawn, now, answered, crashes, reach>>

-----------------------------------------------------------------------------
(* The environment *)

\* The wall clock may be set back.
ClockChange ==
  /\ now' \in 0..MaxTime \ {now}
  /\ UNCHANGED <<guardVars, tableVars, task, drawn, answered, crashes, pollVars>>

\* The process ends and is started again.
Crash ==
  /\ crashes < MaxCrashes
  /\ crashes' = crashes + 1
  /\ guardian' = Absent
  /\ task' = [t \in Task |-> Idle]
  /\ reply' = [p \in Poller |-> {}]
  /\ UNCHANGED <<seed, tableVars, drawn, now, answered, cursor, seen, reach>>

Handle(t) ==
  \/ LoadSeed(t) \/ LoadTorn(t) \/ CreateSeed(t) \/ WriteSeed(t) \/ WriteFails(t)
  \/ \E key \in Key : GenerateSeed(t, key)
  \/ Sign(t) \/ Emit(t) \/ EmitFails(t) \/ Answer(t)

Next ==
  \/ \E t \in Task, req \in Request : Accept(t, req)
  \/ \E t \in Task : Handle(t)
  \/ \E p \in Poller : Poll(p) \/ PollAnswer(p)
  \/ ClockChange
  \/ Crash

Spec == Init /\ [][Next]_vars

\* tokio polls every task that can make progress.
FairSpec == Spec /\ \A t \in Task : WF_vars(Handle(t))
-----------------------------------------------------------------------------
(* Properties of the code *)

TypeOK ==
  /\ seed \in Key \cup {Absent, Torn}
  /\ guardian \in Key \cup {Absent}
  /\ rows \in Seq(Signed)
  /\ task \in [Task -> TaskState]
  /\ drawn \in 0..MaxReceipts
  /\ now \in 0..MaxTime
  /\ answered \subseteq Signed
  /\ crashes \in 0..MaxCrashes
  /\ cursor \in [Poller -> 0..MaxTime]
  /\ reply \in [Poller -> SUBSET (1..Len(rows))]
  /\ seen \in [Poller -> SUBSET (1..Len(rows))]
  /\ reach \in [Poller -> 0..MaxTime]
  /\ late \in Seq(SUBSET Poller) /\ Len(late) = Len(rows)

\* Whatever the guardian has signed, in the table or in a client's hands,
\* verifies with the key that the seed file holds now, and will after every
\* restart: no signature is given under a seed that a crash, a failed write or
\* a second initialiser can replace.
InTable == {rows[i] : i \in 1..Len(rows)}

OneIdentity == \A receipt \in InTable \cup answered : receipt.key = seed

\* A receipt that a client was told is persisted stays in the table, once,
\* through failed inserts and restarts.
AcknowledgedPersists ==
  /\ \A receipt \in answered : receipt.req.route \in Persistent => receipt \in InTable
  /\ \A i, j \in 1..Len(rows) : rows[i].id = rows[j].id => i = j

\* What a poller with its cursor on a timestamp can have missed: only receipts
\* that were inserted after a read for it had already gone past their
\* timestamp.  (A receipt is stamped before it is inserted, and in whole
\* seconds, so such receipts exist; the poller never gets them.)
MissesOnlyLate ==
  \A p \in Poller : \A i \in 1..Len(rows) :
    /\ Wanted(p, i)
    /\ rows[i].timestamp \in 1..cursor[p]
    /\ i \notin seen[p]
    => p \in late[i]

\* Every connection comes to an end, with an answer or without one, whichever
\* of its steps fails and whatever the task that initialises the guardian does.
EveryRequestEnds ==
  \A t \in Task :
    task[t] # Idle ~> \/ task[t] = Idle
                      \/ task[t].stage = "routed" /\ drawn = MaxReceipts
=============================================================================
