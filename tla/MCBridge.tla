------------------------------- MODULE MCBridge -------------------------------
(* The bridges serve requests (Bridge), or tell clients their verdicts       *)
(* (Verdicts).  Neither depends on the other, so a behaviour is about one.   *)
EXTENDS Bridge, Verdicts

\* One request per kind of handler.
MCRequest == [route : {"/receipt", "/canary-trip", "/enforce"}]

\* The documented words, and some that are absent, unknown, short or in capitals.
Capitals(text) == [text |-> text, plain |-> FALSE]

MCSeverityWord ==
  {Word(Severities[i]) : i \in 1..4}
    \cup {Word(""), Word("fatal"), Capitals("critical"), Capitals("catastrophic")}

MCKindWord ==
  {Word(type) : type \in Kinds}
    \cup {Word(""), Word("other"), Word("economic"), Capitals("concurrency_conflict")}

Serve == verdicts = {} /\ Next /\ UNCHANGED verdicts

\* Nothing has been asked of the store yet.
Fresh == seed = Absent /\ drawn = 0 /\ now = 0 /\ crashes = 0 /\ \A t \in Task : task[t] = Idle

Judge == Fresh /\ VerdictNext /\ UNCHANGED vars

BridgesInit == Init /\ VerdictInit

BridgesSpec ==
  /\ BridgesInit /\ [][Serve \/ Judge]_<<vars, verdicts>>
  /\ \A t \in Task : WF_vars(Handle(t))
=============================================================================
