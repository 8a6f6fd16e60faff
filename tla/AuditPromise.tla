---------------------------- MODULE AuditPromise ----------------------------
(***************************************************************************)
(* What audit-preserving compaction promises, with the mechanism left out  *)
(* (README.md, "Audit-preserving compaction").  A table is its history of  *)
(* snapshots, each with the content a reader sees, its stale wins, and, if *)
(* a rewrite made it, a report on the snapshot that rewrite audited.       *)
(*                                                                         *)
(* Writing is unconstrained.  Compacting changes no content, adds no stale *)
(* win, and comes with a report that is either an abstention or the stale  *)
(* wins of an earlier snapshot, all of them and nothing else.  A report may*)
(* be published a step later than its snapshot, and never changes again.   *)
(***************************************************************************)
EXTENDS Naturals, Sequences

VARIABLE history

NoReport == [status |-> "none", base |-> 0, keys |-> {}]

Last(h) == h[Len(h)]

\* h is the history followed by one more snapshot.
ExtendsBy1(h) ==
    /\ Len(h) = Len(history) + 1
    /\ \A i \in DOMAIN history : h[i] = history[i]

IsFaithful(report, h) ==
    \/ report.status = "decided" /\ report.keys = h[report.base].stale
    \/ report.status \in {"undecidable", "pending"} /\ report.keys = {}

Init == history = <<>>

Write == ExtendsBy1(history') /\ Last(history').report = NoReport

Compact ==
    /\ ExtendsBy1(history')
    /\ history # <<>>
    /\ Last(history').content = Last(history).content
    /\ Last(history').stale \subseteq Last(history).stale
    /\ Last(history').report.base \in DOMAIN history
    /\ IsFaithful(Last(history').report, history)

Publish(i) ==
    /\ history[i].report.status = "pending"
    /\ history' = [history EXCEPT ![i].report =
           [status |-> "decided", base |-> @.base, keys |-> history[@.base].stale]]

Next == Write \/ Compact \/ \E i \in DOMAIN history : Publish(i)

Spec == Init /\ [][Next]_history

\* A writer may stop; a report that is due is published.
FairSpec == Spec /\ WF_history(\E i \in DOMAIN history : Publish(i))
=============================================================================
