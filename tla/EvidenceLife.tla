---------------------------- MODULE EvidenceLife ----------------------------
(***************************************************************************)
(* What table maintenance may do to evidence, whatever the format          *)
(* (README.md "Compaction masking, in detail"): the row versions a check   *)
(* of the current state can see, and those some reader can still reach.    *)
(*                                                                         *)
(* The commits tell who took a step.  A writer's commit adds; a rewrite    *)
(* leaves the current state with what a reader is served, which stays as it*)
(* is, and destroys nothing; what commits neither can only destroy.        *)
(***************************************************************************)

CONSTANT CopyOnWrite    \* whether a write replaces rows where they are

VARIABLES
    writes,         \* the commits of the writers
    rewrites,       \* the commits of the rewrites
    content,        \* the rows a reader is served
    visible,        \* the row versions in the table's current state
    recoverable     \* the row versions in any state that can still be read

lifeVars == <<writes, rewrites, content, visible, recoverable>>

LifeInit ==
    /\ writes = {} /\ rewrites = {}
    /\ content = {} /\ visible = {} /\ recoverable = {}

LifeKeys(rows) == {r.key : r \in rows}

\* A writer commits.  What it supersedes stays in the current state or, where rows
\* are replaced, gives way to a row of its key; no version already superseded is
\* served again, and nothing recoverable is lost.
Write ==
    /\ writes \subseteq writes' /\ writes' # writes /\ UNCHANGED rewrites
    /\ IF CopyOnWrite THEN LifeKeys(visible) \subseteq LifeKeys(visible') ELSE visible \subseteq visible'
    /\ content' \subseteq visible' /\ content' \cap visible \subseteq content
    /\ recoverable' = recoverable \cup visible'

\* A rewrite commits: the current state holds what is served and no more.
Compact ==
    /\ rewrites \subseteq rewrites' /\ rewrites' # rewrites /\ UNCHANGED writes
    /\ visible' = content
    /\ UNCHANGED <<content, recoverable>>

\* Earlier states are dropped, and the files that only they need.
Expire ==
    /\ visible \subseteq recoverable' /\ recoverable' \subseteq recoverable
    /\ UNCHANGED <<writes, rewrites, content, visible>>

LifeNext == Write \/ Compact \/ Expire

LifeSpec == LifeInit /\ [][LifeNext]_lifeVars

\* No reader is served a row that the current state does not hold, and the current
\* state can always be read in full.
Supported == content \subseteq visible /\ visible \subseteq recoverable
=============================================================================
