---------------------------- MODULE MCCmdBuffer -----------------------------
(* Instances of CmdBufferState for TLC. *)
EXTENDS CmdBufferState, TLC

CONSTANTS p1, p2

Hosts == Permutations(Host)

\* Any number of threads that use queries, or one that uses events.
QueryApplications == {[threads |-> Host, queries |-> Query, events |-> {}]}
EventApplications == {[threads |-> {h}, queries |-> {}, events |-> Event] : h \in Host}
EitherApplications == QueryApplications \cup EventApplications

\* One command buffer per batch.
SingleBatches == {<<p>> : p \in Primary}

\* And both in one batch.
PairBatches == SingleBatches \cup {<<p1, p2>>}
=============================================================================
