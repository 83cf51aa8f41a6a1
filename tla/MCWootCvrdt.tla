---------------------------- MODULE MCWootCvrdt ----------------------------
(* Constants of the runs of WootCvrdt and OperationDAG. *)
EXTENDS OperationDAG

MCMaxValue == 2147483647

\* Attempts at an edit, by site.
TwoTicks   == [s \in Sites |-> 2]
MoreTicks  == [s \in Sites |-> IF s = 1 THEN 2 ELSE 3]

\* Site 1 makes a chain of three characters, site 2 one of its own.
ChainTicks == [s \in Sites |-> IF s = 1 THEN 3 ELSE 1]

\* Site 2 edits twice, sites 1 and 3 once, site 4 only receives.
LateReaderTicks == [s \in Sites |-> IF s = 2 THEN 2 ELSE IF s = 4 THEN 0 ELSE 1]

=============================================================================
