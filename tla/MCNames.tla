------------------------------ MODULE MCNames ------------------------------
(* A small instance of Names: two pids, two namespaces with the same        *)
(* indexes, of which the tracer can ask only its own.                       *)
EXTENDS Names, TLC

CONSTANTS eth0, lo, none

MCInitIfs == (7 :> (1 :> lo @@ 2 :> none)) @@ (9 :> (1 :> none @@ 2 :> eth0))

\* -i eth0 -n <the other namespace>.
MCFilterIf == {[netns |-> 9, ifindex |-> 2, name |-> eth0]}
=============================================================================
