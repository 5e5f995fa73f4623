----------------------------- MODULE MCPrograms -----------------------------
(***************************************************************************)
(* Programs with the three philosophers of kernel/philosophers.c and a     *)
(* mailbox of three cells.                                                 *)
(***************************************************************************)
EXTENDS Programs

CONSTANTS a, b

MCPhils == 0 .. 2
RoundTable == <<<<0, 1>>, <<1, 2>>, <<2, 0>>>>

\* forka and forkb of philosophers[].
Table == <<<<0, 1>>, <<2, 1>>, <<0, 2>>>>
MCForkA == [p \in MCPhils |-> Table[p + 1][1]]
MCForkB == [p \in MCPhils |-> Table[p + 1][2]]

\* Packets of one and of three cells.
MCBodies == {<<>>, <<a, b>>}
=============================================================================
