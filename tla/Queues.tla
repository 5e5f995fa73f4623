------------------------------- MODULE Queues -------------------------------
(***************************************************************************)
(* Queues as sequences, for the kernel's linked lists and rings once their *)
(* pointers are abstracted away.                                           *)
(***************************************************************************)
EXTENDS Integers, Sequences

Items(s) == {s[i] : i \in 1 .. Len(s)}
Distinct(s) == \A i, j \in 1 .. Len(s) : s[i] = s[j] => i = j
=============================================================================
