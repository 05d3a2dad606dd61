----------------------------- MODULE MCInvokePool -----------------------------
(* Instances of InvokePool for TLC. *)
EXTENDS InvokePool, TLC

\* Workers are interchangeable, and so are the jobs that hang and those that
\* do not: nothing orders them or tells them apart.
Symmetry ==
    Permutations(Workers) \cup Permutations(Hanging) \cup Permutations(Jobs \ Hanging)
===============================================================================
