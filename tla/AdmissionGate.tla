---------------------------- MODULE AdmissionGate ----------------------------
(***************************************************************************)
(* What the D6 boundary promises of provider attempts, without leases,     *)
(* locks or sessions: an attempt is reserved, admitted at most once, and   *)
(* presented to the image provider at most once, and only when admitted.   *)
(* An admitted attempt may never reach the provider.                       *)
(***************************************************************************)
EXTENDS Naturals, Sequences

VARIABLES
  reserved,  \* attempts that were given an identity
  admitted,  \* attempts whose admission was consumed
  invoked    \* attempts presented to the provider, in order

vars == <<reserved, admitted, invoked>>

Init == reserved = {} /\ admitted = {} /\ invoked = <<>>

Reserve(n) ==
  /\ n \notin reserved
  /\ reserved' = reserved \cup {n}
  /\ UNCHANGED <<admitted, invoked>>

Admit(n) ==
  /\ n \in reserved \ admitted
  /\ admitted' = admitted \cup {n}
  /\ UNCHANGED <<reserved, invoked>>

Invoke(n) ==
  /\ n \in admitted
  /\ \A i \in 1..Len(invoked) : invoked[i] # n
  /\ invoked' = Append(invoked, n)
  /\ UNCHANGED <<reserved, admitted>>

\* reserved' rather than Nat bounds n: reserved only grows.
Next == \E n \in reserved' : Reserve(n) \/ Admit(n) \/ Invoke(n)

Spec == Init /\ [][Next]_vars
==============================================================================
