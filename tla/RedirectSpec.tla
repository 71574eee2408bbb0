----------------------------- MODULE RedirectSpec -----------------------------
(***************************************************************************)
(* What a redirection promises (README, "I/O redirection"): the standard   *)
(* descriptor that was named is bound to the file that was named, in one   *)
(* step and with no other standard descriptor touched, or the request is   *)
(* refused and nothing changed; either happens, and the caller is told     *)
(* which.                                                                  *)
(***************************************************************************)
EXTENDS Integers

CONSTANTS
  Procs,    \* processes that redirect their standard descriptors
  Requests, \* the requests they may make: records with fields fd and name
  Tables    \* what the standard descriptors may be bound to at first

VARIABLES
  std,      \* what each process has on its standard descriptors
  asked,    \* the current request of each process
  outcome   \* "none", "pending", "bound" or "refused"

specVars == <<std, asked, outcome>>

Init ==
  /\ std \in [Procs -> Tables]
  /\ asked \in [Procs -> Requests]
  /\ outcome = [p \in Procs |-> "none"]

Ask(p) ==
  /\ outcome[p] # "pending"
  /\ \E r \in Requests : asked' = [asked EXCEPT ![p] = r]
  /\ outcome' = [outcome EXCEPT ![p] = "pending"]
  /\ std' = std

Bind(p) ==
  /\ outcome[p] = "pending"
  /\ std' = [std EXCEPT ![p][asked[p].fd] = asked[p].name]
  /\ outcome' = [outcome EXCEPT ![p] = "bound"]
  /\ asked' = asked

Refuse(p) ==
  /\ outcome[p] = "pending"
  /\ outcome' = [outcome EXCEPT ![p] = "refused"]
  /\ UNCHANGED <<std, asked>>

Next == \E p \in Procs : Ask(p) \/ Bind(p) \/ Refuse(p)

Safe == Init /\ [][Next]_specVars

Spec == Safe /\ \A p \in Procs : WF_specVars(Bind(p) \/ Refuse(p))
===============================================================================
