---------------------------- MODULE MCIoRedirect ----------------------------
(***************************************************************************)
(* Instances of IoRedirect for TLC.  A table with one spare descriptor is  *)
(* enough for a redirection and is full as soon as one leaks.              *)
(***************************************************************************)
EXTENDS IoRedirect

CONSTANTS p1, p2, a, c, tty

TwoProcs == {p1, p2}
TwoNames == {a, c}
DeniedNames == {c}

Ttys == {tty}
Fresh == [f \in Fds |-> IF f \in Std THEN tty ELSE Closed]
Full == [f \in Fds |-> tty]
StdOpen == {Fresh, Full}
=============================================================================
