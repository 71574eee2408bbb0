-------------------------------- MODULE MCUsh --------------------------------
(***************************************************************************)
(* Instances of Ush for TLC.                                               *)
(***************************************************************************)
EXTENDS Ush

CONSTANTS home, tmp, a, x, one, tty

HomeAndTmp == {home, tmp}
JustA == {a}
ZeroMask == {0}
TwoMasks == {0, 18}
NoVars == {}
JustX == {x}
JustOne == {one}
Ttys == {tty}

From3Or4 == {3, 4}
NoLowest == {}

\* The standard descriptors are open; so is descriptor 4.
StdOpen == {[f \in Fds |-> IF f \in Std \cup {4} THEN tty ELSE Closed]}

TwoCodes == {0, 3}
NoSignals == {}
OneSignal == {9}
OneErrno == {2}
===============================================================================
