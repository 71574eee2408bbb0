----------------------------- MODULE MCCloseFrom -----------------------------
(***************************************************************************)
(* Instances of CloseFrom for TLC: five descriptors, ints of four bits and *)
(* longs of six.                                                           *)
(***************************************************************************)
EXTENDS CloseFrom

MCIntMax == 7
MCLongMax == 31

\* Arguments that fit an int, with one above any descriptor and the one that
\* is not a number.
Ordinary == {-1} \cup 0 .. MCIntMax - 1

EnoughLimit == {MaxFd + 1, MCIntMax}
===============================================================================
