---------------------------- MODULE MCRunProgram ----------------------------
(***************************************************************************)
(* Instances of RunProgram for TLC: exit codes 0 and 3, one signal, and    *)
(* one child that the calling process may have of its own.                 *)
(***************************************************************************)
EXTENDS RunProgram

MCExitCodes == {0, 3}
MCSignals == {9}
MCExecErrnos == {2}
OneOther == {101}
=============================================================================
