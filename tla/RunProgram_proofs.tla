-------------------------- MODULE RunProgram_proofs --------------------------
(***************************************************************************)
(* What RunProgram promises for every number of calls and every set of     *)
(* exit codes, signals and errno values.                                   *)
(***************************************************************************)
EXTENDS RunProgram, TLAPS

LEMMA TypedAtFirst ==
  ASSUME Init
  PROVE  TypeOK
<1>1. kid \in [Pids -> {"unborn", "copy", "program", "zombie", "reaped"}]
  BY DEF Init
<1>2. wstatus \in [Pids -> Nat]
  BY DEF Init
<1>3. /\ handler \in BOOLEAN /\ pc = "idle" /\ n = 1 /\ cmd_fork = FALSE
      /\ child = 0 /\ child_status = 0 /\ rc = 0 /\ rv = 0
  BY DEF Init
<1>4. n \in 1 .. MaxCalls
  BY <1>3, RunAssumption
<1> QED
  BY <1>1, <1>2, <1>3, <1>4 DEF TypeOK

LEMMA StaysTyped ==
  ASSUME TypeOK, [Next]_runVars
  PROVE  TypeOK'
<1> USE RunAssumption DEF TypeOK, cmdVars, Pids, Forked
<1>1. ASSUME NEW fork \in BOOLEAN, SetFork(fork) PROVE TypeOK'
  BY <1>1 DEF SetFork
<1>2. CASE Call
  BY <1>2 DEF Call
<1>3. CASE NextCall
  BY <1>3 DEF NextCall
<1>4. CASE Fork
  BY <1>4 DEF Fork
<1>5. CASE ForkFails
  BY <1>5 DEF ForkFails
<1>6. CASE Exec
  BY <1>6 DEF Exec
<1>7. ASSUME NEW e \in ExecErrnos, ExecFails(e) PROVE TypeOK'
  BY <1>7 DEF ExecFails
<1>8. ASSUME NEW p \in Pids, WaitReaps(p) PROVE TypeOK'
  BY <1>8 DEF WaitReaps, WaitReturns, WaitReturnsIf
<1>9. CASE WaitHasNoChild
  BY <1>9 DEF WaitHasNoChild, WaitReturns, WaitReturnsIf, Exited
<1>10. CASE WaitInterrupted
  BY <1>10 DEF WaitInterrupted, WaitReturns, WaitReturnsIf, Exited
<1>11. ASSUME NEW p \in Pids, ChildExecs(p) PROVE TypeOK'
  BY <1>11 DEF ChildExecs
<1>12. ASSUME NEW p \in Pids, NEW e \in ExecErrnos, ChildExecFails(p, e)
       PROVE TypeOK'
  BY <1>12 DEF ChildExecFails, Dies, Exited
<1>13. ASSUME NEW p \in Pids, NEW code \in ExitCodes, ProgramExits(p, code)
       PROVE TypeOK'
  BY <1>13 DEF ProgramExits, Dies, Exited
<1>14. ASSUME NEW p \in Pids, NEW sig \in Signals, Killed(p, sig)
       PROVE TypeOK'
  BY <1>14 DEF Killed, Dies, Signaled
<1>15. CASE UNCHANGED runVars
  BY <1>15 DEF runVars
<1> QED
  BY <1>1, <1>2, <1>3, <1>4, <1>5, <1>6, <1>7, <1>8, <1>9, <1>10, <1>11,
     <1>12, <1>13, <1>14, <1>15
  DEF Next, RunStep, ChildStep, ProgramStep

\* Every state of every behaviour is well typed.
THEOREM Typed == Spec => []TypeOK
BY TypedAtFirst, StaysTyped, PTL DEF Spec

-------------------------------------------------------------------------------
(***************************************************************************)
(* The status of a call.  In a process that is alone the child of the      *)
(* current call is the only one wait() can find, because every earlier one *)
(* has been reaped and no later one exists.                                *)
(***************************************************************************)

\* Where the child of the current call can be, by where the caller is.
CurrentChild ==
  /\ pc \in {"idle", "run", "replaced"} => kid[n] = "unborn"
  /\ pc = "wait" => /\ cmd_fork
                    /\ \/ child = n /\ kid[n] \in {"copy", "program", "zombie"}
                       \/ child = -1 /\ kid[n] = "unborn"
  /\ pc = "returned" => \/ ~cmd_fork /\ kid[n] = "unborn"
                        \/ cmd_fork /\ child = -1 /\ kid[n] = "unborn"
                        \/ cmd_fork /\ child = n /\ kid[n] = "reaped"
                           /\ rv = wstatus[n]

OtherChildren ==
  \A p \in Forked \ {n} : kid[p] = "unborn" \/ (p < n /\ kid[p] = "reaped")

ChildrenInv == CurrentChild /\ OtherChildren

StatusInv == TypeOK /\ (Alone => ChildrenInv)

\* No step makes a process alone that was not.
LEMMA AloneBefore ==
  ASSUME TypeOK, [Next]_runVars, Alone'
  PROVE  Alone
<1> USE RunAssumption DEF TypeOK, cmdVars, Alone, Pids, Forked
<1>1. ASSUME NEW fork \in BOOLEAN, SetFork(fork) PROVE Alone
  BY <1>1 DEF SetFork
<1>2. CASE Call \/ NextCall
  BY <1>2 DEF Call, NextCall
<1>3. CASE Fork
  BY <1>3 DEF Fork
<1>4. CASE ForkFails \/ Exec
  BY <1>4 DEF ForkFails, Exec
<1>5. ASSUME NEW e \in ExecErrnos, ExecFails(e) PROVE Alone
  BY <1>5 DEF ExecFails
<1>6. ASSUME NEW p \in Pids, WaitReaps(p) PROVE Alone
  BY <1>6 DEF WaitReaps, WaitReturns, WaitReturnsIf
<1>7. CASE WaitHasNoChild \/ WaitInterrupted
  BY <1>7 DEF WaitHasNoChild, WaitInterrupted, WaitReturns, WaitReturnsIf
<1>8. ASSUME NEW p \in Pids, ChildStep(p) \/ ProgramStep(p) PROVE Alone
  BY ZenonT(30), <1>8 DEF ChildStep, ProgramStep, ChildExecs, ChildExecFails,
              ProgramExits, Killed, Dies
<1>9. CASE UNCHANGED runVars
  BY <1>9 DEF runVars
<1> QED
  <2> HIDE DEF Alone
  <2> QED
    BY <1>1, <1>2, <1>3, <1>4, <1>5, <1>6, <1>7, <1>8, <1>9 DEF Next, RunStep

\* The invariant that says of every child where it can be.
LEMMA ChildrenAtFirst ==
  ASSUME Init, TypeOK
  PROVE  StatusInv
BY RunAssumption
DEF Init, StatusInv, ChildrenInv, TypeOK, CurrentChild, OtherChildren, Pids,
    Forked

LEMMA ChildrenStay ==
  ASSUME StatusInv, TypeOK', [Next]_runVars
  PROVE  StatusInv'
<1> SUFFICES ASSUME Alone'
             PROVE  CurrentChild' /\ OtherChildren'
  BY DEF StatusInv, ChildrenInv
<1>a. Alone /\ ChildrenInv
  BY AloneBefore DEF StatusInv
<1> USE RunAssumption, <1>a
    DEF StatusInv, ChildrenInv, CurrentChild, OtherChildren, TypeOK, cmdVars,
        Pids, Forked, Alone
<1>1. ASSUME NEW fork \in BOOLEAN, SetFork(fork)
      PROVE  CurrentChild' /\ OtherChildren'
  BY <1>1 DEF SetFork
<1>2. CASE Call
  BY <1>2 DEF Call
<1>3. CASE NextCall
  BY <1>3 DEF NextCall
<1>4. CASE Fork
  BY <1>4 DEF Fork
<1>5. CASE ForkFails
  BY <1>5 DEF ForkFails
<1>6. CASE Exec
  BY <1>6 DEF Exec
<1>7. ASSUME NEW e \in ExecErrnos, ExecFails(e)
      PROVE  CurrentChild' /\ OtherChildren'
  BY <1>7 DEF ExecFails
<1>8. ASSUME NEW p \in Pids, WaitReaps(p)
      PROVE  CurrentChild' /\ OtherChildren'
  <2>1. p = n
    BY <1>8 DEF WaitReaps
  <2> QED
    BY <1>8, <2>1 DEF WaitReaps, WaitReturns, WaitReturnsIf
<1>9. CASE WaitHasNoChild
  <2>1. kid[n] = "unborn"
    BY <1>9 DEF WaitHasNoChild, Unreaped
  <2> QED
    BY <1>9, <2>1 DEF WaitHasNoChild, WaitReturns, WaitReturnsIf
<1>10. CASE WaitInterrupted
  BY <1>10 DEF WaitInterrupted
<1>11. ASSUME NEW p \in Pids, ChildExecs(p)
       PROVE  CurrentChild' /\ OtherChildren'
  BY <1>11 DEF ChildExecs
<1>12. ASSUME NEW p \in Pids, NEW status, kid[p] \in {"copy", "program"},
              Dies(p, status)
       PROVE  CurrentChild' /\ OtherChildren'
  BY <1>12 DEF Dies
<1>13. ASSUME NEW p \in Pids, ChildStep(p) \/ ProgramStep(p)
       PROVE  CurrentChild' /\ OtherChildren'
  BY <1>11, <1>12, <1>13
  DEF ChildStep, ProgramStep, ChildExecFails, ProgramExits, Killed
<1>14. CASE UNCHANGED runVars
  BY <1>14 DEF runVars
<1> QED
  <2> HIDE DEF CurrentChild, OtherChildren
  <2> QED
    BY <1>1, <1>2, <1>3, <1>4, <1>5, <1>6, <1>7, <1>8, <1>9, <1>10, <1>13,
       <1>14
    DEF Next, RunStep

LEMMA ChildrenAre == Spec => []StatusInv
BY ChildrenAtFirst, ChildrenStay, Typed, PTL DEF Spec

\* In a process without other children and uninterrupted, every forking call
\* returns the wait status of its own child, whatever the earlier calls did
\* and even if some fork() failed.
THEOREM StatusRight == Spec => []StatusIsChilds
<1>1. StatusInv => StatusIsChilds
  BY DEF StatusInv, ChildrenInv, CurrentChild, TypeOK, StatusIsChilds
<1> QED
  BY <1>1, ChildrenAre, PTL

\* Nor does such a process find a child of an earlier call, alive or dead, when
\* it makes the next one.
THEOREM NothingLeft == Spec => []NoChildLeft
<1>1. StatusInv => NoChildLeft
  BY RunAssumption
  DEF StatusInv, ChildrenInv, CurrentChild, OtherChildren, TypeOK, NoChildLeft,
      Forked
<1> QED
  BY <1>1, ChildrenAre, PTL
-------------------------------------------------------------------------------
\* With any other children, failed forks and interruptions, a call that returns
\* a status other than 0 returns that of some child that has been reaped.
THEOREM BadStatusHolds == Spec => []BadStatusIsReal
<1>1. Init => BadStatusIsReal
  BY DEF Init, BadStatusIsReal
<1>2. TypeOK /\ BadStatusIsReal /\ [Next]_runVars => BadStatusIsReal'
  <2> SUFFICES ASSUME TypeOK, BadStatusIsReal, [Next]_runVars
               PROVE  BadStatusIsReal'
    OBVIOUS
  <2> USE DEF BadStatusIsReal, cmdVars
  <2>1. ASSUME NEW fork \in BOOLEAN, SetFork(fork) PROVE BadStatusIsReal'
    BY <2>1 DEF SetFork
  <2>2. CASE Call
    BY <2>2 DEF Call
  <2>3. CASE NextCall
    BY <2>3 DEF NextCall
  <2>4. CASE Fork \/ ForkFails \/ Exec
    BY <2>4 DEF Fork, ForkFails, Exec
  <2>5. ASSUME NEW e \in ExecErrnos, ExecFails(e) PROVE BadStatusIsReal'
    BY <2>5 DEF ExecFails
  <2>6. ASSUME NEW p \in Pids, WaitReaps(p) PROVE BadStatusIsReal'
    <3>1. kid'[p] = "reaped" /\ wstatus'[p] = rv'
      BY <2>6 DEF WaitReaps, WaitReturns, WaitReturnsIf, TypeOK
    <3> QED
      BY <3>1
  <2>7. CASE WaitHasNoChild \/ WaitInterrupted
    <3>1. rv' = 0
      BY <2>7
      DEF WaitHasNoChild, WaitInterrupted, WaitReturns, WaitReturnsIf, Exited
    <3> QED
      BY <3>1
  <2>8. ASSUME NEW p \in Pids, ChildStep(p) \/ ProgramStep(p)
        PROVE  BadStatusIsReal'
    <3>1. kid[p] \in {"copy", "program"} /\ UNCHANGED <<pc, cmd_fork, rv>>
      BY <2>8
      DEF ChildStep, ProgramStep, ChildExecs, ChildExecFails, ProgramExits,
          Killed, Dies
    <3>2. \A q \in Pids : kid[q] = "reaped" =>
            kid'[q] = "reaped" /\ wstatus'[q] = wstatus[q]
      BY <2>8
      DEF ChildStep, ProgramStep, ChildExecs, ChildExecFails, ProgramExits,
          Killed, Dies, TypeOK
    <3> QED
      BY <3>1, <3>2
  <2>9. CASE UNCHANGED runVars
    BY <2>9 DEF runVars
  <2> QED
    <3> HIDE DEF BadStatusIsReal
    <3> QED
      BY <2>1, <2>2, <2>3, <2>4, <2>5, <2>6, <2>7, <2>8, <2>9
      DEF Next, RunStep
<1> QED
  BY <1>1, <1>2, Typed, PTL DEF Spec
===============================================================================
