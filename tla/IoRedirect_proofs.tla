-------------------------- MODULE IoRedirect_proofs --------------------------
(***************************************************************************)
(* For any processes, files and size of the descriptor table: if every     *)
(* process starts with its standard descriptors open, set_stdin() and      *)
(* set_write_fd() implement RedirectSpec.                                  *)
(***************************************************************************)
EXTENDS IoRedirect, TLAPS

\* --stdin, --stdout and --stderr name three descriptors.
LEMMA RequestShape ==
  ASSUME NEW r \in Requests
  PROVE  /\ r.fd \in Std /\ r.name \in Names /\ r.new \in BOOLEAN
         /\ r.new => r.fd # 0
<1>1. CASE r \in [fd : {0}, name : Names, new : {FALSE}]
  <2>1. r.fd = 0 /\ r.name \in Names
    BY <1>1
  <2>2. r.new = FALSE
    BY <1>1
  <2>3. r.fd \in Std
    BY <2>1 DEF Std
  <2> QED
    BY <2>1, <2>2, <2>3, Zenon
<1>2. CASE r \in [fd : {1, 2}, name : Names, new : BOOLEAN]
  BY <1>2 DEF Std
<1> QED
  BY <1>1, <1>2 DEF Requests

\* Every state of every behaviour is well typed.
THEOREM Typed == Spec => []TypeOK
<1>1. Init => TypeOK
  <2> SUFFICES ASSUME Init
               PROVE  TypeOK
    OBVIOUS
  <2>1. Requests # {}
    <3>1. PICK a \in Names : TRUE
      BY RedirectAssumption
    <3>2. [fd |-> 0, name |-> a, new |-> FALSE] \in Requests
      BY <3>1 DEF Requests
    <3> QED
      BY <3>2
  <2>2. req \in [Procs -> Requests]
    BY <2>1 DEF Init
  <2>3. fds \in [Procs -> [Fds -> Contents]]
    BY RedirectAssumption DEF Init, Contents
  <2>4. before \in [Procs -> [files : SUBSET Names, fds : [Fds -> Contents]]]
    BY <2>3 DEF Init
  <2> QED
    BY <2>2, <2>3, <2>4, RedirectAssumption DEF Init, TypeOK
<1>2. TypeOK /\ [Next]_vars => TypeOK'
  <2> SUFFICES ASSUME TypeOK, [Next]_vars
               PROVE  TypeOK'
    OBVIOUS
  <2> USE RedirectAssumption, FdAssumption DEF TypeOK
  <2>1. ASSUME NEW p \in Procs, Request(p) PROVE TypeOK'
    BY <2>1 DEF Request
  <2>2. ASSUME NEW p \in Procs, AccessFinds(p) PROVE TypeOK'
    BY <2>2 DEF AccessFinds, Fail, Return, EEXIST
  <2>3. ASSUME NEW p \in Procs, AccessFindsNothing(p) PROVE TypeOK'
    BY <2>3 DEF AccessFindsNothing
  <2>4. ASSUME NEW p \in Procs, OpenFails(p) PROVE TypeOK'
    BY <2>4
    DEF OpenFails, OpenErrors, Fail, Return, EACCES, ENOENT, EMFILE
  <2>5. ASSUME NEW p \in Procs, Open(p) PROVE TypeOK'
    BY <2>5, RequestShape DEF Open, Opened, Contents
  <2>6. ASSUME NEW p \in Procs, DupFails(p) PROVE TypeOK'
    BY <2>6 DEF DupFails, Fail, Return, EBUSY, Fds
  <2>7. ASSUME NEW p \in Procs, Dup(p) PROVE TypeOK'
    <3>1. Dup2(fds[p], old_fd[p], req[p].fd) \in [Fds -> Contents]
      <4>1. fds[p] \in [Fds -> Contents] /\ old_fd[p] \in Fds
        BY <2>7 DEF Dup
      <4>2. fds[p][old_fd[p]] \in Contents
        BY <4>1
      <4> QED
        BY <4>1, <4>2 DEF Dup2
    <3>2. fds' \in [Procs -> [Fds -> Contents]]
      BY <2>7, <3>1 DEF Dup
    <3> QED
      BY <2>7, <3>2 DEF Dup
  <2>8. ASSUME NEW p \in Procs, Close(p) PROVE TypeOK'
    <3>1. CloseFd(fds[p], old_fd[p]) \in [Fds -> Contents]
      BY <2>8 DEF Close, CloseFd, Contents
    <3>2. fds' \in [Procs -> [Fds -> Contents]]
      BY <2>8, <3>1 DEF Close
    <3> QED
      BY <2>8, <3>2 DEF Close, Return
  <2>9. CASE UNCHANGED vars
    BY <2>9 DEF vars
  <2> QED
    <3> HIDE DEF TypeOK
    <3> QED
      BY <2>1, <2>2, <2>3, <2>4, <2>5, <2>6, <2>7, <2>8, <2>9
      DEF Next, SystemCall
<1> QED
  BY <1>1, <1>2, PTL DEF Spec
-------------------------------------------------------------------------------
(***************************************************************************)
(* The refinement needs an invariant: as long as the standard descriptors  *)
(* are open, open() returns another one, so that the close() at the end    *)
(* never hits the descriptor that was just redirected, and what dup2()     *)
(* copies is the file that was asked for.                                  *)
(***************************************************************************)
StdOpenAtFirst == \A t \in Tables : \A f \in Std : t[f] # Closed

StdStaysOpen ==
  \A p \in Procs :
    /\ \A f \in Std : fds[p][f] # Closed
    /\ step[p] \in {"dup2", "close"} => old_fd[p] \in Fds \ Std
    /\ step[p] = "dup2" => fds[p][old_fd[p]] = req[p].name

RedirectInv == TypeOK /\ StdStaysOpen

\* The lowest free descriptor is not one of three open ones.
LEMMA NotStd ==
  ASSUME NEW t \in [Fds -> Contents], NEW f \in Fds, IsLowestFree(t, f),
         \A g \in Std : t[g] # Closed
  PROVE  f \in Fds \ Std
BY DEF IsLowestFree

LEMMA Inductive ==
  ASSUME StdOpenAtFirst
  PROVE  Spec => []RedirectInv
<1>1. Init => StdStaysOpen
  BY FdAssumption DEF Init, StdStaysOpen, StdOpenAtFirst
<1>2. RedirectInv /\ TypeOK' /\ [Next]_vars => RedirectInv'
  <2> SUFFICES ASSUME RedirectInv, TypeOK', [Next]_vars
               PROVE  StdStaysOpen'
    BY DEF RedirectInv
  <2> USE RedirectAssumption, FdAssumption
      DEF RedirectInv, TypeOK, StdStaysOpen
  <2>1. ASSUME NEW p \in Procs, Request(p) PROVE StdStaysOpen'
    BY <2>1 DEF Request
  <2>2. ASSUME NEW p \in Procs,
               AccessFinds(p) \/ AccessFindsNothing(p) \/ OpenFails(p)
                 \/ DupFails(p)
        PROVE  StdStaysOpen'
    BY <2>2
    DEF AccessFinds, AccessFindsNothing, OpenFails, DupFails, Fail, Return
  <2>3. ASSUME NEW p \in Procs, Open(p) PROVE StdStaysOpen'
    <3>1. PICK f \in Fds :
            /\ IsLowestFree(fds[p], f)
            /\ old_fd' = [old_fd EXCEPT ![p] = f]
            /\ fds' = [fds EXCEPT ![p] = Opened(@, f, req[p].name)]
      BY <2>3 DEF Open
    <3>2. f \in Fds \ Std
      BY <3>1, NotStd
    <3>3. req[p].name # Closed
      BY RequestShape
    <3> QED
      BY <2>3, <3>1, <3>2, <3>3 DEF Open, Opened
  <2>4. ASSUME NEW p \in Procs, Dup(p) PROVE StdStaysOpen'
    <3>1. req[p].name # Closed /\ req[p].fd \in Std
      BY RequestShape
    <3> QED
      BY <2>4, <3>1 DEF Dup, Dup2
  <2>5. ASSUME NEW p \in Procs, Close(p) PROVE StdStaysOpen'
    BY <2>5 DEF Close, CloseFd, Return
  <2>6. CASE UNCHANGED vars
    BY <2>6 DEF vars
  <2> QED
    <3> HIDE DEF RedirectInv, TypeOK, StdStaysOpen
    <3> QED
      BY <2>1, <2>2, <2>3, <2>4, <2>5, <2>6 DEF Next, SystemCall
<1> QED
  BY <1>1, <1>2, Typed, PTL DEF Spec, RedirectInv

\* If every process starts with its standard descriptors open, then for any
\* number of processes and files and any table size, what set_stdin() and
\* set_write_fd() do to them is what RedirectSpec allows: bound in one step to
\* the file asked for and reported so, or untouched and reported as refused.
THEOREM KeepsPromise ==
  ASSUME StdOpenAtFirst
  PROVE  Spec => Promise!Safe
<1>1. Init /\ TypeOK => Promise!Init
  <2> SUFFICES ASSUME Init, TypeOK
               PROVE  Promise!Init
    OBVIOUS
  <2>1. \A p \in Procs :
          /\ Visible(p) \in {[f \in Std |-> t[f]] : t \in Tables}
          /\ [fd |-> req[p].fd, name |-> req[p].name]
               \in [fd : Std, name : Names]
    BY RequestShape DEF Init, TypeOK, Visible
  <2>2. \A p \in Procs : Reported(p) = "none"
    BY DEF Init, Reported
  <2> QED
    BY <2>1, <2>2 DEF Promise!Init
<1>2. RedirectInv /\ RedirectInv' /\ [Next]_vars
        => [Promise!Next]_Promise!specVars
  <2> SUFFICES ASSUME RedirectInv, RedirectInv', [Next]_vars
               PROVE  [Promise!Next]_Promise!specVars
    OBVIOUS
  <2> DEFINE std == [p \in Procs |-> Visible(p)]
             asked == [p \in Procs |->
                         [fd |-> req[p].fd, name |-> req[p].name]]
             outcome == [p \in Procs |-> Reported(p)]
  <2>1. ASSUME NEW p \in Procs, Request(p) PROVE Promise!Ask(p)
    <3>1. outcome[p] # "pending"
      BY <2>1 DEF Request, Reported
    <3>2. outcome' = [outcome EXCEPT ![p] = "pending"]
      BY ZenonT(30), <2>1 DEF Request, Reported, RedirectInv, TypeOK
    <3>3. std' = std
      BY <2>1 DEF Request, Visible
    <3>4. PICK r \in Requests : req' = [req EXCEPT ![p] = r]
      BY <2>1 DEF Request
    <3>5. asked' = [asked EXCEPT ![p] = [fd |-> r.fd, name |-> r.name]]
      BY <3>4 DEF RedirectInv, TypeOK
    <3>6. [fd |-> r.fd, name |-> r.name] \in [fd : Std, name : Names]
      BY RequestShape
    <3> QED
      BY <3>1, <3>2, <3>3, <3>5, <3>6 DEF Promise!Ask
  <2>2. ASSUME NEW p \in Procs,
               AccessFinds(p) \/ OpenFails(p) \/ DupFails(p)
        PROVE  Promise!Refuse(p)
    <3>1. /\ step[p] \in {"access", "open", "dup2"}
          /\ step' = [step EXCEPT ![p] = "done"]
          /\ UNCHANGED <<fds, req>>
      BY <2>2 DEF AccessFinds, OpenFails, DupFails, Fail, Return
    <3>2. ret'[p] # 0 /\ \A q \in Procs \ {p} : ret'[q] = ret[q]
      <4> USE DEF RedirectInv, TypeOK
      <4>1. CASE AccessFinds(p)
        BY <4>1 DEF AccessFinds, Fail, Return, EEXIST
      <4>2. CASE OpenFails(p)
        <5>1. PICK e \in OpenErrors(p) : Fail(p, e, -1)
          BY <4>2 DEF OpenFails
        <5>2. e # 0
          BY <5>1 DEF OpenErrors, EACCES, ENOENT, EMFILE
        <5> QED
          BY <5>1, <5>2 DEF Fail, Return
      <4>3. CASE DupFails(p)
        <5>1. old_fd[p] # 0
          BY <4>3 DEF DupFails, StdStaysOpen, Std, Fds
        <5> QED
          BY <4>3, <5>1 DEF DupFails, Fail, Return, EBUSY
      <4> QED
        BY <2>2, <4>1, <4>2, <4>3
    <3>3. outcome[p] = "pending"
      BY <3>1 DEF Reported
    <3>4. outcome' = [outcome EXCEPT ![p] = "refused"]
      BY <3>1, <3>2 DEF Reported, RedirectInv, TypeOK
    <3>5. std' = std /\ asked' = asked
      BY <3>1 DEF Visible
    <3> QED
      BY <3>3, <3>4, <3>5 DEF Promise!Refuse
  <2>3. ASSUME NEW p \in Procs, AccessFindsNothing(p)
        PROVE  UNCHANGED Promise!specVars
    <3>1. outcome' = outcome
      BY <2>3 DEF AccessFindsNothing, Reported, RedirectInv, TypeOK
    <3>2. std' = std /\ asked' = asked
      BY <2>3 DEF AccessFindsNothing, Visible
    <3> QED
      BY <3>1, <3>2 DEF Promise!specVars
  <2>4. ASSUME NEW p \in Procs, Open(p) PROVE UNCHANGED Promise!specVars
    <3>1. PICK f \in Fds :
            /\ IsLowestFree(fds[p], f)
            /\ fds' = [fds EXCEPT ![p] = Opened(@, f, req[p].name)]
      BY <2>4 DEF Open
    <3>2. f \in Fds \ Std
      <4>1. fds[p] \in [Fds -> Contents] /\ \A g \in Std : fds[p][g] # Closed
        BY DEF RedirectInv, TypeOK, StdStaysOpen
      <4> QED
        BY <3>1, <4>1, NotStd
    <3>3. \A q \in Procs : \A g \in Std : fds'[q][g] = fds[q][g]
      BY <3>1, <3>2, FdAssumption
      DEF Opened, RedirectInv, TypeOK, Std, Fds
    <3>4. std' = std
      BY <3>3 DEF Visible
    <3>5. outcome' = outcome /\ asked' = asked
      BY <2>4 DEF Open, Reported, RedirectInv, TypeOK
    <3> QED
      BY <3>4, <3>5 DEF Promise!specVars
  <2>5. ASSUME NEW p \in Procs, Dup(p) PROVE Promise!Bind(p)
    <3>1. outcome[p] = "pending" /\ asked' = asked
      BY <2>5 DEF Dup, Reported
    <3>2. outcome' = [outcome EXCEPT ![p] = "bound"]
      BY <2>5 DEF Dup, Reported, RedirectInv, TypeOK
    <3>3. fds' = [fds EXCEPT ![p] = [@ EXCEPT ![req[p].fd] = req[p].name]]
      BY <2>5 DEF Dup, Dup2, RedirectInv, StdStaysOpen
    <3>4. Visible(p)' = [Visible(p) EXCEPT ![req[p].fd] = req[p].name]
      <4>1. \A f \in Std :
              fds'[p][f] = IF f = req[p].fd THEN req[p].name ELSE fds[p][f]
        BY <3>3, FdAssumption DEF RedirectInv, TypeOK, Std, Fds
      <4> QED
        BY <4>1 DEF Visible
    <3>5. \A q \in Procs \ {p} : Visible(q)' = Visible(q)
      BY <3>3 DEF Visible, RedirectInv, TypeOK
    <3>6. std' = [std EXCEPT ![p][asked[p].fd] = asked[p].name]
      BY <3>4, <3>5
    <3> QED
      BY <3>1, <3>2, <3>6 DEF Promise!Bind
  <2>6. ASSUME NEW p \in Procs, Close(p) PROVE UNCHANGED Promise!specVars
    <3>1. \A q \in Procs : \A g \in Std : fds'[q][g] = fds[q][g]
      BY <2>6, FdAssumption
      DEF Close, CloseFd, RedirectInv, StdStaysOpen, TypeOK, Std, Fds
    <3>2. std' = std
      BY <3>1 DEF Visible
    <3>3. outcome' = outcome /\ asked' = asked
      BY <2>6 DEF Close, Return, Reported, RedirectInv, TypeOK
    <3> QED
      BY <3>2, <3>3 DEF Promise!specVars
  <2>7. CASE UNCHANGED vars
    BY <2>7 DEF vars, Promise!specVars, Visible, Reported
  <2> QED
    BY <2>1, <2>2, <2>3, <2>4, <2>5, <2>6, <2>7
    DEF Next, SystemCall, Promise!Next
<1> QED
  BY <1>1, <1>2, Typed, Inductive, PTL DEF Spec, Promise!Safe
-------------------------------------------------------------------------------
(***************************************************************************)
(* The next two hold whatever the processes start with.                    *)
(***************************************************************************)

\* Since the request was made, only old_fd has changed outside Std: it was free
\* before, and until dup2() it is the file that was asked for.
OnlyOldFd ==
  \A p \in Procs :
    /\ step[p] \in {"access", "open"} => fds[p] = before[p].fds
    /\ step[p] \in {"dup2", "close"} =>
         /\ before[p].fds[old_fd[p]] = Closed
         /\ \A f \in Fds \ (Std \cup {old_fd[p]}) :
              fds[p][f] = before[p].fds[f]
    /\ step[p] = "dup2" => fds[p][old_fd[p]] = req[p].name

\* A redirection that succeeds hits no descriptor but a standard one and leaves
\* none open that was not open before; one that fails, at most the one that
\* open() had returned, if dup2() failed (io-redirect.c:46-50, 102-106).
THEOREM NothingLeaks == Spec => []NoLeak
<1>1. Init => OnlyOldFd /\ NoLeak
  BY DEF Init, OnlyOldFd, NoLeak
<1>2. TypeOK /\ OnlyOldFd /\ NoLeak /\ [Next]_vars => (OnlyOldFd /\ NoLeak)'
  <2> SUFFICES ASSUME TypeOK, OnlyOldFd, NoLeak, [Next]_vars
               PROVE  (OnlyOldFd /\ NoLeak)'
    OBVIOUS
  <2> USE DEF TypeOK, OnlyOldFd, NoLeak
  <2>1. ASSUME NEW p \in Procs, Request(p) PROVE (OnlyOldFd /\ NoLeak)'
    BY <2>1 DEF Request
  <2>2. ASSUME NEW p \in Procs,
               AccessFinds(p) \/ AccessFindsNothing(p) \/ OpenFails(p)
        PROVE  (OnlyOldFd /\ NoLeak)'
    <3>1. CASE AccessFinds(p)
      BY <3>1 DEF AccessFinds, Fail, Return
    <3>2. CASE AccessFindsNothing(p)
      BY <3>2 DEF AccessFindsNothing
    <3>3. CASE OpenFails(p)
      <4>1. PICK e \in OpenErrors(p) : Fail(p, e, -1)
        BY <3>3 DEF OpenFails
      <4> QED
        BY <3>3, <4>1 DEF OpenFails, Fail, Return
    <3> QED
      BY <2>2, <3>1, <3>2, <3>3
  <2>3. ASSUME NEW p \in Procs, DupFails(p) PROVE (OnlyOldFd /\ NoLeak)'
    <3>1. /\ step[p] = "dup2" /\ step' = [step EXCEPT ![p] = "done"]
          /\ ioerr' = [ioerr EXCEPT ![p] = EBUSY]
          /\ UNCHANGED <<fds, old_fd, req, before>>
      BY <2>3 DEF DupFails, Fail, Return
    <3>2. /\ ret'[p] # 0 /\ \A q \in Procs \ {p} : ret'[q] = ret[q]
      BY <2>3 DEF DupFails, Fail, Return, EBUSY
    <3> QED
      BY <3>1, <3>2
  <2>4. ASSUME NEW p \in Procs, Open(p) PROVE (OnlyOldFd /\ NoLeak)'
    BY <2>4 DEF Open, Opened, IsLowestFree
  <2>5. ASSUME NEW p \in Procs, Dup(p) PROVE (OnlyOldFd /\ NoLeak)'
    <3>1. req[p].fd \in Std
      BY RequestShape
    <3> QED
      BY <2>5, <3>1 DEF Dup, Dup2
  <2>6. ASSUME NEW p \in Procs, Close(p) PROVE (OnlyOldFd /\ NoLeak)'
    BY <2>6 DEF Close, CloseFd, Return
  <2>7. CASE UNCHANGED vars
    BY <2>7 DEF vars
  <2> QED
    <3> HIDE DEF TypeOK, OnlyOldFd, NoLeak
    <3> QED
      BY <2>1, <2>2, <2>3, <2>4, <2>5, <2>6, <2>7 DEF Next, SystemCall
<1> QED
  BY <1>1, <1>2, Typed, PTL DEF Spec

\* Files are not removed, and past access() the file of a -new request is one
\* that was not there when the request was made.
NotSeenBefore ==
  \A p \in Procs :
    /\ before[p].files \subseteq files
    /\ step[p] \in {"open", "dup2", "close"} /\ req[p].new =>
         req[p].name \notin before[p].files

\* A -new request never succeeds with a file that was there when it was made,
\* however many other processes create files meanwhile.
THEOREM OldFilesAreSafe == Spec => []OldFileRefused
<1>1. Init => NotSeenBefore /\ OldFileRefused
  BY DEF Init, NotSeenBefore, OldFileRefused
<1>2. TypeOK /\ NotSeenBefore /\ OldFileRefused /\ [Next]_vars
        => (NotSeenBefore /\ OldFileRefused)'
  <2> SUFFICES ASSUME TypeOK, NotSeenBefore, OldFileRefused, [Next]_vars
               PROVE  (NotSeenBefore /\ OldFileRefused)'
    OBVIOUS
  <2> USE DEF TypeOK, NotSeenBefore, OldFileRefused
  <2>1. ASSUME NEW p \in Procs, Request(p)
        PROVE  (NotSeenBefore /\ OldFileRefused)'
    BY <2>1 DEF Request
  <2>2. ASSUME NEW p \in Procs, AccessFinds(p)
        PROVE  (NotSeenBefore /\ OldFileRefused)'
    BY <2>2 DEF AccessFinds, Fail, Return, EEXIST
  <2>3. ASSUME NEW p \in Procs,
               AccessFindsNothing(p) \/ OpenFails(p) \/ DupFails(p)
        PROVE  (NotSeenBefore /\ OldFileRefused)'
    BY <2>3 DEF AccessFindsNothing, OpenFails, DupFails, Fail, Return
  <2>4. ASSUME NEW p \in Procs, Open(p) \/ Dup(p) \/ Close(p)
        PROVE  (NotSeenBefore /\ OldFileRefused)'
    BY <2>4 DEF Open, Dup, Close, Return
  <2>5. CASE UNCHANGED vars
    BY <2>5 DEF vars
  <2> QED
    <3> HIDE DEF TypeOK, NotSeenBefore, OldFileRefused
    <3> QED
      BY <2>1, <2>2, <2>3, <2>4, <2>5 DEF Next, SystemCall
<1> QED
  BY <1>1, <1>2, Typed, PTL DEF Spec
===============================================================================
