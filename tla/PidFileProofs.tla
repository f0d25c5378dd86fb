---------------------------- MODULE PidFileProofs ----------------------------
(***************************************************************************)
(* As long as starts do not overlap and no child is signalled in the       *)
(* moment between fork() and pid_file = NULL, the pid file is right, for   *)
(* any number of processes that are started, signalled and killed.  Proved *)
(* with TLAPS.  The condition is needed: two starts that overlap on a      *)
(* stale file both get through.                                            *)
(***************************************************************************)
EXTENDS PidFile, TLAPS

\* one process starts at a time
StartInv ==
  \A p, q \in Procs : pc[p] \in Starting /\ pc[q] \in Starting => p = q

\* from open() on, the file is the starting or the listening process's own
OwnerInv ==
  \A p \in Procs :
    /\ pc[p] \in {"write", "assign", "bind", "listen"} => file = p
    /\ pc[p] \in {"assign", "bind", "listen"} => p \in written

\* only processes that got their pid file would remove it
RemoveInv == \A p \in pid_file : pc[p] \in {"bind", "listen"}

\* what a starting process has read is about the file that is still there,
\* and what it is about to unlink is a dead process's
StaleInv ==
  \A p \in Procs :
    /\ pc[p] \in {"read", "check", "unlink"} => fd[p] \in Procs
                                               /\ file \in {fd[p], None}
    /\ pc[p] = "unlink" => ~Running(fd[p])

\* files and pids are those of processes that were started
StartedInv ==
  /\ file \in Procs => pc[file] # "off"
  /\ \A p \in Procs :
       pc[p] \in {"read", "check", "unlink"} => pc[fd[p]] # "off"

\* what holds while order is kept
Kept == StartInv /\ OwnerInv /\ RemoveInv /\ StaleInv /\ StartedInv

\* the inductive invariant
IInv == TypeOK /\ (order = "kept" => Kept)

\* The invariant holds before any process is started.
LEMMA InitIInv == Init => IInv
  BY ProcsAssumption
  DEF Init, IInv, Kept, TypeOK, StartInv, OwnerInv, RemoveInv, StaleInv, StartedInv,
      Starting

\* Types after a step.
LEMMA TypeStep ==
  ASSUME TypeOK, [Next]_vars
  PROVE  TypeOK'
<1> USE ProcsAssumption DEF TypeOK, Starting
<1>1. ASSUME NEW p \in Procs, Start(p)
      PROVE  TypeOK'
  BY <1>1 DEF Start
<1>2. ASSUME NEW p \in Procs, Stat(p)
      PROVE  TypeOK'
  BY <1>2 DEF Stat
<1>3. ASSUME NEW p \in Procs, Mkdir(p)
      PROVE  TypeOK'
  BY <1>3 DEF Mkdir, Refuse
<1>4. ASSUME NEW p \in Procs, Create(p)
      PROVE  TypeOK'
  BY <1>4 DEF Create
<1>5. ASSUME NEW p \in Procs, Open(p)
      PROVE  TypeOK'
  BY <1>5 DEF Open, Refuse
<1>6. ASSUME NEW p \in Procs, Read(p)
      PROVE  TypeOK'
  BY <1>6 DEF Read, Refuse
<1>7. ASSUME NEW p \in Procs, Check(p)
      PROVE  TypeOK'
  BY <1>7 DEF Check, Refuse, OwnerRuns
<1>8. ASSUME NEW p \in Procs, Unlink(p)
      PROVE  TypeOK'
  BY <1>8 DEF Unlink, Refuse
<1>9. ASSUME NEW p \in Procs, Write(p)
      PROVE  TypeOK'
  BY <1>9 DEF Write
<1>10. ASSUME NEW p \in Procs, WriteFails(p)
      PROVE  TypeOK'
  BY <1>10 DEF WriteFails
<1>11. ASSUME NEW p \in Procs, Assign(p)
      PROVE  TypeOK'
  BY <1>11 DEF Assign
<1>12. ASSUME NEW p \in Procs, Bind(p)
      PROVE  TypeOK'
  BY <1>12 DEF Bind, ExitCleanly
<1>13. ASSUME NEW p \in Procs, Fork(p)
      PROVE  TypeOK'
  BY <1>13 DEF Fork
<1>14. ASSUME NEW p \in Procs, ChildForgets(p)
      PROVE  TypeOK'
  BY <1>14 DEF ChildForgets
<1>15. ASSUME NEW p \in Procs, ChildExit(p)
      PROVE  TypeOK'
  BY <1>15 DEF ChildExit, ChildUnlinks
<1>16. ASSUME NEW p \in Procs, Signal(p)
      PROVE  TypeOK'
  BY <1>16 DEF Signal, ExitCleanly
<1>17. ASSUME NEW p \in Procs, Kill(p)
      PROVE  TypeOK'
  BY <1>17 DEF Kill
<1>18. CASE UNCHANGED vars
  BY <1>18 DEF vars
<1> QED
  BY <1>1, <1>2, <1>3, <1>4, <1>5, <1>6, <1>7, <1>8, <1>9, <1>10, <1>11,
     <1>12, <1>13, <1>14, <1>15, <1>16, <1>17, <1>18
  DEF Next, Step

\* Starts stay one after the other.
LEMMA StartStep ==
  ASSUME TypeOK, Kept, [Next]_vars, order' = "kept"
  PROVE  StartInv'
<1> USE ProcsAssumption DEF Kept, TypeOK, StartInv, Starting
<1>1. ASSUME NEW p \in Procs, Start(p)
      PROVE  StartInv'
  BY <1>1 DEF Start
<1>2. ASSUME NEW p \in Procs, Stat(p)
      PROVE  StartInv'
  BY <1>2 DEF Stat
<1>3. ASSUME NEW p \in Procs, Mkdir(p)
      PROVE  StartInv'
  BY <1>3 DEF Mkdir, Refuse
<1>4. ASSUME NEW p \in Procs, Create(p)
      PROVE  StartInv'
  BY <1>4 DEF Create
<1>5. ASSUME NEW p \in Procs, Open(p)
      PROVE  StartInv'
  BY <1>5 DEF Open, Refuse
<1>6. ASSUME NEW p \in Procs, Read(p)
      PROVE  StartInv'
  BY <1>6 DEF Read, Refuse
<1>7. ASSUME NEW p \in Procs, Check(p)
      PROVE  StartInv'
  BY <1>7 DEF Check, Refuse, OwnerRuns
<1>8. ASSUME NEW p \in Procs, Unlink(p)
      PROVE  StartInv'
  BY <1>8 DEF Unlink, Refuse
<1>9. ASSUME NEW p \in Procs, Write(p)
      PROVE  StartInv'
  BY <1>9 DEF Write
<1>10. ASSUME NEW p \in Procs, WriteFails(p)
      PROVE  StartInv'
  BY <1>10 DEF WriteFails
<1>11. ASSUME NEW p \in Procs, Assign(p)
      PROVE  StartInv'
  BY <1>11 DEF Assign
<1>12. ASSUME NEW p \in Procs, Bind(p)
      PROVE  StartInv'
  BY <1>12 DEF Bind, ExitCleanly
<1>13. ASSUME NEW p \in Procs, Fork(p)
      PROVE  StartInv'
  BY <1>13 DEF Fork
<1>14. ASSUME NEW p \in Procs, ChildForgets(p)
      PROVE  StartInv'
  BY <1>14 DEF ChildForgets
<1>15. ASSUME NEW p \in Procs, ChildExit(p)
      PROVE  StartInv'
  BY <1>15 DEF ChildExit, ChildUnlinks
<1>16. ASSUME NEW p \in Procs, Signal(p)
      PROVE  StartInv'
  BY <1>16 DEF Signal, ExitCleanly
<1>17. ASSUME NEW p \in Procs, Kill(p)
      PROVE  StartInv'
  BY <1>17 DEF Kill
<1>18. CASE UNCHANGED vars
  BY <1>18 DEF vars
<1> QED
  BY <1>1, <1>2, <1>3, <1>4, <1>5, <1>6, <1>7, <1>8, <1>9, <1>10, <1>11,
     <1>12, <1>13, <1>14, <1>15, <1>16, <1>17, <1>18
  DEF Next, Step

\* Nobody removes the file of the process that starts or listens.
LEMMA OwnerStep ==
  ASSUME TypeOK, Kept, [Next]_vars, order' = "kept"
  PROVE  OwnerInv'
<1> USE ProcsAssumption DEF Kept, TypeOK, StartInv, OwnerInv, RemoveInv,
        StaleInv, Starting, Running
<1>1. ASSUME NEW p \in Procs, Start(p)
      PROVE  OwnerInv'
  BY <1>1 DEF Start
<1>2. ASSUME NEW p \in Procs, Stat(p)
      PROVE  OwnerInv'
  BY <1>2 DEF Stat
<1>3. ASSUME NEW p \in Procs, Mkdir(p)
      PROVE  OwnerInv'
  BY <1>3 DEF Mkdir, Refuse
<1>4. ASSUME NEW p \in Procs, Create(p)
      PROVE  OwnerInv'
  BY <1>4 DEF Create
<1>5. ASSUME NEW p \in Procs, Open(p)
      PROVE  OwnerInv'
  BY <1>5 DEF Open, Refuse
<1>6. ASSUME NEW p \in Procs, Read(p)
      PROVE  OwnerInv'
  BY <1>6 DEF Read, Refuse
<1>7. ASSUME NEW p \in Procs, Check(p)
      PROVE  OwnerInv'
  BY <1>7 DEF Check, Refuse, OwnerRuns
<1>8. ASSUME NEW p \in Procs, Unlink(p)
      PROVE  OwnerInv'
  BY <1>8 DEF Unlink, Refuse
<1>9. ASSUME NEW p \in Procs, Write(p)
      PROVE  OwnerInv'
  BY <1>9 DEF Write
<1>10. ASSUME NEW p \in Procs, WriteFails(p)
      PROVE  OwnerInv'
  BY <1>10 DEF WriteFails
<1>11. ASSUME NEW p \in Procs, Assign(p)
      PROVE  OwnerInv'
  BY <1>11 DEF Assign
<1>12. ASSUME NEW p \in Procs, Bind(p)
      PROVE  OwnerInv'
  BY <1>12 DEF Bind, ExitCleanly
<1>13. ASSUME NEW p \in Procs, Fork(p)
      PROVE  OwnerInv'
  BY <1>13 DEF Fork
<1>14. ASSUME NEW p \in Procs, ChildForgets(p)
      PROVE  OwnerInv'
  BY <1>14 DEF ChildForgets
<1>15. ASSUME NEW p \in Procs, ChildExit(p)
      PROVE  OwnerInv'
  BY <1>15 DEF ChildExit, ChildUnlinks
<1>16. ASSUME NEW p \in Procs, Signal(p)
      PROVE  OwnerInv'
  BY <1>16 DEF Signal, ExitCleanly
<1>17. ASSUME NEW p \in Procs, Kill(p)
      PROVE  OwnerInv'
  BY <1>17 DEF Kill
<1>18. CASE UNCHANGED vars
  BY <1>18 DEF vars
<1> QED
  BY <1>1, <1>2, <1>3, <1>4, <1>5, <1>6, <1>7, <1>8, <1>9, <1>10, <1>11,
     <1>12, <1>13, <1>14, <1>15, <1>16, <1>17, <1>18
  DEF Next, Step

\* pid_file is set in the process that has the file, and in no other.
LEMMA RemoveStep ==
  ASSUME TypeOK, Kept, [Next]_vars, order' = "kept"
  PROVE  RemoveInv'
<1> USE ProcsAssumption DEF Kept, TypeOK, RemoveInv, Running
<1>1. ASSUME NEW p \in Procs, Start(p)
      PROVE  RemoveInv'
  BY <1>1 DEF Start
<1>2. ASSUME NEW p \in Procs, Stat(p)
      PROVE  RemoveInv'
  BY <1>2 DEF Stat
<1>3. ASSUME NEW p \in Procs, Mkdir(p)
      PROVE  RemoveInv'
  BY <1>3 DEF Mkdir, Refuse
<1>4. ASSUME NEW p \in Procs, Create(p)
      PROVE  RemoveInv'
  BY <1>4 DEF Create
<1>5. ASSUME NEW p \in Procs, Open(p)
      PROVE  RemoveInv'
  BY <1>5 DEF Open, Refuse
<1>6. ASSUME NEW p \in Procs, Read(p)
      PROVE  RemoveInv'
  BY <1>6 DEF Read, Refuse
<1>7. ASSUME NEW p \in Procs, Check(p)
      PROVE  RemoveInv'
  BY <1>7 DEF Check, Refuse, OwnerRuns
<1>8. ASSUME NEW p \in Procs, Unlink(p)
      PROVE  RemoveInv'
  BY <1>8 DEF Unlink, Refuse
<1>9. ASSUME NEW p \in Procs, Write(p)
      PROVE  RemoveInv'
  BY <1>9 DEF Write
<1>10. ASSUME NEW p \in Procs, WriteFails(p)
      PROVE  RemoveInv'
  BY <1>10 DEF WriteFails
<1>11. ASSUME NEW p \in Procs, Assign(p)
      PROVE  RemoveInv'
  BY <1>11 DEF Assign
<1>12. ASSUME NEW p \in Procs, Bind(p)
      PROVE  RemoveInv'
  BY <1>12 DEF Bind, ExitCleanly
<1>13. ASSUME NEW p \in Procs, Fork(p)
      PROVE  RemoveInv'
  BY <1>13 DEF Fork
<1>14. ASSUME NEW p \in Procs, ChildForgets(p)
      PROVE  RemoveInv'
  BY <1>14 DEF ChildForgets
<1>15. ASSUME NEW p \in Procs, ChildExit(p)
      PROVE  RemoveInv'
  BY <1>15 DEF ChildExit, ChildUnlinks
<1>16. ASSUME NEW p \in Procs, Signal(p)
      PROVE  RemoveInv'
  BY <1>16 DEF Signal, ExitCleanly
<1>17. ASSUME NEW p \in Procs, Kill(p)
      PROVE  RemoveInv'
  BY <1>17 DEF Kill
<1>18. CASE UNCHANGED vars
  BY <1>18 DEF vars
<1> QED
  BY <1>1, <1>2, <1>3, <1>4, <1>5, <1>6, <1>7, <1>8, <1>9, <1>10, <1>11,
     <1>12, <1>13, <1>14, <1>15, <1>16, <1>17, <1>18
  DEF Next, Step

\* What was read stays true until the file is unlinked.
LEMMA StaleStep ==
  ASSUME TypeOK, Kept, [Next]_vars, order' = "kept"
  PROVE  StaleInv'
<1> USE ProcsAssumption DEF Kept, TypeOK, StartInv, OwnerInv, RemoveInv,
        StaleInv, StartedInv, Starting, Running
<1>1. ASSUME NEW p \in Procs, Start(p)
      PROVE  StaleInv'
  BY <1>1 DEF Start
<1>2. ASSUME NEW p \in Procs, Stat(p)
      PROVE  StaleInv'
  BY <1>2 DEF Stat
<1>3. ASSUME NEW p \in Procs, Mkdir(p)
      PROVE  StaleInv'
  BY <1>3 DEF Mkdir, Refuse
<1>4. ASSUME NEW p \in Procs, Create(p)
      PROVE  StaleInv'
  BY <1>4 DEF Create
<1>5. ASSUME NEW p \in Procs, Open(p)
      PROVE  StaleInv'
  BY <1>5 DEF Open, Refuse
<1>6. ASSUME NEW p \in Procs, Read(p)
      PROVE  StaleInv'
  BY <1>6 DEF Read, Refuse
<1>7. ASSUME NEW p \in Procs, Check(p)
      PROVE  StaleInv'
  BY <1>7 DEF Check, Refuse, OwnerRuns
<1>8. ASSUME NEW p \in Procs, Unlink(p)
      PROVE  StaleInv'
  BY <1>8 DEF Unlink, Refuse
<1>9. ASSUME NEW p \in Procs, Write(p)
      PROVE  StaleInv'
  BY <1>9 DEF Write
<1>10. ASSUME NEW p \in Procs, WriteFails(p)
      PROVE  StaleInv'
  BY <1>10 DEF WriteFails
<1>11. ASSUME NEW p \in Procs, Assign(p)
      PROVE  StaleInv'
  BY <1>11 DEF Assign
<1>12. ASSUME NEW p \in Procs, Bind(p)
      PROVE  StaleInv'
  BY <1>12 DEF Bind, ExitCleanly
<1>13. ASSUME NEW p \in Procs, Fork(p)
      PROVE  StaleInv'
  BY <1>13 DEF Fork
<1>14. ASSUME NEW p \in Procs, ChildForgets(p)
      PROVE  StaleInv'
  BY <1>14 DEF ChildForgets
<1>15. ASSUME NEW p \in Procs, ChildExit(p)
      PROVE  StaleInv'
  BY <1>15 DEF ChildExit, ChildUnlinks
<1>16. ASSUME NEW p \in Procs, Signal(p)
      PROVE  StaleInv'
  BY <1>16 DEF Signal, ExitCleanly
<1>17. ASSUME NEW p \in Procs, Kill(p)
      PROVE  StaleInv'
  BY <1>17 DEF Kill
<1>18. CASE UNCHANGED vars
  BY <1>18 DEF vars
<1> QED
  BY <1>1, <1>2, <1>3, <1>4, <1>5, <1>6, <1>7, <1>8, <1>9, <1>10, <1>11,
     <1>12, <1>13, <1>14, <1>15, <1>16, <1>17, <1>18
  DEF Next, Step

\* Files are made by processes that were started.
LEMMA StartedStep ==
  ASSUME TypeOK, Kept, [Next]_vars, order' = "kept"
  PROVE  StartedInv'
<1> USE ProcsAssumption DEF Kept, TypeOK, StartedInv, StaleInv,
        Running
<1>1. ASSUME NEW p \in Procs, Start(p)
      PROVE  StartedInv'
  BY <1>1 DEF Start
<1>2. ASSUME NEW p \in Procs, Stat(p)
      PROVE  StartedInv'
  BY <1>2 DEF Stat
<1>3. ASSUME NEW p \in Procs, Mkdir(p)
      PROVE  StartedInv'
  BY <1>3 DEF Mkdir, Refuse
<1>4. ASSUME NEW p \in Procs, Create(p)
      PROVE  StartedInv'
  BY <1>4 DEF Create
<1>5. ASSUME NEW p \in Procs, Open(p)
      PROVE  StartedInv'
  BY <1>5 DEF Open, Refuse
<1>6. ASSUME NEW p \in Procs, Read(p)
      PROVE  StartedInv'
  BY <1>6 DEF Read, Refuse
<1>7. ASSUME NEW p \in Procs, Check(p)
      PROVE  StartedInv'
  BY <1>7 DEF Check, Refuse, OwnerRuns
<1>8. ASSUME NEW p \in Procs, Unlink(p)
      PROVE  StartedInv'
  BY <1>8 DEF Unlink, Refuse
<1>9. ASSUME NEW p \in Procs, Write(p)
      PROVE  StartedInv'
  BY <1>9 DEF Write
<1>10. ASSUME NEW p \in Procs, WriteFails(p)
      PROVE  StartedInv'
  BY <1>10 DEF WriteFails
<1>11. ASSUME NEW p \in Procs, Assign(p)
      PROVE  StartedInv'
  BY <1>11 DEF Assign
<1>12. ASSUME NEW p \in Procs, Bind(p)
      PROVE  StartedInv'
  BY <1>12 DEF Bind, ExitCleanly
<1>13. ASSUME NEW p \in Procs, Fork(p)
      PROVE  StartedInv'
  BY <1>13 DEF Fork
<1>14. ASSUME NEW p \in Procs, ChildForgets(p)
      PROVE  StartedInv'
  BY <1>14 DEF ChildForgets
<1>15. ASSUME NEW p \in Procs, ChildExit(p)
      PROVE  StartedInv'
  BY <1>15 DEF ChildExit, ChildUnlinks
<1>16. ASSUME NEW p \in Procs, Signal(p)
      PROVE  StartedInv'
  BY <1>16 DEF Signal, ExitCleanly
<1>17. ASSUME NEW p \in Procs, Kill(p)
      PROVE  StartedInv'
  BY <1>17 DEF Kill
<1>18. CASE UNCHANGED vars
  BY <1>18 DEF vars
<1> QED
  BY <1>1, <1>2, <1>3, <1>4, <1>5, <1>6, <1>7, <1>8, <1>9, <1>10, <1>11,
     <1>12, <1>13, <1>14, <1>15, <1>16, <1>17, <1>18
  DEF Next, Step

\* Order that is broken stays broken.
LEMMA OrderStep ==
  ASSUME TypeOK, [Next]_vars, order' = "kept"
  PROVE  order = "kept"
  BY DEF TypeOK, Next, Step, vars, Start, Stat, Mkdir, Create, Open, Read, Check,
         Unlink, Write, WriteFails, Assign, Bind, Fork, ChildForgets, ChildExit,
         Signal, Kill, Refuse, ExitCleanly

-----------------------------------------------------------------------------
\* The inductive invariant holds in every reachable state.
THEOREM Invariance == Spec => []IInv
<1>1. IInv /\ [Next]_vars => IInv'
  <2> SUFFICES ASSUME IInv, [Next]_vars
               PROVE  IInv'
    OBVIOUS
  <2>1. TypeOK'
    BY TypeStep DEF IInv
  <2>2. ASSUME order' = "kept"
        PROVE  Kept'
    <3>1. TypeOK /\ Kept
      BY <2>2, OrderStep DEF IInv
    <3> QED
      BY <2>2, <3>1, StartStep, OwnerStep, RemoveStep, StaleStep, StartedStep
      DEF Kept
  <2> QED
    BY <2>1, <2>2 DEF IInv
<1> QED
  BY InitIInv, <1>1, PTL DEF Spec

\* write_pid_file() and perdition_exit_cleanly() keep their variables typed.
THEOREM TypeCorrect == Spec => []TypeOK
<1>1. IInv => TypeOK
  BY DEF IInv
<1> QED
  BY Invariance, <1>1, PTL

\* The pid file of a master that accepts connections names it: while order is
\* kept no start, exit, kill or child takes it away.
THEOREM NamedListener == Spec => []ListenerIsNamed
<1>1. IInv => ListenerIsNamed
  BY DEF IInv, Kept, OwnerInv, ListenerIsNamed
<1> QED
  BY Invariance, <1>1, PTL

\* While order is kept write_pid_file() succeeds in one process at a time.
THEOREM SingleInstance == Spec => []OneAtATime
<1>1. IInv => OneAtATime
  BY DEF IInv, Kept, OwnerInv, OneAtATime
<1> QED
  BY Invariance, <1>1, PTL
=============================================================================
