--------------------------- MODULE IoSelectProofs ---------------------------
(***************************************************************************)
(* What io_select() guarantees for any timeouts and any connect_relog, and *)
(* for as long as time goes on, proved with TLAPS.                         *)
(*                                                                         *)
(* The wait is cut into pieces by the log, so the argument is about what   *)
(* the pieces add up to: now, what select() still waits and what the       *)
(* caller's timeout was reduced to always make the moment the call's time  *)
(* is up.                                                                  *)
(***************************************************************************)
EXTENDS IoSelect, TLAPS

Waiting == {"loop", "select"}

TypeOK ==
  /\ pc \in {"caller"} \cup Waiting
  /\ now \in Nat /\ log_time \in Nat /\ called \in Nat /\ logged \in Nat
  /\ timeout \in Int /\ asked \in Int /\ internal \in Int /\ left \in Int

\* the caller's timeout while a call is under way
TimeoutInv ==
  pc \in Waiting =>
    /\ timeout = Infinite <=> asked = Infinite
    /\ timeout # Infinite => timeout >= 0

\* the pieces add up
SumInv ==
  timeout # Infinite =>
    /\ pc = "loop" => now + timeout = called + asked
    /\ pc = "select" => now + internal + timeout = called + asked

\* what select() waits is internal_timeout, unless SSL bytes are pending
LeftInv ==
  /\ pc \in Waiting /\ pending => now = called
  /\ pc = "select" => left = IF pending THEN 0 ELSE internal

\* the log is due connect_relog seconds after it was written
LogInv ==
  /\ log_time = logged + connect_relog
  /\ pc = "select" /\ Relogs /\ ~pending => now + left <= log_time

\* the inductive invariant
IInv == TypeOK /\ TimeoutInv /\ SumInv /\ LeftInv /\ LogInv

-----------------------------------------------------------------------------
\* Splitting a wait at the time of the log loses none of it, and its first piece
\* ends when the log is due.
LEMMA SplitAdds ==
  ASSUME TypeOK, Relogs, NEW t \in Nat
  PROVE  /\ NextLog \in Nat
         /\ Split(t)[1] \in Nat /\ Split(t)[2] \in Nat
         /\ Split(t)[1] + Split(t)[2] = t
         /\ Split(t)[1] <= NextLog
  BY RelogAssumption DEF TypeOK, Relogs, NextLog, Split

\* Initially no call is under way and the log has just been written.
LEMMA InitIInv == Init => IInv
<1> SUFFICES ASSUME Init PROVE IInv
  OBVIOUS
<1>1. TypeOK
  BY RelogAssumption DEF Init, TypeOK
<1>2. TimeoutInv /\ SumInv /\ LeftInv
  BY DEF Init, TimeoutInv, SumInv, LeftInv, Waiting
<1>3. LogInv
  BY RelogAssumption DEF Init, LogInv
<1> QED
  BY <1>1, <1>2, <1>3 DEF IInv

\* A call starts with the timeout it was made with.
LEMMA CallStep == IInv /\ Calls => IInv'
  BY TimeoutsAssumption
     DEF IInv, TypeOK, TimeoutInv, SumInv, LeftInv, LogInv, Waiting, Infinite,
         Calls, Call, Garbage, Relogs

\* One round of the loop: the log is repeated if it is due, and the time to wait
\* is split.
LEMMA LoopStep == IInv /\ Loop => IInv'
<1> SUFFICES ASSUME IInv, Loop PROVE IInv'
  OBVIOUS
<1> USE DEF IInv, Waiting, Infinite
<1>0. /\ pc = "loop" /\ pc' = "select" /\ now' = now /\ asked' = asked
      /\ called' = called /\ pending' = pending /\ piping' = piping
      /\ left' = IF pending THEN 0 ELSE internal'
  BY DEF Loop, call, SelectTimeout
<1>1. CASE Relogs /\ timeout = Infinite
  <2>1. NextLog \in Nat /\ internal' = NextLog /\ timeout' = timeout
    BY <1>1, SplitAdds DEF Loop
  <2>2. log_time' \in Nat /\ logged' \in Nat /\ now + NextLog = log_time'
        /\ log_time' = logged' + connect_relog
    BY <1>1, RelogAssumption DEF Loop, TypeOK, NextLog, LogInv, Relogs
  <2>3. TypeOK'
    BY <1>0, <2>1, <2>2 DEF TypeOK
  <2>4. LeftInv'
    BY <1>0 DEF LeftInv
  <2>5. TimeoutInv' /\ SumInv'
    BY <1>0, <1>1, <2>1 DEF TimeoutInv, SumInv
  <2>6. LogInv'
    BY <1>0, <2>1, <2>2 DEF TypeOK, LogInv
  <2> QED
    BY <2>3, <2>4, <2>5, <2>6
<1>2. CASE Relogs /\ timeout # Infinite
  <2>1. timeout \in Nat
    BY <1>2 DEF TypeOK, TimeoutInv, Loop
  <2>2. /\ internal' = Split(timeout)[1] /\ timeout' = Split(timeout)[2]
        /\ internal' \in Nat /\ timeout' \in Nat /\ internal' + timeout' = timeout
        /\ internal' <= NextLog /\ NextLog \in Nat
    BY <1>2, <2>1, SplitAdds DEF Loop
  <2>3. log_time' \in Nat /\ logged' \in Nat /\ now + NextLog = log_time'
        /\ log_time' = logged' + connect_relog
    BY <1>2, RelogAssumption DEF Loop, TypeOK, NextLog, LogInv, Relogs
  <2>4. TypeOK'
    BY <1>0, <2>2, <2>3 DEF TypeOK
  <2>5. LeftInv'
    BY <1>0 DEF LeftInv
  <2>6. TimeoutInv' /\ SumInv'
    BY <1>0, <1>2, <2>1, <2>2 DEF TypeOK, TimeoutInv, SumInv
  <2>7. LogInv'
    BY <1>0, <2>2, <2>3 DEF TypeOK, LogInv
  <2> QED
    BY <2>4, <2>5, <2>6, <2>7
<1>3. CASE ~Relogs
  BY <1>3
     DEF Loop, TypeOK, TimeoutInv, SumInv, LeftInv, LogInv, SelectTimeout, Relogs, call
<1> QED
  BY <1>1, <1>2, <1>3

\* select() waits, ends or fails; the caller goes on.
LEMMA OtherSteps ==
  IInv /\ (Tick \/ Ready \/ Interrupted \/ Invalid \/ Expired \/ Busy) => IInv'
  BY DEF IInv, TypeOK, TimeoutInv, SumInv, LeftInv, LogInv, Waiting, Infinite, Relogs,
         Tick, Ready, Interrupted, Invalid, Expired, Busy, Return, call

\* A step that changes nothing.
LEMMA StutterStep == IInv /\ UNCHANGED vars => IInv'
  BY DEF IInv, TypeOK, TimeoutInv, SumInv, LeftInv, LogInv, Relogs, vars

\* The inductive invariant of io_select().
THEOREM Invariance == Spec => []IInv
<1>1. IInv /\ [Next]_vars => IInv'
  BY CallStep, LoopStep, OtherSteps, StutterStep DEF Next
<1> QED
  BY InitIInv, <1>1, PTL DEF Spec

-----------------------------------------------------------------------------
(* The properties.                                                         *)

\* The variables of io_select() keep their types; a timeout that is given never
\* becomes the endless one.
THEOREM TypeCorrect == Spec => [](TypeOK /\ TimeoutInv)
<1>1. IInv => TypeOK /\ TimeoutInv
  BY DEF IInv
<1> QED
  BY Invariance, <1>1, PTL

\* No wait of a piped session lasts beyond the moment its log line is due, for any
\* timeout and any connect_relog.
THEOREM LogOnTime == Spec => []LogIsOnTime
<1>1. IInv => LogIsOnTime
  BY DEF IInv, LogInv, LogIsOnTime
<1> QED
  BY Invariance, <1>1, PTL

\* A call that reports its timeout does so when exactly that time has passed,
\* however often the log has cut the wait.
THEOREM ExactTimeout == Spec => TimeoutIsExact
<1>1. IInv /\ [Next]_vars =>
        [Returns /\ status' = "timeout" => now = called + asked]_vars
  <2> SUFFICES ASSUME IInv, Next, Returns, status' = "timeout"
               PROVE  now = called + asked
    BY DEF vars
  <2>1. Expired /\ timeout = 0
    BY DEF Next, Calls, Call, Loop, Tick, Ready, Interrupted, Invalid, Expired, Busy,
           Return, Returns
  <2> QED
    BY <2>1 DEF IInv, TypeOK, SumInv, LeftInv, Returns, Expired, Infinite
<1> QED
  BY Invariance, <1>1, PTL DEF Spec, TimeoutIsExact

\* A call that is made while the SSL library holds bytes returns in the second it
\* was made, as ready.
THEOREM PendingServed == Spec => PendingIsServed
<1>1. IInv /\ [Next]_vars =>
        [Returns /\ pending => now = called /\ status' = "ready"]_vars
  <2> SUFFICES ASSUME IInv, Next, Returns, pending
               PROVE  now = called /\ status' = "ready"
    BY DEF vars
  <2>1. left = 0 /\ now = called
    BY DEF IInv, LeftInv, Returns, Waiting
  <2>2. Ready
    BY <2>1 DEF Next, Calls, Call, Loop, Tick, Ready, Interrupted, Invalid, Expired,
                Busy, Returns
  <2> QED
    BY <2>1, <2>2 DEF Ready, Return
<1> QED
  BY Invariance, <1>1, PTL DEF Spec, PendingIsServed
=============================================================================
