------------------------------ MODULE IoSelect -------------------------------
(***************************************************************************)
(* io_select() of io_select.c: select() for connections that may be        *)
(* encrypted, which also repeats the log line of the session every         *)
(* connect_relog seconds.  io_read() calls it without a log, io_pipe()     *)
(* with the log of the session, each with the idle timeout or with NULL.   *)
(*                                                                         *)
(* Time is in seconds.  select() leaves what it did not wait in its        *)
(* timeout argument, as on Linux.                                          *)
(***************************************************************************)
EXTENDS Integers

CONSTANTS
  Timeouts,       \* idle timeouts in use, Infinite for NULL
  connect_relog,  \* the option connect_relog, 0 for never
  MaxTime         \* bound: seconds that pass

Infinite == -1

ASSUME TimeoutsAssumption == Timeouts \subseteq Nat \cup {Infinite}
ASSUME RelogAssumption == connect_relog \in Nat /\ MaxTime \in Nat

VARIABLES
  pc,        \* "caller", at the "loop"'s top, or in "select"
  now,       \* time()
  piping,    \* whether the call has a session log
  log_time,  \* s->log->log_time
  timeout,   \* the caller's timeout, Infinite if NULL
  internal,  \* internal_timeout
  pending,   \* whether the SSL library holds bytes that were not read yet
  left,      \* what select() still waits
  status,    \* how the latest call ended
  asked,     \* history: the timeout the call was made with
  called,    \* history: when
  logged     \* history: when the session was logged last

vars == <<pc, now, piping, log_time, timeout, internal, pending, left, status,
          asked, called, logged>>
call == <<piping, pending, asked, called>>

Relogs == piping /\ connect_relog # 0

\* what an automatic variable may hold before it is set: a time that select()
\* refuses, or any other
Garbage == {-1, 0, 1}

\* io_read() or io_pipe()'s vanessa_socket_pipe_func()
Call(p, t, ssl) ==
  /\ pc = "caller"
  /\ piping' = p /\ timeout' = t /\ pending' = ssl
  /\ asked' = t /\ called' = now
  /\ internal' \in Garbage
  /\ pc' = "loop" /\ status' = "none"
  /\ UNCHANGED <<now, log_time, left, logged>>

\* the seconds until the log line is due again, after it was repeated
NextLog == IF now >= log_time THEN connect_relog ELSE log_time - now

SplitPastLog(t) == <<t, 0>>                 \* mutant: the log does not wake

\* the time that is to wait: a select() up to the next log, and the rest
Split(t) == IF t > NextLog THEN <<NextLog, t - NextLog>> ELSE <<t, 0>>

IgnorePending(i) == i                       \* mutant: SSL_pending() dropped

\* __io_select(): bytes that the SSL library holds are there at once
SelectTimeout(i) == IF pending THEN 0 ELSE i

\* one round of while(1) up to select()
Loop ==
  /\ pc = "loop"
  /\ \/ /\ Relogs
        /\ log_time' = IF now >= log_time THEN now + connect_relog ELSE log_time
        /\ logged' = IF now >= log_time THEN now ELSE logged
        /\ IF timeout = Infinite
           THEN internal' = NextLog /\ UNCHANGED timeout
           ELSE /\ internal' = Split(timeout)[1]
                /\ timeout' = Split(timeout)[2]
     \/ /\ ~Relogs
        /\ IF timeout = Infinite
           THEN UNCHANGED <<internal, timeout>>
           ELSE internal' = timeout /\ timeout' = 0
        /\ UNCHANGED <<log_time, logged>>
  /\ left' = SelectTimeout(internal')
  /\ pc' = "select"
  /\ UNCHANGED <<now, status, call>>

\* a second passes in select()
Tick ==
  /\ pc = "select" /\ left > 0 /\ now < MaxTime
  /\ now' = now + 1 /\ left' = left - 1
  /\ internal' = IF pending THEN internal ELSE internal - 1
  /\ UNCHANGED <<pc, log_time, timeout, status, logged, call>>

\* the way out: what was not waited is reported
Return(how) ==
  /\ status' = how /\ pc' = "caller"
  /\ timeout' = IF timeout = Infinite THEN Infinite ELSE timeout + internal

\* a connection is readable, or in error; or SSL bytes are pending
Ready ==
  /\ pc = "select" /\ left >= 0
  /\ Return("ready")
  /\ UNCHANGED <<now, log_time, internal, left, logged, call>>

\* select() fails: EINTR
Interrupted ==
  /\ pc = "select" /\ left > 0
  /\ Return("interrupted")
  /\ UNCHANGED <<now, log_time, internal, left, logged, call>>

\* select() fails: EINVAL
Invalid ==
  /\ pc = "select" /\ left < 0
  /\ Return("invalid")
  /\ UNCHANGED <<now, log_time, internal, left, logged, call>>

ExpiredAtOnce ==               \* mutant: any select() that expires is the timeout
  /\ pc = "select" /\ left = 0 /\ ~pending
  /\ Return("timeout")
  /\ UNCHANGED <<now, log_time, internal, left, logged, call>>

\* nothing happened for that long: the rest of the timeout, or the return
Expired ==
  /\ pc = "select" /\ left = 0 /\ ~pending
  /\ IF timeout = 0
     THEN Return("timeout")
     ELSE pc' = "loop" /\ UNCHANGED <<status, timeout>>
  /\ UNCHANGED <<now, log_time, internal, left, logged, call>>

\* the caller is busy for a second
Busy ==
  /\ pc = "caller" /\ now < MaxTime
  /\ now' = now + 1
  /\ UNCHANGED <<pc, log_time, timeout, internal, left, status, logged, call>>

\* perdition_log_auth() has set log_time
Init ==
  /\ pc = "caller" /\ now = 0 /\ piping = FALSE /\ log_time = connect_relog
  /\ timeout = 0 /\ internal = 0 /\ pending = FALSE /\ left = 0
  /\ status = "none" /\ asked = 0 /\ called = 0 /\ logged = 0

Calls == \E p, ssl \in BOOLEAN, t \in Timeouts : Call(p, t, ssl)

Next ==
  Calls \/ Loop \/ Tick \/ Ready \/ Interrupted \/ Invalid \/ Expired \/ Busy

Spec == Init /\ [][Next]_vars

-----------------------------------------------------------------------------
\* io_select() returns
Returns == pc = "select" /\ pc' = "caller"

\* The idle timeout is exact although the wait is cut into pieces by the log:
\* a call reports it when its time is up, not earlier and not later.
TimeoutIsExact ==
  [][Returns /\ status' = "timeout" => now = called + asked]_vars

\* While a session is piped its log line is repeated on time: no wait lasts
\* beyond the moment at which it is due.
LogIsOnTime ==
  pc = "select" /\ Relogs /\ ~pending => now + left <= logged + connect_relog

\* Bytes that the SSL library has read ahead are served at once; select()
\* does not know of them.
PendingIsServed ==
  [][Returns /\ pending => now = called /\ status' = "ready"]_vars
=============================================================================
