---------------------------- MODULE LookupProofs -----------------------------
(***************************************************************************)
(* What a lookup guarantees for every table, user, set of options, list of *)
(* hosts and bound, with reloads and outages at any step, proved with      *)
(* TLAPS.                                                                  *)
(***************************************************************************)
EXTENDS Lookup, WellFoundedInduction, TLAPS

TypeOK ==
  /\ lib \in AllLibraries /\ table \in Tables /\ edits \in Nat /\ loaded \in Nat /\ i \in Nat
  /\ opt \in Configs /\ up \in SUBSET Everything /\ overtaken \in BOOLEAN
  /\ data \in {"none", "set", "dangling"} /\ reloads \in Nat /\ logins \in Nat
  /\ pc \in {"idle", "key", "call", "done"}
  /\ process \in {"alive", "exited", "crashed"}
  /\ trail \in Seq(Calls)

\* how old what the library reads can be
VersionInv ==
  /\ loaded <= edits
  /\ process = "alive" /\ lib = "posix_regex" =>
       compiled \in [table : Tables, version : Nat] /\ loaded <= compiled.version

\* what a miss says of the row and of the hosts
Missing(row, hosts) ==
  /\ lib \in Databases => row = None \/ (lib = "postgresql" /\ row.server = None)
  /\ lib \in Databases \cup Files => hosts # {}

\* every call so far is up to date, and a miss is one
CallInv ==
  \A n \in DOMAIN trail :
    /\ trail[n].sound => ~trail[n].late
    /\ trail[n].sound /\ trail[n].status = "no_key" => Missing(trail[n].row, trail[n].up)

\* the keys of the calls, in the order of query_key
KeyInv ==
  opt.query_key # None =>
    \A n \in DOMAIN trail :
      trail[n].key = getserver_key_str(opt.query_key[n], name, opt.env)

\* where the loop is: all keys so far were missing, but for the last one at the end
OrderInv ==
  /\ pc \in {"key", "call"} =>
       /\ i = Len(trail) + 1 /\ usp = None
       /\ \A n \in DOMAIN trail : trail[n].status = "no_key"
  /\ pc = "done" =>
       \A n \in 1 .. Len(trail) - 1 : trail[n].status = "no_key"

IInv == TypeOK /\ VersionInv /\ CallInv /\ KeyInv /\ OrderInv

-----------------------------------------------------------------------------
\* The history of calls.

Entry(status, misread) ==
  [key |-> Key, row |-> Row(Key), up |-> up, status |-> status,
   late |-> Version < loaded, misread |-> misread,
   sound |-> ~overtaken /\ data # "dangling"]

\* A sequence is one of its elements.
LEMMA AppendIsSeq ==
  ASSUME NEW S, NEW s \in Seq(S), NEW e
  PROVE  LET t == Append(s, e)
         IN /\ t \in Seq({t[n] : n \in DOMAIN t})
            /\ Len(t) = Len(s) + 1 /\ DOMAIN t = 1 .. Len(s) + 1
            /\ \A n \in 1 .. Len(s) : t[n] = s[n]
            /\ t[Len(s) + 1] = e /\ t # <<>>
<1> DEFINE t == Append(s, e)
<1>1. /\ t \in Seq(S \cup {e}) /\ Len(t) = Len(s) + 1 /\ DOMAIN t = 1 .. Len(s) + 1
      /\ \A n \in 1 .. Len(s) : t[n] = s[n]
      /\ t[Len(s) + 1] = e
  OBVIOUS
<1>2. t # <<>>
  BY <1>1
<1> HIDE DEF t
<1>3. t \in [1 .. Len(t) -> {t[n] : n \in DOMAIN t}] /\ Len(t) \in Nat
  BY <1>1
<1>4. t \in Seq({t[n] : n \in DOMAIN t})
  BY <1>3
<1> QED
  BY <1>1, <1>2, <1>4 DEF t

LEMMA TurnTrail ==
  ASSUME TypeOK, NEW result, NEW misread, Turn(result, misread)
  PROVE  /\ trail' \in Seq(Calls') /\ trail' # <<>>
         /\ Len(trail') = Len(trail) + 1 /\ DOMAIN trail' = 1 .. Len(trail) + 1
         /\ Len(trail) \in Nat /\ DOMAIN trail = 1 .. Len(trail)
         /\ \A n \in 1 .. Len(trail) : trail'[n] = trail[n]
         /\ trail'[Len(trail) + 1] = Entry(result.status, misread)
<1>1. trail' = Append(trail, Entry(result.status, misread))
  BY DEF Turn, Entry
<1>2. trail \in Seq(Calls) /\ Len(trail) \in Nat /\ DOMAIN trail = 1 .. Len(trail)
  BY DEF TypeOK
<1>3. LET t == Append(trail, Entry(result.status, misread))
      IN /\ t \in Seq({t[n] : n \in DOMAIN t})
         /\ Len(t) = Len(trail) + 1 /\ DOMAIN t = 1 .. Len(trail) + 1
         /\ \A n \in 1 .. Len(trail) : t[n] = trail[n]
         /\ t[Len(trail) + 1] = Entry(result.status, misread) /\ t # <<>>
  BY <1>2, AppendIsSeq
<1> QED
  BY <1>1, <1>2, <1>3 DEF Calls

-----------------------------------------------------------------------------
\* What "no such key" says with the libraries that keep some of the promise.
LEMMA MissMeans ==
  ASSUME NEW key, NEW result \in Results(key), result.status = "no_key"
  PROVE  Missing(Row(key), up)
<1> USE DEF Failed, Found, Missing, Databases, Files
<1>1. CASE lib = "gdbm"
  <2>1. result \in gdbm_get(Row(key))
    BY <1>1, Zenon DEF Results
  <2> QED
    BY <1>1, <2>1 DEF gdbm_get
<1>2. CASE lib = "bdb"
  <2>1. result \in bdb_get(Row(key))
    BY <1>2, Zenon DEF Results
  <2> QED
    BY <1>2, <2>1 DEF bdb_get
<1>3. CASE lib = "cdb"
  <2>1. result \in cdb_get(Row(key))
    BY <1>3, Zenon DEF Results
  <2> QED
    BY <1>3, <2>1 DEF cdb_get
<1>4. CASE lib = "mysql"
  <2>1. result \in mysql_get(Row(key))
    BY <1>4, Zenon DEF Results
  <2> QED
    BY <1>4, <2>1 DEF mysql_get
<1>5. CASE lib = "postgresql"
  <2>1. result \in postgresql_get(Row(key))
    BY <1>5, Zenon DEF Results
  <2>2. result # Failed("no_access") /\ result # Failed("other")
    OBVIOUS
  <2>3. Hosts[1] \in up /\ (Row(key) = None \/ Row(key).server = None)
    <3> SUFFICES ASSUME ~(Hosts[1] \in up /\ (Row(key) = None \/ Row(key).server = None))
        PROVE FALSE
      OBVIOUS
    <3>1. \/ postgresql_get(Row(key)) = {Failed("no_access"), Failed("other")} \cup {}
          \/ \E str : postgresql_get(Row(key)) =
                         {Failed("no_access"), Failed("other")} \cup {Found(str)}
      BY Zenon DEF postgresql_get
    <3> QED
      BY <2>1, <2>2, <3>1
  <2> QED
    BY <1>5, <2>3
<1>6. CASE lib = "odbc"
  <2>1. result \in odbc_get(Row(key))
    BY <1>6, Zenon DEF Results
  <2>2. result # Failed("no_access") /\ result # Failed("other")
    OBVIOUS
  <2>3. Hosts[1] \in up
    BY <2>1, <2>2 DEF odbc_get
  <2>4. Row(key) # None => \E server, port : result = odbc_answer(server, port)
    BY <2>1, <2>2 DEF odbc_get
  <2>5. \A server, port : odbc_answer(server, port).status # "no_key"
    BY DEF odbc_answer
  <2> QED
    BY <1>6, <2>3, <2>4, <2>5
<1> QED
  BY <1>1, <1>2, <1>3, <1>4, <1>5, <1>6

\* What is read is no older than the last reload.
LEMMA UpToDate == TypeOK /\ VersionInv /\ process = "alive" => ~(Version < loaded)
  BY DEF TypeOK, VersionInv, Version

LEMMA EntryFields ==
  ASSUME NEW status, NEW misread
  PROVE  LET e == Entry(status, misread)
         IN /\ e.status = status /\ e.row = Row(Key) /\ e.key = Key
            /\ e.up = up /\ e.misread = misread
            /\ e.late <=> Version < loaded
            /\ e.sound <=> ~overtaken /\ data # "dangling"
<1>1. /\ Entry(status, misread).status = status /\ Entry(status, misread).row = Row(Key)
      /\ Entry(status, misread).key = Key /\ Entry(status, misread).up = up
      /\ Entry(status, misread).misread = misread
  BY DEF Entry
<1>2. Entry(status, misread).late = (Version < loaded)
  BY Zenon DEF Entry
<1>3. Entry(status, misread).sound = (~overtaken /\ data # "dangling")
  BY Zenon DEF Entry
<1> QED
  BY <1>1, <1>2, <1>3, Zenon

LEMMA EntryRead ==
  ASSUME NEW status, NEW misread
  PROVE  Read(Entry(status, misread)) => ~misread /\ ~overtaken /\ data # "dangling"
<1>1. Entry(status, misread).misread = misread
  BY EntryFields
<1>2. Entry(status, misread).sound => ~overtaken /\ data # "dangling"
  BY EntryFields
<1> QED
  BY <1>1, <1>2, Zenon DEF Read

\* One turn of the loop, with a result that is no false miss.
LEMMA TurnInv ==
  ASSUME IInv, NEW result, NEW misread, Turn(result, misread), process = "alive", pc = "call",
         UNCHANGED <<compiled, loaded, reloads>>, data' \in {data, "dangling"},
         ~overtaken /\ data # "dangling" /\ result.status = "no_key" =>
           Missing(Row(Key), up)
  PROVE  IInv'
<1> USE DEF IInv
<1> DEFINE m == Len(trail)
<1>1. /\ trail' \in Seq(Calls') /\ trail' # <<>>
      /\ Len(trail') = m + 1 /\ DOMAIN trail' = 1 .. m + 1
      /\ m \in Nat /\ DOMAIN trail = 1 .. m
      /\ \A n \in 1 .. m : trail'[n] = trail[n]
      /\ trail'[m + 1] = Entry(result.status, misread)
  BY TurnTrail
<1> HIDE DEF m
<1>2. /\ lib' = lib /\ opt' = opt /\ name' = name /\ table' = table /\ edits' = edits
      /\ process' = process /\ loaded' = loaded /\ compiled' = compiled
      /\ up' = up /\ overtaken' = overtaken /\ logins' = logins /\ reloads' = reloads
      /\ \/ GoesOn(result) /\ pc' = "key" /\ i' = i + 1 /\ usp' = None
         \/ ~GoesOn(result) /\ pc' = "done" /\ i' = i
  BY DEF Turn, admin
<1>3. i = m + 1 /\ \A n \in 1 .. m : trail[n].status = "no_key"
  BY <1>1 DEF OrderInv, m
<1>4. /\ trail'[m + 1].status = result.status
      /\ trail'[m + 1].sound => ~overtaken /\ data # "dangling"
      /\ trail'[m + 1].row = Row(Key) /\ trail'[m + 1].up = up
      /\ trail'[m + 1].key = Key
      /\ ~trail'[m + 1].late
  BY <1>1, UpToDate, EntryFields
<1>5. TypeOK'
  BY <1>1, <1>2 DEF TypeOK
<1>6. VersionInv'
  BY <1>2 DEF VersionInv
<1>7. CallInv'
  BY <1>1, <1>2, <1>4 DEF CallInv, Missing
<1>8. KeyInv'
  <2> SUFFICES ASSUME opt.query_key # None, NEW n \in 1 .. m + 1
      PROVE trail'[n].key = getserver_key_str(opt.query_key[n], name, opt.env)
    BY <1>1, <1>2 DEF KeyInv
  <2>1. CASE n = m + 1
    BY <1>3, <1>4, <2>1, Zenon DEF Key
  <2>2. CASE n \in 1 .. m
    BY <1>1, <2>2 DEF KeyInv
  <2> QED
    BY <1>1, <2>1, <2>2
<1>9. OrderInv'
  <2>1. \A n \in 1 .. m : trail'[n].status = "no_key"
    BY <1>1, <1>3
  <2>2. GoesOn(result) => trail'[m + 1].status = "no_key"
    BY <1>4 DEF GoesOn
  <2>3. pc' = "key" => \A n \in 1 .. m + 1 : trail'[n].status = "no_key"
    BY <1>1, <1>2, <2>1, <2>2
  <2> QED
    BY <1>1, <1>2, <1>3, <2>1, <2>3 DEF OrderInv
<1> QED
  BY <1>5, <1>6, <1>7, <1>8, <1>9

\* What dbserver_init() may leave in the library's data.
LEMMA DataTyped ==
  ASSUME NEW d \in {"none", "set"}
  PROVE  Initialised(d) \ {"failed"} \subseteq {"none", "set"}
<1>1. \A s \in {mysql_init(d), postgresql_init(d), odbc_init(d), ldap_init(d),
               posix_regex_init(d), {"none"}} : s \subseteq {"none", "set", "failed"}
  BY DEF mysql_init, postgresql_init, odbc_init, ldap_init, posix_regex_init
<1>2. Initialised(d) \in {mysql_init(d), postgresql_init(d), odbc_init(d), ldap_init(d),
                          posix_regex_init(d), {"none"}}
  BY Zenon DEF Initialised
<1> QED
  BY <1>1, <1>2

LEMMA InitInv == Init => IInv
<1> SUFFICES ASSUME Init PROVE IInv
  OBVIOUS
<1>1. trail = <<>> /\ Calls = {} /\ DOMAIN trail = {} /\ Len(trail) = 0
  BY DEF Init, Calls
<1>2. trail \in Seq(Calls)
  BY <1>1
<1>3. lib = "posix_regex" => compiled \in [table : Tables, version : Nat] /\ compiled.version = 0
  BY DEF Init
<1>4. data \in {"none", "set"}
  BY DataTyped DEF Init
<1>5. TypeOK
  <2>1. lib \in AllLibraries
    BY LookupAssumption DEF Init
  <2> QED
    BY <1>2, <1>4, <2>1 DEF Init, TypeOK
<1>6. VersionInv
  BY <1>3 DEF Init, VersionInv
<1> QED
  BY <1>1, <1>5, <1>6 DEF Init, IInv, CallInv, KeyInv, OrderInv

LEMMA StepInv == IInv /\ [Next]_vars => IInv'
<1> SUFFICES ASSUME IInv, [Next]_vars PROVE IInv'
  OBVIOUS
<1> USE DEF IInv
<1>1. ASSUME NEW user \in Users, Login(user) PROVE IInv'
  <2>1. /\ UNCHANGED <<lib, opt, table, edits, process, compiled, loaded, up, data, reloads>>
        /\ logins' = logins + 1 /\ overtaken' = FALSE
        /\ trail' = <<>> /\ i' = 1 /\ pc' \in {"done", "key"}
        /\ pc' = "key" => usp' = None
    BY <1>1 DEF Login, admin, static
  <2>2. Calls' = {} /\ DOMAIN trail' = {} /\ Len(trail') = 0 /\ trail' \in Seq(Calls')
    BY <2>1 DEF Calls
  <2>3. TypeOK'
    <3>1. overtaken' \in BOOLEAN
      BY <2>1
    <3> QED
      BY <2>1, <2>2, <3>1 DEF TypeOK
  <2> QED
    BY <2>1, <2>2, <2>3 DEF VersionInv, CallInv, Missing, KeyInv, OrderInv
<1>2. CASE MakeKey
  <2>1. /\ UNCHANGED <<lib, opt, table, edits, process, compiled, loaded, trail, i, name, usp>>
        /\ UNCHANGED <<up, data, reloads, logins>> /\ overtaken' = FALSE
    BY <1>2 DEF MakeKey, admin, static
  <2>2. pc = "key" /\ pc' \in {"done", "call"}
    BY <1>2 DEF MakeKey
  <2>3. Len(trail) \in Nat /\ DOMAIN trail = 1 .. Len(trail)
    BY DEF TypeOK
  <2>4. TypeOK' /\ VersionInv' /\ CallInv' /\ KeyInv'
    BY <2>1, <2>2 DEF TypeOK, VersionInv, CallInv, Missing, KeyInv, Calls
  <2>5. OrderInv'
    BY <2>1, <2>2, <2>3 DEF OrderInv
  <2> QED
    BY <2>4, <2>5
<1>3. CASE Answer
  <2>1. PICK result \in Results(Key) : Turn(result, FALSE)
    BY <1>3 DEF Answer
  <2>2. process = "alive" /\ pc = "call" /\ UNCHANGED <<compiled, loaded, reloads, data>>
    BY <1>3 DEF Answer, static
  <2>3. result.status = "no_key" => Missing(Row(Key), up)
    BY <2>1, MissMeans
  <2> QED
    BY <2>1, <2>2, <2>3, TurnInv
<1>4. CASE LibraryFails
  <2>1. /\ Turn(Failed("no_access"), FALSE) /\ process = "alive" /\ pc = "call"
        /\ UNCHANGED <<compiled, loaded, reloads>> /\ data' = "dangling"
    BY <1>4 DEF LibraryFails
  <2>2. Failed("no_access").status # "no_key"
    BY DEF Failed
  <2> QED
    BY <2>1, <2>2, TurnInv
<1>5. CASE Undefined
  <2>1. CASE process' = "crashed" /\ UNCHANGED <<lib, opt, admin, static, pc, call, usp, logins>>
    BY <2>1 DEF TypeOK, VersionInv, CallInv, Missing, KeyInv, OrderInv, Calls, admin, static, call
  <2>2. CASE (\E result \in Anything : Turn(result, FALSE)) /\ UNCHANGED static
    <3>1. PICK result : Turn(result, FALSE)
      BY <2>2
    <3>2. process = "alive" /\ pc = "call" /\ UNCHANGED <<compiled, loaded, reloads, data>>
      BY <1>5, <2>2 DEF Undefined, static
    <3>3. overtaken \/ data = "dangling"
      BY <1>5 DEF Undefined
    <3> QED
      BY <3>1, <3>2, <3>3, TurnInv
  <2> QED
    BY <1>5, <2>1, <2>2, Zenon DEF Undefined
<1>6. CASE Retry
  BY <1>6 DEF Retry, TypeOK, VersionInv, CallInv, Missing, KeyInv, OrderInv, Calls, admin, static, call
<1>7. CASE Reload
  <2>1. UNCHANGED <<lib, opt, table, edits, pc, name, i, trail, usp>>
    BY <1>7 DEF Reload, admin
  <2>2. \/ process' \in {"crashed", "exited"} /\ loaded' = loaded
        \/ loaded' = edits /\ compiled' = Compile /\ process' = process
    BY <1>7 DEF Reload
  <2>5. /\ UNCHANGED <<up, logins>> /\ reloads' \in Nat /\ overtaken' \in BOOLEAN
        /\ data' \in {"none", "set", "dangling"}
    <3>1. /\ UNCHANGED <<up, logins>> /\ reloads' = reloads + 1
          /\ overtaken' = overtaken \/ overtaken' = (pc = "call")
      BY <1>7, Zenon DEF Reload, admin
    <3>2. Finished(data) # "crash" => Finished(data) \in {"none", "set"}
      BY DEF Finished
    <3>3. \/ data' \in {data, "none"}
          \/ Finished(data) # "crash" /\ data' \in Initialised(Finished(data)) \ {"failed"}
      BY <1>7, Zenon DEF Reload
    <3>4. data' \in {"none", "set", "dangling"}
      BY <3>2, <3>3, DataTyped DEF TypeOK
    <3>5. reloads' \in Nat
      BY <3>1 DEF TypeOK
    <3>6. overtaken' \in BOOLEAN
      BY <3>1, Zenon DEF TypeOK
    <3> QED
      BY <3>1, <3>4, <3>5, <3>6
  <2>3. TypeOK' /\ CallInv' /\ KeyInv' /\ OrderInv'
    BY <2>1, <2>2, <2>5 DEF TypeOK, CallInv, Missing, KeyInv, OrderInv, Calls
  <2>4. VersionInv'
    BY <2>1, <2>2 DEF TypeOK, VersionInv, Compile
  <2> QED
    BY <2>3, <2>4
<1>8. CASE Edit
  <2>1. /\ UNCHANGED <<lib, opt, pc, name, i, trail, usp, process, compiled, loaded>>
        /\ UNCHANGED <<data, reloads, logins, overtaken>>
        /\ table' \in Tables /\ edits' = edits + 1 /\ up' \in SUBSET Everything
    BY <1>8 DEF Edit, static, call, TypeOK
  <2> QED
    BY <2>1 DEF TypeOK, VersionInv, CallInv, Missing, KeyInv, OrderInv, Calls
<1>10. CASE FetchFails
  <2>1. PICK server \in Junk, port \in Junk : Turn(odbc_answer(server, port), TRUE)
    BY <1>10 DEF FetchFails
  <2>2. process = "alive" /\ pc = "call" /\ UNCHANGED <<compiled, loaded, reloads, data>>
    BY <1>10 DEF FetchFails, static
  <2>3. odbc_answer(server, port).status # "no_key"
    BY DEF odbc_answer, Failed, Found
  <2> QED
    BY <2>1, <2>2, <2>3, TurnInv
<1>11. CASE PatternFails
  <2>1. PICK key \in DOMAIN compiled.table \ {Key} :
               Turn(Found(ServerAndPort(compiled.table[key])), TRUE)
    BY <1>11 DEF PatternFails
  <2>2. process = "alive" /\ pc = "call" /\ UNCHANGED <<compiled, loaded, reloads, data>>
    BY <1>11 DEF PatternFails, static
  <2>3. Found(ServerAndPort(compiled.table[key])).status # "no_key"
    BY DEF Found
  <2> QED
    BY <2>1, <2>2, <2>3, TurnInv
<1>12. ASSUME NEW user \in Users, LoginFatal(user) PROVE IInv'
  <2>1. /\ UNCHANGED <<lib, opt, admin, static, pc, call, usp, logins>> /\ process' = "exited"
    BY <1>12 DEF LoginFatal
  <2> QED
    BY <2>1 DEF TypeOK, VersionInv, CallInv, Missing, KeyInv, OrderInv, Calls, admin, static, call
<1>9. CASE Stopped \/ UNCHANGED vars
  <2>1. UNCHANGED vars
    BY <1>9 DEF Stopped
  <2> QED
    BY <2>1 DEF vars, admin, static, call, TypeOK, VersionInv, CallInv, Missing, KeyInv, OrderInv, Calls
<1> QED
  BY <1>1, <1>2, <1>3, <1>4, <1>5, <1>6, <1>7, <1>8, <1>9, <1>10, <1>11, <1>12 DEF Next

\* The invariant holds in every reachable state.
THEOREM Invariance == Spec => []IInv
  BY InitInv, StepInv, PTL DEF Spec

\* The variables of the lookup, the reload and the library keep their types.
THEOREM TypeCorrect == Spec => []TypeOK
<1>1. IInv => TypeOK
  BY DEF IInv
<1> QED
  BY <1>1, Invariance, PTL

\* After a SIGHUP no lookup is answered from what the map held before: closelib
\* and openlib read everything again that a library keeps.
THEOREM ReloadEffective == Spec => []ReloadTakesEffect
<1>1. IInv => ReloadTakesEffect
  BY DEF IInv, CallInv, ReloadTakesEffect, Calls
<1> QED
  BY <1>1, Invariance, PTL

\* A key that a database calls missing is missing (with postgresql it may have a row
\* without server), and one that a database or a file calls missing was looked for where
\* something answered or could be read: the outages of the hosts and of the file never make
\* the lookup go on to the next key.  A read of gdbm, bdb or cdb that fails in a file which
\* could be opened does.
THEOREM MissIsReal == Spec => []NotFoundIsReal
<1>1. IInv => NotFoundIsReal
  BY DEF IInv, CallInv, Missing, NotFoundIsReal, Calls
<1> QED
  BY <1>1, Invariance, PTL

-----------------------------------------------------------------------------
\* Whatever the tables hold: the keys and where the answer comes from.

\* A library finds a key that is there.
LEMMA FoundIsThere ==
  ASSUME lib \in AllLibraries, NEW key, NEW result \in Results(key), result.status = "ok"
  PROVE  Row(key) # None
<1> USE DEF Failed, Found
<1>1. CASE lib = "gdbm"
  <2>1. result \in gdbm_get(Row(key))
    BY <1>1, Zenon DEF Results
  <2> QED
    BY <2>1 DEF gdbm_get
<1>2. CASE lib = "bdb"
  <2>1. result \in bdb_get(Row(key))
    BY <1>2, Zenon DEF Results
  <2> QED
    BY <2>1 DEF bdb_get
<1>3. CASE lib = "cdb"
  <2>1. result \in cdb_get(Row(key))
    BY <1>3, Zenon DEF Results
  <2> QED
    BY <2>1 DEF cdb_get
<1>4. CASE lib = "nis"
  <2>1. result \in nis_get(Row(key))
    BY <1>4, Zenon DEF Results
  <2> QED
    BY <2>1 DEF nis_get
<1>5. CASE lib = "posix_regex"
  <2>1. result \in posix_regex_get(Row(key))
    BY <1>5, Zenon DEF Results
  <2> QED
    BY <2>1 DEF posix_regex_get
<1>6. CASE lib = "mysql"
  <2>1. result \in mysql_get(Row(key))
    BY <1>6, Zenon DEF Results
  <2> QED
    BY <2>1 DEF mysql_get
<1>7. CASE lib = "postgresql"
  <2>1. result \in postgresql_get(Row(key))
    BY <1>7, Zenon DEF Results
  <2>2. Row(key) = None => result \in {Failed("no_access"), Failed("other"), Failed("no_key")}
    <3>1. Row(key) = None =>
            \/ postgresql_get(Row(key)) = {Failed("no_access"), Failed("other")} \cup {}
            \/ postgresql_get(Row(key)) =
                 {Failed("no_access"), Failed("other")} \cup {Failed("no_key")}
      BY Zenon DEF postgresql_get
    <3> QED
      BY <2>1, <3>1
  <2> QED
    BY <2>2
<1>8. CASE lib = "odbc"
  <2>1. result \in odbc_get(Row(key))
    BY <1>8, Zenon DEF Results
  <2>2. Row(key) = None => result \in {Failed("no_access"), Failed("other"), Failed("no_key")}
    <3>1. Row(key) = None =>
            odbc_get(Row(key)) \in {{Failed("no_access"), Failed("other")},
                                    {Failed("no_access"), Failed("other"), Failed("no_key")}}
      BY DEF odbc_get
    <3> QED
      BY <2>1, <3>1
  <2> QED
    BY <2>2
<1>9. CASE lib = "ldap"
  <2>1. result \in ldap_get2(Row(key))
    BY <1>9, Zenon DEF Results
  <2> QED
    BY <2>1 DEF ldap_get2
<1> QED
  BY <1>1, <1>2, <1>3, <1>4, <1>5, <1>6, <1>7, <1>8, <1>9 DEF AllLibraries

\* What main() gets was found, by the last call.
SourceInv ==
  pc = "done" /\ trail # <<>> /\ usp # None /\ Read(trail[Len(trail)]) =>
    trail[Len(trail)].status = "ok" /\ trail[Len(trail)].row # None

LEMMA TurnSource ==
  ASSUME TypeOK, NEW result, NEW misread, Turn(result, misread),
         ~misread /\ ~overtaken /\ data # "dangling" /\ result.status = "ok" =>
           Row(Key) # None
  PROVE  SourceInv'
<1>1. Len(trail') = Len(trail) + 1 /\ trail'[Len(trail) + 1] = Entry(result.status, misread)
  BY TurnTrail
<1>2. trail'[Len(trail')].status = result.status /\ trail'[Len(trail')].row = Row(Key)
  BY <1>1, EntryFields
<1>4. Read(trail'[Len(trail')]) => ~misread /\ ~overtaken /\ data # "dangling"
  <2>1. trail'[Len(trail')] = Entry(result.status, misread)
    BY <1>1
  <2> QED
    BY <2>1, EntryRead
<1>3. usp' # None => result.status = "ok"
  BY DEF Turn, Assigned
<1> QED
  BY <1>2, <1>3, <1>4 DEF SourceInv

LEMMA StepSource == IInv /\ SourceInv /\ [Next]_vars => SourceInv'
<1> SUFFICES ASSUME IInv, SourceInv, [Next]_vars PROVE SourceInv'
  OBVIOUS
<1>0. TypeOK
  BY DEF IInv
<1>1. ASSUME NEW user \in Users, Login(user) PROVE SourceInv'
  BY <1>1 DEF Login, SourceInv
<1>2. CASE MakeKey
  BY <1>2 DEF MakeKey, SourceInv, IInv, OrderInv
<1>3. CASE Answer
  <2>1. PICK result \in Results(Key) : Turn(result, FALSE)
    BY <1>3 DEF Answer
  <2>2. lib \in AllLibraries
    BY <1>0 DEF TypeOK
  <2>3. result.status = "ok" => Row(Key) # None
    BY <2>2, FoundIsThere
  <2> QED
    BY <1>0, <2>1, <2>3, TurnSource
<1>4. CASE LibraryFails
  <2>1. Turn(Failed("no_access"), FALSE) /\ Failed("no_access").status # "ok"
    BY <1>4 DEF LibraryFails, Failed
  <2> QED
    BY <1>0, <2>1, TurnSource
<1>5. CASE Undefined
  <2>1. CASE process' = "crashed" /\ UNCHANGED <<lib, opt, admin, static, pc, call, usp, logins>>
    BY <2>1 DEF SourceInv, call
  <2>2. CASE (\E result \in Anything : Turn(result, FALSE)) /\ UNCHANGED static
    <3>1. PICK result \in Anything : Turn(result, FALSE)
      BY <2>2
    <3>2. overtaken \/ data = "dangling"
      BY <1>5 DEF Undefined
    <3> QED
      BY <1>0, <3>1, <3>2, TurnSource
  <2> QED
    BY <1>5, <2>1, <2>2, Zenon DEF Undefined
<1>6. CASE Retry
  BY <1>6 DEF Retry, SourceInv
<1>7. CASE Reload \/ Edit \/ Stopped \/ UNCHANGED vars
  <2>1. UNCHANGED <<pc, trail, usp>>
    BY <1>7 DEF Reload, Edit, Stopped, vars, call
  <2> QED
    BY <2>1 DEF SourceInv
<1>8. CASE FetchFails
  <2>1. PICK server \in Junk, port \in Junk : Turn(odbc_answer(server, port), TRUE)
    BY <1>8 DEF FetchFails
  <2> QED
    BY <1>0, <2>1, TurnSource
<1>9. CASE PatternFails
  <2>1. PICK key \in DOMAIN compiled.table \ {Key} :
               Turn(Found(ServerAndPort(compiled.table[key])), TRUE)
    BY <1>9 DEF PatternFails
  <2> QED
    BY <1>0, <2>1, TurnSource
<1>10. ASSUME NEW user \in Users, LoginFatal(user) PROVE SourceInv'
  BY <1>10 DEF LoginFatal, SourceInv, call
<1> QED
  BY <1>1, <1>2, <1>3, <1>4, <1>5, <1>6, <1>7, <1>8, <1>9, <1>10 DEF Next

\* The half of FirstKeyWins that needs nothing of the tables.
SourceIsFirstKey ==
  pc = "done" /\ trail # <<>> =>
    /\ \A n \in 1 .. Len(trail) - 1 : trail[n].status = "no_key"
    /\ opt.query_key # None =>
         \A n \in DOMAIN trail :
           trail[n].key = getserver_key_str(opt.query_key[n], name, opt.env)
    /\ usp # None /\ Read(trail[Len(trail)]) =>
         trail[Len(trail)].status = "ok" /\ trail[Len(trail)].row # None

\* The loop of getserver() asks for the keys of query_key in their order and goes on only
\* when the library says -2.  What it returns of a call that read the table (no reload
\* under it, no failed SQLFetch() of odbc or regexec() of posix_regex) is of a key that
\* has a row and is the last it asked for, whatever the tables hold: no server is made up
\* for a user without a row or left from an earlier attempt.
THEOREM KeysInOrder == Spec => []SourceIsFirstKey
<1>1. Init => SourceInv
  BY DEF Init, SourceInv
<1>2. IInv /\ SourceInv => SourceIsFirstKey
  BY DEF IInv, OrderInv, KeyInv, SourceInv, SourceIsFirstKey
<1> QED
  BY <1>1, <1>2, StepSource, Invariance, PTL DEF Spec

-----------------------------------------------------------------------------
(* What a string is taken apart into.                                      *)

\* A set of positions in a string has a last one.
LEMMA MaxOfIsMax ==
  ASSUME NEW N \in Nat, NEW S \in SUBSET (1 .. N), S # {}
  PROVE  MaxOf(S) \in S /\ \A n \in S : n <= MaxOf(S)
<1> DEFINE T == {N - n : n \in S}
<1>1. T \subseteq Nat /\ T # {}
  <2>1. PICK n \in S : TRUE
    OBVIOUS
  <2>2. N - n \in T
    BY <2>1
  <2> QED
    BY <2>2
<1>2. PICK x \in T : \A y \in T : ~(<<y, x>> \in OpToRel(<, Nat))
  BY <1>1, NatLessThanWellFounded, WFMin, Zenon
<1>3. \A y \in T : ~(y < x)
  BY <1>1, <1>2 DEF OpToRel
<1>4. PICK k \in S : x = N - k
  OBVIOUS
<1>5. \A n \in S : n <= k
  BY <1>3, <1>4
<1> QED
  BY <1>4, <1>5 DEF MaxOf

\* The first one, likewise.
LEMMA MinOfIsMin ==
  ASSUME NEW N \in Nat, NEW S \in SUBSET (1 .. N), S # {}
  PROVE  MinOf(S) \in S /\ \A n \in S : MinOf(S) <= n
<1>1. S \subseteq Nat
  OBVIOUS
<1>2. PICK x \in S : \A y \in S : ~(<<y, x>> \in OpToRel(<, Nat))
  BY <1>1, NatLessThanWellFounded, WFMin, Zenon
<1>3. \A y \in S : ~(y < x)
  BY <1>1, <1>2 DEF OpToRel
<1>5. \A n \in S : x <= n
  BY <1>1, <1>3
<1> QED
  BY <1>5 DEF MinOf

\* Where a string is found in another.
LEMMA FoundWithin ==
  ASSUME NEW hay \in CStrings, NEW S, NEW needle \in Seq(S)
  PROVE  /\ strrstr(hay, needle) \in 0 .. Len(hay)
         /\ strrstr(hay, needle) # 0 => strrstr(hay, needle) + Len(needle) - 1 <= Len(hay)
         /\ strstr(hay, needle) \in 0 .. Len(hay)
<1> USE DEF CStrings
<1>1. Places(hay, needle) \in SUBSET (1 .. Len(hay)) /\ Len(hay) \in Nat
  BY DEF Places
<1>2. \A n \in Places(hay, needle) : n + Len(needle) - 1 <= Len(hay)
  BY DEF Places, IsAt
<1>3. Places(hay, needle) # {} => /\ MaxOf(Places(hay, needle)) \in Places(hay, needle)
                                  /\ MinOf(Places(hay, needle)) \in Places(hay, needle)
  BY <1>1, MaxOfIsMax, MinOfIsMin
<1> QED
  BY <1>1, <1>2, <1>3 DEF strrstr, strstr

LEMMA SubSeqIsString ==
  ASSUME NEW s \in CStrings, NEW a \in Nat \ {0}, NEW b \in Int, b <= Len(s)
  PROVE  SubSeq(s, a, b) \in CStrings
  BY DEF CStrings

\* user_server_port_strn_assign() always makes a triple.
LEMMA AssignIsTriple ==
  ASSUME NEW str \in CStrings
  PROVE  user_server_port_strn_assign(str) \in Triple
<1> DEFINE colon  == PortDelimiter(str)
           port   == IF colon = 0 THEN None ELSE After(str, colon + 1)
           rest   == IF colon = 0 THEN str ELSE Before(str, colon)
           cut    == strrstr(rest, Delim)
           server == IF cut = 0 THEN rest ELSE After(rest, cut + Len(Delim))
           fixed  == IF IsLiteral(str) THEN FixLiteral(server) ELSE server
           user   == IF cut = 0 THEN None ELSE Before(rest, cut)
<1>0. <<":">> \in Seq({":"}) /\ <<"]">> \in Seq({"]"}) /\ Delim \in Seq(Tokens) /\ Len(str) \in Nat
  <2>1. <<":">> \in Seq({":"}) /\ <<"]">> \in Seq({"]"}) /\ Len(str) \in Nat
    BY DEF CStrings
  <2>2. Delim \in Seq(Tokens)
    BY NullAssumption DEF CStrings
  <2> QED
    BY <2>1, <2>2
<1>1. colon \in 0 .. Len(str)
  <2>1. strrchr(str, "]") \in 0 .. Len(str) /\ strrchr(str, ":") \in 0 .. Len(str)
    BY <1>0, FoundWithin DEF strrchr
  <2> QED
    BY <1>0, <2>1 DEF PortDelimiter
<1>2. port \in CStrings \cup {None} /\ rest \in CStrings
  BY <1>0, <1>1, SubSeqIsString DEF Before, After
<1> HIDE DEF colon, port, rest
<1>3. /\ cut \in 0 .. Len(rest) /\ Len(rest) \in Nat /\ Len(Delim) \in Nat
      /\ cut # 0 => cut + Len(Delim) - 1 <= Len(rest)
  <2>1. Len(rest) \in Nat /\ Len(Delim) \in Nat
    BY <1>0, <1>2 DEF CStrings
  <2>2. /\ strrstr(rest, Delim) \in 0 .. Len(rest)
        /\ strrstr(rest, Delim) # 0 => strrstr(rest, Delim) + Len(Delim) - 1 <= Len(rest)
    BY <1>0, <1>2, FoundWithin
  <2> QED
    BY <2>1, <2>2
<1>4. server \in CStrings /\ user \in CStrings \cup {None}
  BY <1>2, <1>3, SubSeqIsString DEF Before, After
<1> HIDE DEF cut, server, user
<1>5. FixLiteral(server) \in CStrings \cup {None}
  <2>1. strchr(server, "]") \in 0 .. Len(server) /\ Len(server) \in Nat
    <3>1. Len(server) \in Nat
      BY <1>4 DEF CStrings
    <3>2. strstr(server, <<"]">>) \in 0 .. Len(server)
      BY <1>0, <1>4, FoundWithin
    <3> QED
      BY <3>1, <3>2 DEF strchr
  <2>2. SubSeq(server, 2, strchr(server, "]") - 1) \in CStrings
    BY <1>4, <2>1, SubSeqIsString
  <2> QED
    BY <1>4, <2>2 DEF FixLiteral
<1>6. fixed \in CStrings \cup {None}
  BY <1>4, <1>5
<1> HIDE DEF fixed
<1> DEFINE whole == cut # 0 \/ fixed = server
<1>7. user_server_port_strn_assign(str) =
        [user |-> user, server |-> fixed, port |-> port, whole |-> whole]
  BY Zenon DEF user_server_port_strn_assign, colon, port, rest, cut, server, fixed, user
<1>8. whole \in BOOLEAN
  OBVIOUS
<1> HIDE DEF whole
<1>9. [user |-> user, server |-> fixed, port |-> port, whole |-> whole] \in Triple
  BY <1>2, <1>4, <1>6, <1>8 DEF Triple
<1> QED
  BY <1>7, <1>9

-----------------------------------------------------------------------------
(* The answer.                                                             *)

\* A name without what user_server_port_strn_assign() looks for.
PlainName(s) == \A n \in DOMAIN s : s[n] \notin {":", "["}

\* An address in brackets, and a port without any.
Bracketed(s) ==
  /\ Len(s) >= 4 /\ s[1] = "[" /\ s[Len(s)] = "]"
  /\ \A n \in 2 .. Len(s) - 1 : s[n] \notin {"[", "]"}
NoBracket(s) == \A n \in DOMAIN s : s[n] \notin {"[", "]"}

\* A row whose server is what it is called: a host name, or an address in brackets.
PlainRow(row) ==
  row.server \notin {None, <<>>} =>
    /\ strrstr(row.server, Delim) = 0
    /\ \/ PlainName(row.server) /\ (row.port # None => PlainName(row.port))
       \/ Bracketed(row.server) /\ (row.port # None => NoBracket(row.port))

PlainTables == \A t \in Tables : \A k \in DOMAIN t : PlainRow(t[k])

LEMMA OnePlace ==
  ASSUME NEW s \in CStrings, NEW n \in 1 .. Len(s), NEW c
  PROVE  IsAt(s, <<c>>, n) <=> s[n] = c
<1> DEFINE t == SubSeq(s, n, n)
<1>1. t \in Seq(Tokens) /\ Len(t) = 1 /\ t[1] = s[n]
  BY DEF CStrings
<1>2. Len(<<c>>) = 1 /\ n + 1 - 1 = n /\ Len(s) \in Nat /\ n <= Len(s) /\ 1 <= n
  BY DEF CStrings
<1>3. IsAt(s, <<c>>, n) <=> t = <<c>>
  BY <1>2 DEF IsAt
<1> HIDE DEF t
<1>4. t = <<t[1]>>
  BY <1>1
<1>5. t = <<c>> => t[1] = c
  OBVIOUS
<1> QED
  BY <1>1, <1>3, <1>4, <1>5

\* A token that does not occur is not found, one that occurs once is.
LEMMA AbsentToken ==
  ASSUME NEW s \in CStrings, NEW c, \A n \in DOMAIN s : s[n] # c
  PROVE  strchr(s, c) = 0 /\ strrchr(s, c) = 0
<1>1. Places(s, <<c>>) = {}
  <2>1. DOMAIN s = 1 .. Len(s)
    BY DEF CStrings
  <2>2. \A n \in 1 .. Len(s) : ~IsAt(s, <<c>>, n)
    BY <2>1, OnePlace
  <2> QED
    BY <2>2 DEF Places
<1>2. <<c>> # <<>>
  OBVIOUS
<1> QED
  BY <1>1, <1>2 DEF strchr, strrchr, strstr, strrstr

LEMMA OnlyColon ==
  ASSUME NEW s \in CStrings, NEW p \in CStrings, PlainName(s), PlainName(p)
  PROVE  LET str == s \o (<<":">> \o p)
         IN /\ str \in CStrings /\ strrchr(str, ":") = Len(s) + 1
            /\ \A n \in DOMAIN str : str[n] # "["
            /\ Before(str, Len(s) + 1) = s
<1> DEFINE str == s \o (<<":">> \o p)
<1>1. /\ Len(s) \in Nat /\ Len(p) \in Nat /\ DOMAIN s = 1 .. Len(s) /\ DOMAIN p = 1 .. Len(p)
      /\ <<":">> \o p \in CStrings /\ Len(<<":">> \o p) = Len(p) + 1
  BY DEF CStrings, Tokens
<1>2. str \in CStrings /\ Len(str) = Len(s) + 1 + Len(p)
  BY <1>1 DEF CStrings
<1>3. /\ \A n \in 1 .. Len(s) : str[n] = s[n]
      /\ str[Len(s) + 1] = ":"
      /\ \A n \in Len(s) + 2 .. Len(str) : str[n] = p[n - Len(s) - 1] /\ n - Len(s) - 1 \in DOMAIN p
  BY <1>1, <1>2 DEF CStrings
<1> HIDE DEF str
<1>4. DOMAIN str = 1 .. Len(str) /\ Len(str) \in Nat
  BY <1>2 DEF CStrings
<1>5. \A n \in DOMAIN str : str[n] # "[" /\ (str[n] = ":" <=> n = Len(s) + 1)
  <2> TAKE n \in DOMAIN str
  <2>1. CASE n \in 1 .. Len(s)
    <3>1. str[n] = s[n] /\ s[n] \notin {":", "["} /\ n # Len(s) + 1
      BY <1>1, <1>3, <2>1 DEF PlainName
    <3> QED
      BY <3>1
  <2>2. CASE n = Len(s) + 1
    BY <1>3, <2>2
  <2>3. CASE n \in Len(s) + 2 .. Len(str)
    <3>1. p[n - Len(s) - 1] \notin {":", "["} /\ n # Len(s) + 1
      BY <1>1, <1>3, <2>3 DEF PlainName
    <3> QED
      BY <1>3, <2>3, <3>1
  <2> QED
    BY <1>1, <1>2, <1>4, <2>1, <2>2, <2>3
<1>6. Places(str, <<":">>) = {Len(s) + 1}
  <2>2. \A n \in 1 .. Len(str) : IsAt(str, <<":">>, n) <=> str[n] = ":"
    BY <1>2, OnePlace
  <2> QED
    BY <1>1, <1>2, <1>4, <1>5, <2>2 DEF Places
<1>7. MaxOf({Len(s) + 1}) = Len(s) + 1
  BY <1>1 DEF MaxOf
<1>8. strrchr(str, ":") = Len(s) + 1
  <2>1. str # <<>>
    BY <1>1, <1>2
  <2>2. <<":">> # <<>> /\ {Len(s) + 1} # {}
    OBVIOUS
  <2> QED
    BY <1>6, <1>7, <2>1, <2>2, Zenon DEF strrchr, strrstr
<1>9. Before(str, Len(s) + 1) = s
  <2>1. SubSeq(str, 1, Len(s)) = s
    BY <1>1, <1>2, <1>3, <1>4 DEF CStrings
  <2> QED
    BY <1>1, <2>1 DEF Before
<1> QED
  BY <1>2, <1>5, <1>8, <1>9 DEF str

\* The string that a library makes of a plain row is taken apart into its columns again.
LEMMA PlainAnswer ==
  ASSUME NEW s \in CStrings, NEW p \in CStrings, PlainName(s), PlainName(p),
         strrstr(s, Delim) = 0, NEW str \in {s, s \o (<<":">> \o p)}
  PROVE  user_server_port_strn_assign(str).server = s
<1>1. /\ str \in CStrings /\ \A n \in DOMAIN str : str[n] # "["
      /\ \/ strrchr(str, ":") = 0 /\ str = s
         \/ strrchr(str, ":") # 0 /\ Before(str, strrchr(str, ":")) = s
  <2>1. CASE str = s
    <3>1. \A n \in DOMAIN str : str[n] # "[" /\ str[n] # ":"
      BY <2>1 DEF PlainName
    <3>2. strrchr(str, ":") = 0
      BY <2>1, <3>1, AbsentToken
    <3> QED
      BY <2>1, <3>1, <3>2
  <2>2. CASE str = s \o (<<":">> \o p)
    <3>1. Len(s) + 1 # 0
      BY DEF CStrings
    <3> QED
      BY <2>2, <3>1, OnlyColon
  <2> QED
    BY <2>1, <2>2
<1>2. ~IsLiteral(str)
  BY <1>1, AbsentToken DEF IsLiteral
<1>3. PortDelimiter(str) = strrchr(str, ":")
  BY <1>2 DEF PortDelimiter
<1>4. (IF PortDelimiter(str) = 0 THEN str ELSE Before(str, PortDelimiter(str))) = s
  BY <1>1, <1>3
<1> QED
  BY <1>2, <1>4, Zenon DEF user_server_port_strn_assign

\* A token that occurs once is found there.
LEMMA OnlyToken ==
  ASSUME NEW s \in CStrings, NEW c, NEW k \in 1 .. Len(s),
         \A n \in 1 .. Len(s) : s[n] = c <=> n = k
  PROVE  strchr(s, c) = k /\ strrchr(s, c) = k
<1>1. Places(s, <<c>>) = {k}
  <2>1. \A n \in 1 .. Len(s) : IsAt(s, <<c>>, n) <=> n = k
    BY OnePlace
  <2> QED
    BY <2>1 DEF Places
<1>2. s # <<>> /\ <<c>> # <<>> /\ {k} # {} /\ k \in Nat
  BY DEF CStrings
<1>3. MaxOf({k}) = k /\ MinOf({k}) = k
  BY <1>2 DEF MaxOf, MinOf
<1> QED
  BY <1>1, <1>2, <1>3, Zenon DEF strchr, strrchr, strstr, strrstr

\* Where the brackets are in a string that begins with an address.
LEMMA BracketsFound ==
  ASSUME NEW s, NEW str \in CStrings, Bracketed(s), Len(s) \in Nat, Len(s) <= Len(str),
         \A n \in 1 .. Len(s) : str[n] = s[n],
         \A n \in Len(s) + 1 .. Len(str) : str[n] \notin {"[", "]"}
  PROVE  strchr(str, "[") = 1 /\ strrchr(str, "]") = Len(s)
<1> DEFINE k == Len(s)
           m == Len(str)
<1>1. /\ k \in Nat /\ m \in Nat /\ k <= m /\ k >= 4
      /\ s[1] = "[" /\ s[k] = "]" /\ \A j \in 2 .. k - 1 : s[j] \notin {"[", "]"}
      /\ \A j \in 1 .. k : str[j] = s[j]
      /\ \A j \in k + 1 .. m : str[j] \notin {"[", "]"}
  BY DEF Bracketed, CStrings
<1>2. 1 \in 1 .. Len(str) /\ Len(s) \in 1 .. Len(str)
  BY <1>1
<1> HIDE DEF k, m
<1>3. \A n \in 1 .. m : (str[n] = "[" <=> n = 1) /\ (str[n] = "]" <=> n = k)
  <2> TAKE n \in 1 .. m
  <2>1. n = 1 \/ n \in 2 .. k - 1 \/ n = k \/ n \in k + 1 .. m
    BY <1>1
  <2>2. n = 1 => str[n] = "[" /\ n # k
    BY <1>1
  <2>3. n = k => str[n] = "]" /\ n # 1
    BY <1>1
  <2>4. n \in 2 .. k - 1 => str[n] \notin {"[", "]"} /\ n # 1 /\ n # k
    BY <1>1
  <2>5. n \in k + 1 .. m => str[n] \notin {"[", "]"} /\ n # 1 /\ n # k
    BY <1>1
  <2>6. "[" # "]"
    OBVIOUS
  <2> QED
    BY <2>1, <2>2, <2>3, <2>4, <2>5, <2>6
<1>4. \A n \in 1 .. Len(str) : str[n] = "[" <=> n = 1
  BY <1>3 DEF m
<1>5. \A n \in 1 .. Len(str) : str[n] = "]" <=> n = Len(s)
  BY <1>3 DEF k, m
<1>6. strchr(str, "[") = 1
  BY <1>2, <1>4, OnlyToken
<1>7. strrchr(str, "]") = Len(s)
  BY <1>2, <1>5, OnlyToken
<1> QED
  BY <1>6, <1>7

\* The brackets of an address are taken off, and only they.
LEMMA LiteralAnswer ==
  ASSUME NEW s \in CStrings, NEW p \in CStrings, Bracketed(s), NoBracket(p),
         strrstr(s, Delim) = 0, NEW str \in {s, s \o (<<":">> \o p)}
  PROVE  user_server_port_strn_assign(str).server = FixLiteral(s)
<1>1. /\ Len(s) \in Nat /\ Len(p) \in Nat /\ DOMAIN s = 1 .. Len(s) /\ DOMAIN p = 1 .. Len(p)
      /\ <<":">> \o p \in CStrings /\ Len(<<":">> \o p) = Len(p) + 1
  BY DEF CStrings, Tokens
<1>2. /\ str \in CStrings /\ Len(s) <= Len(str) /\ Len(str) \in Nat
      /\ \A n \in 1 .. Len(s) : str[n] = s[n]
      /\ \A n \in Len(s) + 1 .. Len(str) : str[n] \notin {"[", "]"}
      /\ \/ str = s
         \/ Len(str) > Len(s) /\ str[Len(s) + 1] = ":" /\ SubSeq(str, 1, Len(s)) = s
  <2>1. CASE str = s
    BY <1>1, <2>1
  <2>2. CASE str = s \o (<<":">> \o p)
    <3>1. str \in CStrings /\ Len(str) = Len(s) + 1 + Len(p)
      BY <1>1, <2>2 DEF CStrings
    <3>2. /\ \A n \in 1 .. Len(s) : str[n] = s[n]
          /\ str[Len(s) + 1] = ":"
          /\ \A n \in Len(s) + 2 .. Len(str) :
               str[n] = p[n - Len(s) - 1] /\ n - Len(s) - 1 \in DOMAIN p
      BY <1>1, <2>2, <3>1 DEF CStrings
    <3> HIDE <2>2
    <3>3. \A n \in Len(s) + 1 .. Len(str) : str[n] \notin {"[", "]"}
      <4> TAKE n \in Len(s) + 1 .. Len(str)
      <4>1. n = Len(s) + 1 \/ n \in Len(s) + 2 .. Len(str)
        BY <1>1, <3>1
      <4> QED
        BY <3>2, <4>1 DEF NoBracket
    <3>4. SubSeq(str, 1, Len(s)) = s
      BY <1>1, <3>1, <3>2 DEF CStrings
    <3> QED
      BY <1>1, <3>1, <3>2, <3>3, <3>4
  <2> QED
    BY <2>1, <2>2
<1>4. Len(s) >= 4
  BY DEF Bracketed
<1>6. strchr(str, "[") = 1 /\ strrchr(str, "]") = Len(s)
  BY <1>1, <1>2, <1>4, BracketsFound
<1>7. IsLiteral(str)
  BY <1>1, <1>4, <1>6 DEF IsLiteral
<1>8. PortDelimiter(str) = IF str = s THEN 0 ELSE Len(s) + 1
  BY <1>1, <1>2, <1>6, <1>7 DEF PortDelimiter
<1>9. (IF PortDelimiter(str) = 0 THEN str ELSE Before(str, PortDelimiter(str))) = s
  <2>1. CASE str = s
    BY <1>8, <2>1
  <2>2. CASE str # s
    BY <1>1, <1>2, <1>8, <2>2 DEF Before
  <2> QED
    BY <2>1, <2>2
<1> QED
  BY <1>7, <1>9, Zenon DEF user_server_port_strn_assign

\* What main() may make of a row.
Good(row, u) ==
  /\ row # None
  /\ u # None =>
       \/ row.server \in {None, <<>>} \/ u.server = row.server
       \/ row.server[1] = "[" /\ u.server = FixLiteral(row.server)
  /\ u = None => lib = "cdb" \/ row.server \in {None, <<>>}

\* A row as the libraries that return a string write it.
Written(row, str) ==
  row.server \notin {None, <<>>} =>
    str \in {row.server} \cup {row.server \o (<<":">> \o p) :
                                 p \in {x \in CStrings : x \in {row.port, <<>>, <<"junk">>}}}

LEMMA WrittenAnswer ==
  ASSUME NEW row \in Rows, row # None, PlainRow(row), lib # "ldap", NEW str, Written(row, str)
  PROVE  Good(row, Assigned(Found(str)))
<1>0. CASE row.server \in {None, <<>>}
  BY <1>0 DEF Good
<1>1. CASE row.server \notin {None, <<>>}
  <2> DEFINE s == row.server
  <2>1. s \in CStrings /\ s # <<>> /\ Len(s) \in Nat /\ Len(s) > 0
    BY <1>1 DEF Rows, Columns, CStrings
  <2>2. PICK p \in CStrings : /\ p \in {row.port, <<>>, <<"junk">>}
                              /\ str \in {s, s \o (<<":">> \o p)}
    <3>1. <<>> \in CStrings
      BY DEF CStrings
    <3> QED
      BY <1>1, <3>1 DEF Written
  <2> HIDE DEF s
  <2>3. <<":">> \o p \in CStrings
    BY DEF CStrings, Tokens
  <2>9. s \o (<<":">> \o p) \in CStrings /\ Len(s \o (<<":">> \o p)) >= Len(s)
    <3>1. \A q \in CStrings : s \o q \in CStrings /\ Len(s \o q) >= Len(s)
      BY <2>1 DEF CStrings
    <3> QED
      BY <2>3, <3>1
  <2>4. str \in CStrings /\ Len(str) >= Len(s)
    <3> DEFINE q == s \o (<<":">> \o p)
    <3>1. q \in CStrings /\ Len(q) >= Len(s) /\ str \in {s, q}
      BY <2>2, <2>9, Zenon
    <3> HIDE DEF q
    <3> QED
      BY <2>1, <3>1
  <2>5. str # <<>>
    BY <2>1, <2>4
  <2>6. Assigned(Found(str)) = user_server_port_strn_assign(str)
    BY <2>5 DEF Assigned, Found
  <2>7. user_server_port_strn_assign(str) # None
    BY <2>4, AssignIsTriple, NullAssumption
  <2>8. LET u == user_server_port_strn_assign(str)
        IN u.server = s \/ (s[1] = "[" /\ u.server = FixLiteral(s))
    <3>1. /\ strrstr(s, Delim) = 0
          /\ \/ PlainName(s) /\ (row.port # None => PlainName(row.port))
             \/ Bracketed(s) /\ (row.port # None => NoBracket(row.port))
      BY <1>1 DEF PlainRow, s
    <3>2. \A q \in {<<>>, <<"junk">>} : PlainName(q) /\ NoBracket(q)
      BY DEF PlainName, NoBracket
    <3>3. p # None
      BY NullAssumption
    <3>4. CASE PlainName(s) /\ (row.port # None => PlainName(row.port))
      <4>1. PlainName(p)
        BY <2>2, <3>2, <3>3, <3>4
      <4>2. user_server_port_strn_assign(str).server = s
        BY <2>1, <2>2, <3>1, <3>4, <4>1, PlainAnswer
      <4> QED
        BY <4>2
    <3>5. CASE Bracketed(s) /\ (row.port # None => NoBracket(row.port))
      <4>1. NoBracket(p)
        BY <2>2, <3>2, <3>3, <3>5
      <4>2. s[1] = "["
        BY <3>5 DEF Bracketed
      <4> QED
        BY <2>1, <2>2, <3>1, <3>5, <4>1, <4>2, LiteralAnswer
    <3> QED
      BY <3>1, <3>4, <3>5
  <2> QED
    BY <2>6, <2>7, <2>8 DEF Good, s
<1> QED
  BY <1>0, <1>1

LEMMA ServerAndPortWritten ==
  ASSUME NEW row \in Rows
  PROVE  Written(row, ServerAndPort(row))
<1>1. row.port \in CStrings \cup {None}
  BY DEF Rows, Columns
<1>2. CASE row.port \in {None, <<>>} /\ row.server # None
  <2>1. ServerAndPort(row) = row.server \o <<>>
    BY <1>2 DEF ServerAndPort
  <2>2. row.server \in CStrings
    BY <1>2 DEF Rows, Columns
  <2> QED
    BY <2>1, <2>2 DEF Written, CStrings
<1>3. CASE row.port \notin {None, <<>>} /\ row.server # None
  <2>1. ServerAndPort(row) = row.server \o (<<":">> \o row.port)
    BY <1>3 DEF ServerAndPort
  <2> QED
    BY <1>1, <1>3, <2>1 DEF Written
<1> QED
  BY <1>2, <1>3 DEF Written

LEMMA AnswerGood ==
  ASSUME lib \in AllLibraries, NEW key, NEW row, row = Row(key), row # None => row \in Rows /\ PlainRow(row),
         NEW result \in Results(key), result.status = "ok"
  PROVE  Good(row, Assigned(result))
<1>0. ASSUME NEW str, lib # "ldap", row # None, Written(row, str), result = Found(str)
      PROVE  Good(row, Assigned(result))
  BY <1>0, WrittenAnswer
<1>1. ASSUME lib # "ldap", row # None, result = Found(ServerAndPort(row))
      PROVE  Good(row, Assigned(result))
  BY <1>0, <1>1, ServerAndPortWritten
<1> USE DEF Failed, Found
<1>2. CASE lib = "gdbm"
  <2>1. result \in gdbm_get(row)
    BY <1>2, Zenon DEF Results
  <2> QED
    BY <1>1, <1>2, <2>1 DEF gdbm_get
<1>3. CASE lib = "bdb"
  <2>1. result \in bdb_get(row)
    BY <1>3, Zenon DEF Results
  <2> QED
    BY <1>1, <1>3, <2>1 DEF bdb_get
<1>4. CASE lib = "cdb"
  <2>1. result \in cdb_get(row)
    BY <1>4, Zenon DEF Results
  <2>2. row # None /\ result = Found(<<>>)
    BY <2>1 DEF cdb_get
  <2> QED
    BY <1>4, <2>2 DEF Good, Assigned
<1>5. CASE lib = "nis"
  <2>1. result \in nis_get(row)
    BY <1>5, Zenon DEF Results
  <2> QED
    BY <1>1, <1>5, <2>1 DEF nis_get
<1>6. CASE lib = "posix_regex"
  <2>1. result \in posix_regex_get(row)
    BY <1>6, Zenon DEF Results
  <2> QED
    BY <1>1, <1>6, <2>1 DEF posix_regex_get
<1>7. CASE lib = "mysql"
  <2>1. result \in mysql_get(row)
    BY <1>7, Zenon DEF Results
  <2> QED
    BY <1>1, <1>7, <2>1 DEF mysql_get
<1>8. CASE lib = "postgresql"
  <2>1. result \in postgresql_get(row)
    BY <1>8, Zenon DEF Results
  <2>2. /\ row # None /\ row.server # None
        /\ result = Found(row.server \o (IF row.port = None THEN <<>> ELSE <<":">> \o row.port))
    <3>1. \/ result = Failed("no_access") \/ result = Failed("no_key")
          \/ result = Failed("other")
          \/ /\ row # None /\ row.server # None
             /\ result = Found(row.server \o (IF row.port = None THEN <<>>
                                              ELSE <<":">> \o row.port))
      BY <2>1, Zenon DEF postgresql_get
    <3>2. result # Failed("no_access") /\ result # Failed("no_key") /\ result # Failed("other")
      OBVIOUS
    <3> QED
      BY <3>1, <3>2, Zenon
  <2>3. row.server \in CStrings /\ row.port \in CStrings \cup {None}
    BY <2>2 DEF Rows, Columns
  <2>4. Written(row, row.server \o (IF row.port = None THEN <<>> ELSE <<":">> \o row.port))
    <3>1. row.server \o <<>> = row.server
      BY <2>3 DEF CStrings
    <3> QED
      BY <2>3, <3>1 DEF Written
  <2> QED
    BY <1>0, <1>8, <2>2, <2>4
<1>9. CASE lib = "odbc"
  <2>1. result \in odbc_get(row)
    BY <1>9, Zenon DEF Results
  <2>2. /\ row # None
        /\ \E server \in odbc_read(row.server), port \in odbc_read(row.port) :
             result = odbc_answer(server, port)
    <3>1. result # Failed("no_access") /\ result # Failed("no_key") /\ result # Failed("other")
      OBVIOUS
    <3> QED
      BY <2>1, <3>1 DEF odbc_get
  <2>3. PICK server \in odbc_read(row.server), port \in odbc_read(row.port) :
               result = Found(server \o (IF port = <<>> THEN <<>> ELSE <<":">> \o port))
    <3>1. result # Failed("other")
      OBVIOUS
    <3>2. PICK server \in odbc_read(row.server), port \in odbc_read(row.port) :
            result = odbc_answer(server, port)
      BY <2>2
    <3> QED
      BY <3>1, <3>2, Zenon DEF odbc_answer
  <2>4. Written(row, server \o (IF port = <<>> THEN <<>> ELSE <<":">> \o port))
    <3>1. CASE row.server = None
      BY <3>1 DEF Written
    <3>2. CASE row.server # None
      <4>1. row.server \in CStrings /\ server = row.server /\ server \o <<>> = server
        BY <2>2, <2>3, <3>2 DEF Rows, Columns, CStrings, odbc_read
      <4>2. port \in CStrings /\ port \in {row.port, <<>>, <<"junk">>}
        <5>1. <<>> \in CStrings /\ <<"junk">> \in CStrings
          BY DEF CStrings, Tokens
        <5>2. row.port \in CStrings \cup {None}
          BY <2>2 DEF Rows, Columns
        <5>3. (port = row.port /\ row.port # None) \/ port \in {<<>>, <<"junk">>}
          BY <2>3 DEF Junk, odbc_read
        <5> QED
          BY <5>1, <5>2, <5>3
      <4> QED
        BY <4>1, <4>2 DEF Written
    <3> QED
      BY <3>1, <3>2
  <2> QED
    BY <1>0, <1>9, <2>2, <2>3, <2>4
<1>10. CASE lib = "ldap"
  <2>1. result \in ldap_get2(row)
    BY <1>10, Zenon DEF Results
  <2>2. row # None
    BY <2>1 DEF ldap_get2
  <2>3. CASE row.server = None
    BY <2>2, <2>3 DEF Good
  <2>4. CASE row.server # None
    <3>1. result = Found(user_server_port_assign(row.user, row.server, row.port))
      BY <2>1, <2>2, <2>4 DEF ldap_get2
    <3>2. user_server_port_assign(row.user, row.server, row.port) \in Triple
      BY <2>2 DEF user_server_port_assign, Triple, Rows, Columns
    <3>3. /\ result.str = user_server_port_assign(row.user, row.server, row.port)
          /\ result.str # None /\ result.str.server = row.server
          /\ result.str["server"] = row.server
      BY <3>1, <3>2, NullAssumption DEF user_server_port_assign
    <3>4. Assigned(result) \in {None, result.str}
      BY <1>10 DEF Assigned
    <3>5. Assigned(result) = None => row.server = <<>>
      BY <1>10, <2>4, <3>3 DEF Assigned, Columns
    <3> QED
      BY <2>2, <3>3, <3>4, <3>5 DEF Good
  <2> QED
    BY <2>3, <2>4
<1> QED
  BY <1>2, <1>3, <1>4, <1>5, <1>6, <1>7, <1>8, <1>9, <1>10 DEF AllLibraries

\* The answer of an attempt is what its last row says.
AnswerInv ==
  pc = "done" /\ trail # <<>> =>
    LET last == trail[Len(trail)]
    IN Read(last) => /\ last.status = "ok" => Good(last.row, usp)
                     /\ last.status # "ok" => usp = None

LEMMA TurnAnswer ==
  ASSUME TypeOK, NEW result, NEW misread, Turn(result, misread),
         ~misread /\ ~overtaken /\ data # "dangling" /\ result.status = "ok" =>
           Good(Row(Key), Assigned(result))
  PROVE  AnswerInv'
<1> SUFFICES ASSUME pc' = "done", ~misread, ~overtaken, data # "dangling"
    PROVE /\ result.status = "ok" => Good(Row(Key), usp')
          /\ result.status # "ok" => usp' = None
  <2>1. /\ Len(trail') = Len(trail) + 1
        /\ trail'[Len(trail) + 1] = Entry(result.status, misread)
    BY TurnTrail
  <2>2. lib' = lib
    BY DEF Turn
  <2>3. trail'[Len(trail')].status = result.status /\ trail'[Len(trail')].row = Row(Key)
    BY <2>1, EntryFields
  <2>4. Read(trail'[Len(trail')]) => ~misread /\ ~overtaken /\ data # "dangling"
    <3>1. trail'[Len(trail')] = Entry(result.status, misread)
      BY <2>1
    <3> QED
      BY <3>1, EntryRead
  <2> QED
    BY <2>2, <2>3, <2>4 DEF AnswerInv, Good
<1>1. usp' = Assigned(result)
  BY DEF Turn
<1> QED
  BY <1>1 DEF Assigned

\* A row that a library reads is one of the tables'.
LEMMA RowKnown ==
  ASSUME IInv, PlainTables, process = "alive", NEW key, Row(key) # None
  PROVE  Row(key) \in Rows /\ PlainRow(Row(key))
<1>1. PICK t \in Tables : key \in DOMAIN t /\ Row(key) = t[key]
  BY DEF IInv, TypeOK, VersionInv, Row
<1> QED
  BY <1>1, LookupAssumption DEF PlainTables

LEMMA StepAnswer == PlainTables /\ IInv /\ AnswerInv /\ [Next]_vars => AnswerInv'
<1> SUFFICES ASSUME PlainTables, IInv, AnswerInv, [Next]_vars PROVE AnswerInv'
  OBVIOUS
<1>0. TypeOK
  BY DEF IInv
<1>1. ASSUME NEW user \in Users, Login(user) PROVE AnswerInv'
  BY <1>1 DEF Login, AnswerInv
<1>2. CASE MakeKey
  <2>1. /\ pc = "key" /\ trail' = trail /\ usp' = usp /\ usp = None
        /\ \A n \in DOMAIN trail : trail[n].status = "no_key"
    BY <1>2 DEF MakeKey, IInv, OrderInv
  <2>2. trail # <<>> => Len(trail) \in DOMAIN trail
    BY <1>0 DEF TypeOK
  <2> QED
    BY <2>1, <2>2 DEF AnswerInv
<1>3. CASE Answer
  <2>1. PICK result \in Results(Key) : Turn(result, FALSE)
    BY <1>3 DEF Answer
  <2>2. Row(Key) # None => Row(Key) \in Rows /\ PlainRow(Row(Key))
    BY <1>3, RowKnown DEF Answer
  <2>3. lib \in AllLibraries
    BY <1>0 DEF TypeOK
  <2>4. result.status = "ok" => Good(Row(Key), Assigned(result))
    BY <2>2, <2>3, AnswerGood
  <2> QED
    BY <1>0, <2>1, <2>4, TurnAnswer
<1>4. CASE LibraryFails
  <2>1. Turn(Failed("no_access"), FALSE) /\ Failed("no_access").status # "ok"
    BY <1>4 DEF LibraryFails, Failed
  <2> QED
    BY <1>0, <2>1, TurnAnswer
<1>5. CASE Undefined
  <2>1. CASE process' = "crashed" /\ UNCHANGED <<lib, opt, admin, static, pc, call, usp, logins>>
    BY <2>1 DEF AnswerInv, Good, call
  <2>2. CASE (\E result \in Anything : Turn(result, FALSE)) /\ UNCHANGED static
    <3>1. PICK result \in Anything : Turn(result, FALSE)
      BY <2>2
    <3>2. overtaken \/ data = "dangling"
      BY <1>5 DEF Undefined
    <3> QED
      BY <1>0, <3>1, <3>2, TurnAnswer
  <2> QED
    BY <1>5, <2>1, <2>2, Zenon DEF Undefined
<1>6. CASE Retry
  BY <1>6 DEF Retry, AnswerInv
<1>7. CASE Reload \/ Edit \/ Stopped \/ UNCHANGED vars
  <2>1. UNCHANGED <<lib, pc, trail, usp>>
    BY <1>7 DEF Reload, Edit, Stopped, vars, call
  <2> QED
    BY <2>1 DEF AnswerInv, Good
<1>8. CASE FetchFails
  <2>1. PICK server \in Junk, port \in Junk : Turn(odbc_answer(server, port), TRUE)
    BY <1>8 DEF FetchFails
  <2> QED
    BY <1>0, <2>1, TurnAnswer
<1>9. CASE PatternFails
  <2>1. PICK key \in DOMAIN compiled.table \ {Key} :
               Turn(Found(ServerAndPort(compiled.table[key])), TRUE)
    BY <1>9 DEF PatternFails
  <2> QED
    BY <1>0, <2>1, TurnAnswer
<1>10. ASSUME NEW user \in Users, LoginFatal(user) PROVE AnswerInv'
  BY <1>10 DEF LoginFatal, AnswerInv, call, Good
<1> QED
  BY <1>1, <1>2, <1>3, <1>4, <1>5, <1>6, <1>7, <1>8, <1>9, <1>10 DEF Next

\* The keys are tried in the order of query_key until the library does not say -2, and
\* the server of an answer that was read is the one of the last key's row, without the
\* brackets of an address: for every table whose servers are host names or addresses in
\* brackets.  (A map may hold anything else; what user_server_port_strn_assign() makes
\* of that is not a server of the table.)
THEOREM FirstKeyAnswers == ASSUME PlainTables PROVE Spec => []FirstKeyWins
<1>1. Init => AnswerInv
  BY DEF Init, AnswerInv
<1>2. IInv /\ AnswerInv /\ [Next]_vars => AnswerInv'
  BY StepAnswer
<1>3. IInv /\ AnswerInv => FirstKeyWins
  <2> SUFFICES ASSUME IInv, AnswerInv, pc = "done", trail # <<>>
      PROVE LET last == trail[Len(trail)]
            IN /\ \A n \in 1 .. Len(trail) - 1 : trail[n].status = "no_key"
               /\ opt.query_key # None =>
                    \A n \in DOMAIN trail :
                      trail[n].key = getserver_key_str(opt.query_key[n], name, opt.env)
               /\ usp # None /\ Read(last) =>
                    /\ last.status = "ok" /\ last.row # None
                    /\ \/ last.row.server \in {None, <<>>}
                       \/ usp.server = last.row.server
                       \/ last.row.server[1] = "[" /\ usp.server = FixLiteral(last.row.server)
               /\ last.status = "ok" /\ Read(last) /\ usp = None =>
                    lib = "cdb" \/ last.row.server \in {None, <<>>}
    BY DEF FirstKeyWins
  <2>1. \A n \in 1 .. Len(trail) - 1 : trail[n].status = "no_key"
    BY DEF IInv, OrderInv
  <2>2. opt.query_key # None =>
          \A n \in DOMAIN trail :
            trail[n].key = getserver_key_str(opt.query_key[n], name, opt.env)
    BY DEF IInv, KeyInv
  <2> QED
    BY <2>1, <2>2 DEF AnswerInv, Good
<1> QED
  BY <1>1, <1>2, <1>3, Invariance, PTL DEF Spec
=============================================================================
