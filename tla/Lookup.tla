------------------------------- MODULE Lookup -------------------------------
(***************************************************************************)
(* The lookup of a user's server in one process of perdition: the name is  *)
(* mangled, the formats of query_key are tried in order in the map library *)
(* (getserver.c), and the answer is taken apart.  Below it the nine map    *)
(* libraries under db/ that need no daemon, each by the results its        *)
(* dbserver_get() can have on the table it reads; beside it SIGHUP, whose  *)
(* handler closes and opens the library in the middle of whatever the      *)
(* process does, and an administrator who edits the table and breaks and   *)
(* mends the file or the database servers.                                 *)
(***************************************************************************)
EXTENDS Names, FiniteSets

CONSTANTS Libraries,    \* the map libraries to load
          Configs,      \* opt: the options that the lookup reads
          Users,        \* what clients log in as
          Tables,       \* what the map may hold: functions from some keys to rows
          Hosts,        \* the database's hosts, a sequence
          MaxEdits,     \* bound: edits and outages
          MaxReloads,   \* bound: SIGHUPs
          MaxLogins     \* bound: attempts of the client

AllLibraries == {"gdbm", "bdb", "cdb", "nis", "posix_regex", "mysql",
                 "postgresql", "odbc", "ldap"}

\* A row has the columns user, server and port, None for SQL's NULL.
Columns == {"user", "server", "port"}
Rows == [Columns -> CStrings \cup {None}]

ASSUME LookupAssumption ==
  /\ MaxEdits \in Nat /\ MaxReloads \in Nat /\ MaxLogins \in Nat
  /\ \A t \in Tables : \A k \in DOMAIN t : t[k] \in Rows
  /\ Users \subseteq CStrings /\ Libraries \subseteq AllLibraries

VARIABLES lib,        \* opt.map_library
          opt,        \* the options
          table,      \* what the file or the database holds
          up,         \* the hosts that answer; of a file, whether it can be read
          edits,      \* edits and outages so far: also the table's version
          data,       \* the library's static data: "none", "set", "dangling"
          compiled,   \* regex_a of posix_regex: the table it was built from
          loaded,     \* version of the table when the library was last opened
          reloads,    \* SIGHUPs so far
          process,    \* "alive", "exited" (cleanly) or "crashed"
          pc,         \* main(): "idle", "key", "call" or "done"
          typed,      \* the name the client gave
          name,       \* the mangled name, id
          i,          \* getserver()'s index into query_key
          usp,        \* the result: a user_server_port_t, None for NULL
          overtaken,  \* has the library been reloaded under this call?
          trail,      \* history: the calls of this attempt
          logins      \* attempts so far

admin == <<table, up, edits>>
static == <<data, compiled, loaded, reloads>>
call == <<typed, name, i, overtaken, trail>>
vars == <<lib, opt, admin, static, process, pc, call, usp, logins>>

Everything == {Hosts[h] : h \in DOMAIN Hosts}

----------------------------------------------------------------------------
(* The libraries.  A result is a status (0 is "ok", -1 "no_access", -2     *)
(* "no_key", -3 "other") and, with "ok", what is returned: a string, or for *)
(* dbserver_get2() the three parts.                                        *)

Failed(status) == [status |-> status, str |-> None]
Found(str)     == [status |-> "ok", str |-> str]

\* the row that a call reads: posix_regex has the patterns that it compiled
\* when it was loaded, the others look at the table itself
Row(key) ==
  LET t == IF lib = "posix_regex" THEN compiled.table ELSE table
  IN IF key \in DOMAIN t THEN t[key] ELSE None

\* the version of the table that it comes from
Version == IF lib = "posix_regex" THEN compiled.version ELSE edits

\* the value that makebdb, makegdbm or an administrator wrote for a row, and
\* that the SQL libraries put together: server[:port]
ServerAndPort(row) ==
  (IF row.server = None THEN <<>> ELSE row.server)
    \o (IF row.port \in {None, <<>>} THEN <<>> ELSE <<":">> \o row.port)

\* one database file, opened for each lookup; every failure of gdbm_fetch()
\* counts as a missing key
gdbm_get(row) ==
  IF up = {} THEN {Failed("no_access")}
  ELSE {Failed("no_key")} \cup
       (IF row = None THEN {} ELSE {Found(ServerAndPort(row))})

\* every failure of get() counts as "no match"
bdb_get(row) ==
  {Failed("other")} \cup
  (IF up = {} THEN {Failed("no_access")}
   ELSE {Failed("no_key")} \cup
        (IF row = None THEN {} ELSE {Found(ServerAndPort(row))}))

\* a cdb_seek() that fails leaves ret as it was, at "presume key not found".
\* The length that is read is the caller's *len_return, which is 0, and not
\* the len that cdb_seek() has found.
cdb_get(row) ==
  IF up = {} THEN {Failed("no_access")}
  ELSE {Failed("no_key")} \cup (IF row = None THEN {} ELSE {Found(<<>>)})

\* every failure of yp_match() counts as "no match"
nis_get(row) ==
  {Failed("no_access"), Failed("no_key")} \cup
  (IF up = {} \/ row = None THEN {} ELSE {Found(ServerAndPort(row))})

\* A row is what the first pattern that matches the key makes of it.  A pattern
\* that matches nothing at the end of the key ends the loop over the patterns,
\* and an error of regexec() counts as no match: with -2, or PatternFails.
posix_regex_get(row) ==
  {Failed("no_key"), Failed("other")} \cup
  (IF row = None THEN {} ELSE {Found(ServerAndPort(row))})

\* a query that fails on the way: connection, statement or result
\* (postgresql and odbc know one host, mysql tries its list in order)
mysql_outage_unnoticed(row) ==           \* mutant: an outage is a miss
  IF row = None \/ up = {} THEN {Failed("no_key")} ELSE {Found(ServerAndPort(row))}
mysql_get(row) ==
  {Failed("no_access"), Failed("other")} \cup
  (IF \A h \in DOMAIN Hosts : Hosts[h] \notin up THEN {}
   ELSE IF row = None THEN {Failed("no_key")}
   ELSE IF row.server \in {None, <<>>} THEN {}
   ELSE {Found(ServerAndPort(row))})

postgresql_get(row) ==
  {Failed("no_access"), Failed("other")} \cup
  (IF Hosts[1] \notin up THEN {}
   ELSE IF row = None \/ row.server = None THEN {Failed("no_key")}
   ELSE {Found(row.server \o (IF row.port = None THEN <<>>
                              ELSE <<":">> \o row.port))})

\* a NULL column leaves the buffer that was bound to it as it was, and
\* nobody has initialised it
Junk == {<<>>, <<"junk">>}

odbc_read(column) == IF column = None THEN Junk ELSE {column}

\* what is made of the row that was fetched
odbc_answer(server, port) ==
  IF server = <<>> THEN Failed("other")
  ELSE Found(server \o (IF port = <<>> THEN <<>> ELSE <<":">> \o port))

odbc_get(row) ==
  {Failed("no_access"), Failed("other")} \cup
  (IF Hosts[1] \notin up THEN {}
   ELSE IF row = None THEN {Failed("no_key")}
   ELSE {odbc_answer(server, port) :
           server \in odbc_read(row.server), port \in odbc_read(row.port)})

\* LDAP_SERVER_DOWN of the search is no error: without an entry it is "no
\* match".  An entry with the first attribute alone is taken apart as a
\* string, else the attributes are user, server and port.
ldap_get2(row) ==
  {Failed("no_access"), Failed("no_key"), Failed("other")} \cup
  (IF up = {} \/ row = None THEN {}
   ELSE IF row.user # None /\ row.server = None /\ row.port = None
   THEN {Found(user_server_port_strn_assign(row.user))}
   ELSE {Found(user_server_port_assign(row.user, row.server, row.port))})

\* dbserver_get() of the library, but for LibraryFails, FetchFails and PatternFails
Results(key) ==
  CASE lib = "gdbm"        -> gdbm_get(Row(key))
    [] lib = "bdb"         -> bdb_get(Row(key))
    [] lib = "cdb"         -> cdb_get(Row(key))
    [] lib = "nis"         -> nis_get(Row(key))
    [] lib = "posix_regex" -> posix_regex_get(Row(key))
    [] lib = "mysql"       -> mysql_get(Row(key))
    [] lib = "postgresql"  -> postgresql_get(Row(key))
    [] lib = "odbc"        -> odbc_get(Row(key))
    [] lib = "ldap"        -> ldap_get2(Row(key))

----------------------------------------------------------------------------
(* The libraries' dbserver_init() and dbserver_fini(): what the static data *)
(* may be afterwards, "failed" when the initialisation fails.              *)

\* the three SQL libraries split the options, unless there are some already
mysql_init(d)      == IF d # "none" THEN {d} ELSE {"set", "failed"}
postgresql_init(d) == IF d # "none" THEN {d} ELSE {"set", "failed"}
odbc_init(d)       == IF d # "none" THEN {d} ELSE {"set", "failed"}

\* ldap keeps the URL as its filter, once the version in front of it and the
\* form of it have been found good
ldap_init(d) == {"set"}

\* posix_regex compiles its file
posix_regex_init(d) == IF up = {} THEN {"failed"} ELSE {"set", "failed"}

\* gdbm, bdb, cdb and nis have neither function
Initialised(d) ==
  CASE lib = "mysql"       -> mysql_init(d)
    [] lib = "postgresql"  -> postgresql_init(d)
    [] lib = "odbc"        -> odbc_init(d)
    [] lib = "ldap"        -> ldap_init(d)
    [] lib = "posix_regex" -> posix_regex_init(d)
    [] OTHER               -> {"none"}

\* what posix_regex has compiled after a successful initialisation
NeverAgain == compiled                   \* mutant: "already initialised"
Compile == IF lib = "posix_regex" THEN [table |-> table, version |-> edits]
           ELSE None

\* dbserver_fini() destroys the array and forgets it; freeing it for the
\* second time is the end of the process
Finished(d) == IF d = "dangling" THEN "crash" ELSE "none"

----------------------------------------------------------------------------
(* getserver.c                                                             *)

\* do_getserver(): what becomes of a result.  A status of 0 with nothing in
\* it leaves NULL.
Assigned(result) ==
  IF result.status # "ok" THEN None
  ELSE IF lib = "ldap"
  THEN IF \A c \in Columns : result.str[c] \in {None, <<>>} THEN None
       ELSE result.str
  ELSE IF result.str = <<>> THEN None
  ELSE user_server_port_strn_assign(result.str)

\* the key of this turn: the name itself without a query_key
Key == IF opt.query_key = None THEN name
       ELSE getserver_key_str(opt.query_key[i], name, opt.env)

LastKey == opt.query_key = None \/ i = Len(opt.query_key)

\* Has the client named the server, and may it?
ServerTyped(user) == opt.client_server_specification /\ strrstr(user, Delim) # 0

----------------------------------------------------------------------------
(* main()                                                                  *)

\* getserver_openlib() has succeeded, or there would be no process
Init ==
  /\ lib \in Libraries /\ opt \in Configs /\ table \in Tables
  /\ up = Everything
  /\ edits = 0 /\ reloads = 0 /\ logins = 0 /\ loaded = 0
  /\ data \in Initialised("none") \ {"failed"}
  /\ compiled = IF lib = "posix_regex" THEN [table |-> table, version |-> 0]
                ELSE None
  /\ process = "alive" /\ pc = "idle"
  /\ typed = <<>> /\ name = <<>> /\ i = 1
  /\ usp = None /\ overtaken = FALSE /\ trail = <<>>

\* a login: the name is mangled for the lookup, and a server it names is
\* taken at its word
Login(user) ==
  /\ process = "alive" /\ pc = "idle"
  /\ logins < MaxLogins /\ logins' = logins + 1
  /\ typed' = user
  /\ LET id  == username_mangle(opt, user, "GET_SERVER")
         cut == strrstr(id, Delim)
     IN /\ id # None
        /\ IF ServerTyped(id)
           THEN /\ name' = Before(id, cut)
                /\ usp' = user_server_port_strn_assign(After(id, cut + Len(Delim)))
                /\ pc' = "done"
           ELSE /\ name' = id /\ usp' = None /\ pc' = "key"
  /\ i' = 1 /\ trail' = <<>> /\ overtaken' = FALSE
  /\ UNCHANGED <<lib, opt, admin, static, process>>

\* "Fatal error manipulating username [...]: Exiting child"
LoginFatal(user) ==
  /\ process = "alive" /\ pc = "idle" /\ logins < MaxLogins
  /\ username_mangle(opt, user, "GET_SERVER") = None
  /\ process' = "exited"
  /\ UNCHANGED <<lib, opt, admin, static, pc, call, usp, logins>>

\* the key is made; an unknown escape in its format ends the lookup
MakeKey ==
  /\ process = "alive" /\ pc = "key"
  /\ pc' = IF Key = None THEN "done" ELSE "call"
  /\ overtaken' = FALSE
  /\ UNCHANGED <<lib, opt, admin, static, process, typed, name, i, trail, usp,
                 logins>>

\* -2 goes on to the next key, anything else ends the loop
GoesOnAfterErrors(result) ==                     \* mutant: errors do too
  result.status # "ok" /\ ~LastKey
GoesOn(result) == result.status = "no_key" /\ ~LastKey

\* the loop's turn; misread says that the result is not of the key's row
Turn(result, misread) ==
  /\ trail' = Append(trail, [key |-> Key, row |-> Row(Key), up |-> up,
                             status |-> result.status,
                             late |-> Version < loaded,
                             misread |-> misread,
                             sound |-> ~overtaken /\ data # "dangling"])
  /\ IF GoesOn(result)
     THEN pc' = "key" /\ i' = i + 1 /\ usp' = None
     ELSE pc' = "done" /\ i' = i /\ usp' = Assigned(result)
  /\ UNCHANGED <<lib, opt, admin, process, typed, name, overtaken, logins>>

Answer ==
  /\ process = "alive" /\ pc = "call"
  /\ ~overtaken /\ data # "dangling"
  /\ \E result \in Results(Key) : Turn(result, FALSE)
  /\ UNCHANGED static

\* odbc: after an SQLFetch() that fails, but for SQL_NO_DATA, the buffers that
\* nobody has initialised are taken for the row
FetchFails ==
  /\ process = "alive" /\ pc = "call" /\ lib = "odbc"
  /\ ~overtaken /\ data # "dangling" /\ Hosts[1] \in up
  /\ \E server \in Junk, port \in Junk : Turn(odbc_answer(server, port), TRUE)
  /\ UNCHANGED static

\* posix_regex: regexec() fails, "no match", and a later pattern that matches
\* answers
PatternFails ==
  /\ process = "alive" /\ pc = "call" /\ lib = "posix_regex"
  /\ ~overtaken /\ data # "dangling"
  /\ \E key \in DOMAIN compiled.table \ {Key} :
       Turn(Found(ServerAndPort(compiled.table[key])), TRUE)
  /\ UNCHANGED static

\* mysql_init() fails: the options are freed, and the pointer to them and
\* the pointers into them stay
LibraryFails ==
  /\ process = "alive" /\ pc = "call"
  /\ lib = "mysql" /\ data = "set" /\ ~overtaken
  /\ Turn(Failed("no_access"), FALSE)
  /\ data' = "dangling"
  /\ UNCHANGED <<compiled, loaded, reloads>>

\* what a call that does not know what it reads may return; of all strings the
\* ones that are in nobody's row stand for the others
Anything ==
  {Failed("no_access"), Failed("no_key"), Failed("other")} \cup
  {Found(IF lib = "ldap" THEN user_server_port_assign(None, str, None) ELSE str) :
     str \in Junk}

\* a library whose code or data went away under the call: it may crash or
\* come back with anything
Undefined ==
  /\ process = "alive" /\ pc = "call"
  /\ overtaken \/ data = "dangling"
  /\ \/ /\ process' = "crashed"
        /\ UNCHANGED <<lib, opt, admin, static, pc, call, usp, logins>>
     \/ /\ \E result \in Anything : Turn(result, FALSE)
        /\ UNCHANGED static

\* PERDITION_CLEAN_UP_MAIN before the next attempt: user_server_port_destroy()
\* frees server, which must be where a block starts
Retry ==
  /\ process = "alive" /\ pc = "done"
  /\ process' = IF usp # None /\ ~usp.whole THEN "crashed" ELSE "alive"
  /\ usp' = None /\ pc' = "idle"
  /\ UNCHANGED <<lib, opt, admin, static, call, logins>>

----------------------------------------------------------------------------
(* SIGHUP: perdition_reread_handler()                                      *)

\* getserver_closelib() and getserver_openlib(): dlopen() may fail, and so
\* may dbserver_init(); the process then ends.
Reload ==
  /\ process = "alive"
  /\ reloads < MaxReloads /\ reloads' = reloads + 1
  /\ \/ /\ Finished(data) = "crash"
        /\ process' = "crashed"
        /\ UNCHANGED <<data, compiled, loaded, overtaken>>
     \/ /\ Finished(data) # "crash"
        /\ process' = "exited"
        /\ data' = "none" /\ compiled' = None
        /\ UNCHANGED <<loaded, overtaken>>
     \/ /\ Finished(data) # "crash"
        /\ data' \in Initialised(Finished(data)) \ {"failed"}
        /\ compiled' = Compile
        /\ loaded' = edits
        /\ overtaken' = (pc = "call")
        /\ UNCHANGED process
  /\ UNCHANGED <<lib, opt, admin, pc, typed, name, i, trail, usp, logins>>

----------------------------------------------------------------------------
(* The administrator and the network.                                      *)

Edit ==
  /\ process = "alive" /\ edits < MaxEdits /\ edits' = edits + 1
  /\ \/ table' \in Tables \ {table} /\ UNCHANGED up
     \/ up' \in SUBSET Everything \ {up} /\ UNCHANGED table
  /\ UNCHANGED <<lib, opt, static, process, pc, call, usp, logins>>

Stopped ==
  /\ process # "alive" \/ (pc \in {"idle", "done"} /\ logins = MaxLogins)
  /\ UNCHANGED vars

Next ==
  \/ \E user \in Users : Login(user) \/ LoginFatal(user)
  \/ MakeKey \/ Answer \/ FetchFails \/ PatternFails \/ LibraryFails \/ Undefined
  \/ Retry
  \/ Reload \/ Edit \/ Stopped

Spec == Init /\ [][Next]_vars

----------------------------------------------------------------------------
(* Properties.                                                             *)

Calls == {trail[n] : n \in DOMAIN trail}

\* what the library read was the key's row: its code and data were there
\* throughout, and neither FetchFails nor PatternFails put something in its place
Read(c) == c.sound /\ ~c.misread

\* The libraries' promise "-1 on file access error, -2 if key cannot be found in
\* map" (getserver() goes on to the next key then), as far as the code keeps it.
\* The databases tell a missing row from a host that is down; postgresql says -2
\* of a row without server, too.  gdbm, bdb and cdb tell a file that they cannot
\* open from a missing key, but a read that fails later is -2 for them.  nis,
\* ldap and posix_regex promise nothing: every failure may be -2.
Databases == {"mysql", "postgresql", "odbc"}
Files     == {"gdbm", "bdb", "cdb"}

\* A key that a database reports as missing is missing from it, and a key that
\* a file does not have has been looked for in the file: however hosts and file
\* come and go, such an outage never makes the lookup go on to the next key as
\* if the user were unknown.
NotFoundIsReal ==
  \A c \in Calls : c.sound /\ c.status = "no_key" =>
    /\ lib \in Databases =>
         c.row = None \/ (lib = "postgresql" /\ c.row.server = None)
    /\ lib \in Databases \cup Files => c.up # {}

\* The keys are tried in the order of query_key, every one before the last
\* was reported as missing, and what main() gets comes from the row of the
\* last: never a server of one key's row after another key was answered, never
\* one left from an earlier attempt.  (For calls that read a row.  What cdb
\* returns is empty; the brackets of an address are taken off.)
FirstKeyWins ==
  pc = "done" /\ trail # <<>> =>
    LET last == trail[Len(trail)]
    IN /\ \A n \in 1 .. Len(trail) - 1 : trail[n].status = "no_key"
       /\ opt.query_key # None =>
            \A n \in DOMAIN trail :
              trail[n].key = getserver_key_str(opt.query_key[n], name, opt.env)
       /\ usp # None /\ Read(last) =>
            /\ last.status = "ok" /\ last.row # None
            /\ \/ last.row.server \in {None, <<>>}
               \/ usp.server = last.row.server
               \/ last.row.server[1] = "[" /\ usp.server = FixLiteral(last.row.server)
       /\ last.status = "ok" /\ Read(last) /\ usp = None =>
            lib = "cdb" \/ last.row.server \in {None, <<>>}

\* After a SIGHUP has been handled no lookup is answered from what the map
\* held before it.
ReloadTakesEffect == \A c \in Calls : c.sound => ~c.late
=============================================================================
