# A TLA+ model of perdition

perdition is a proxy for POP3, IMAP4 and MANAGESIEVE. A client connects to it
and logs in; perdition looks the user up in a map, connects to the real server
that the map (or the configuration) names, logs in there with the same
credentials, and from then on copies bytes in both directions.

This directory holds TLA+ modules that model the parts of that program in which
the order of events matters, TLC configurations that check them on small
instances, and proofs, checked by TLAPS, that the most important properties hold
for all instances. All paths below are relative to the repository (`src/`).

## 1. Inventory

| Component | Source | State | Operations | What makes it correct |
|---|---|---|---|---|
| Authentication loop of a child | `perdition/perdition.c` `main()` 740-1119, `quit.c`, `auth.h` | `tls_state`, `client_io`, `server_io`, `auth`, `usp`, `servername`, `port`, `round_robin_server`, effective uid | handshake, greeting, `in_get_auth`, the `login_disabled` gate, lookup, choice of the server, PAM, connect, `out_setup`, TLS to the server, `out_authenticate`, `quit`, clean up and retry, `io_pipe` | no plain text credentials where TLS is forced; credentials of one login go to one server; a retry inherits nothing; every attempt is answered |
| Token buffer | `token.c` | one static buffer and offset for both connections | fill, read, flush | nobody is given what somebody else sent, or what was sent before a handshake |
| Pid file and process life | `perdition.c` 395-685, 1167-1185, 1250-1448 | the file, its directory, `pid_file` in the master and in each child | `create_pid_directory`, `write_pid_file`, `perdition_exit_cleanly`, fork, signals | one instance; the file names the instance that listens; it goes when that one goes |
| Daemon map | `db/daemon/` | per child: socket, packet buffer, attempt counter; per daemon: socket, request in work; the name in the file system | `dbserver_get2`, `perdition_un_send_recv`, the daemon's `main()`, packets | an answer is the answer to this request; lookups end; restarts of the daemon are survived; a packet's lengths agree |
| Waiting for input | `io_select.c`, `io.c` | the caller's timeout, `log_time`, bytes pending in the SSL library | `io_select`, `__io_select` | timeouts are exact, the log line is repeated on time, pending bytes do not stall |
| Client side of the protocols | `pop3_in.c`, `imap4_in.c`, `managesieve_in.c`, `*_write.c` | the name given by USER, the type of a string, what was announced | greeting and one loop per protocol over the client's commands | what they hand to `main()` is what the client said; every command has one reply; nobody waits for the other; what is announced is obeyed |
| Server side of the protocols | `pop3_out.c`, `imap4_out.c`, `managesieve_out.c` | tag, capabilities | `*_out_setup`, `*_out_authenticate`, `*_out_response` | a password is sent only to a server that is ready for it; what the server forbids is left |
| Lookup and names | `getserver.c`, `username.c`, `server_port.c` | the result, the index into `query_key` | mangling, query keys in turn, splitting user, domain, server and port | the first key that is there decides; an outage is no answer |
| Map libraries and their reload | `db/*`, `perdition.c` 1138-1165 | compiled patterns, split options | `dbserver_init`, `dbserver_get`, `dbserver_fini`, the SIGHUP handler | a reload takes effect, and not in the middle of a call |
| SSL | `ssl.c` | contexts, the verification's error | contexts, handshake, verify callback, comparison of names | a connection is what the options ask for; a handshake ends |
| Texts | `str.c`, `sasl_plain.c`, `base64.c`, `acap*.c`, `imap4_tag.c`, `packet.c`, substitutions of two maps | the IMAP4 tag | writers and readers of each form | what is written is what is read; buffers suffice; tags differ |
| Options, log, PAM, tools | `options.c`, `config_file.c`, `log.c`, `pam.c`, `makebdb`, `makegdbm` | | | |

How they interact. The master accepts, forks, and the child runs `main()`'s
loop. The loop calls the protocol's methods through the table of `protocol.c`;
those read both connections through the one buffer of `token.c`. The lookup
calls a map library, which for the daemon map talks over unix datagram sockets
to a separate process. After the login `io_pipe()` and `io_select()` have the
connections. Signal handlers may run between any two statements: the fatal ones
end the process with `perdition_exit_cleanly()`, SIGHUP reloads the map.

What is hard here: one static buffer that outlives handshakes, attempts and
peers; clean ups by hand on six `continue`s of one loop; pointers into objects
with three different owners; datagrams without a request number that are
repeated; processes that race for a file name; signals between a system call
and the assignment that records it; clients that pipeline and wait for
continuation requests; a verification that is done by callbacks. PROJECT.json
lists these hazards with the line at which each one bites.

## 2. Plan

| | Module | State |
|---|---|---|
| 1 | `Session`, with `ProxyContract` as its abstract specification | checked, proved |
| 2 | `MapDaemon`, with `MapService` as its abstract specification | checked, proved |
| 3 | `PidFile` | checked, proved |
| 4 | `IoSelect` | checked, proved |
| 5 | `RealServer`, the real server's side of the three protocols | checked, proved |
| 6 | `ClientSide`, the client's side of the three protocols | checked, proved |
| 7 | `Names` and `Lookup`, the lookup and its reload, over all map libraries | checked, proved |
| 8 | `Tls`, one SSL connection | checked, proved |
| 9 | `Tags`, the tags of perdition's own IMAP4 commands | checked, proved |
| 10 | `Texts` and `Conversions`, the codecs | checked, out of the prover's reach |

Not related formally: `ClientSide` and `Session`'s `in_get_auth`. Both have the same
handling of the buffer, in `ClientSide` with the commands that fill it.

## 3. The modules

### Session

One child process. `pc` is the place in `main()`, named after the method that is
called there; every action is the code from one such place to the next,
including its error paths (`Exit`, `failed`, `quit`). The protocol methods appear
as what `main()` can observe: a status, credentials, and what they leave in the
token buffer. `in_get_auth`'s own loop is `FillFromClient`, `OtherCommand`,
`LoginCommand`, `StartTlsCommand` and `ClientGone`.

* `tokens` is the static buffer of `token.c`, reduced to who sent what is left
  in it, whether that was under TLS, and how many commands it is. Readers take
  from it first and from their connection when it is exhausted (`Taken`).
* `auth` is reduced to the number of the attempt and to how its credentials
  arrived. `sent` collects what `out_authenticate` wrote, with the server and the
  kind of connection.
* Pointers are numbers: 0 is NULL, -1 the element of `opt.outgoing_server`, -2
  `opt.outgoing_port`, n > 0 the object the lookup of attempt n allocated. `heap`
  holds the objects that are allocated. `CleanUpMain` is
  `PERDITION_CLEAN_UP_MAIN`, which resets `tls_state` and leaves `port` alone. A
  read through a freed pointer (`DefaultPort`) has either outcome.
* `opt` is chosen at the start: every `ssl_mode` that the keywords of
  `OPT_SSL_MODE` can add up to.

`ProxyContract` says what a session promises whatever the protocol: attempts one
after the other, credentials of an attempt relayed at most once and only as
protected as the policy asks, and a client connected through only after its
credentials were relayed. `Session` implements it with `Phase` for `pc` and
`Relayed` for `sent`.

### MapDaemon

`dbserver_get2()` in the children (`Open`, `OpenFails`, `Close`), the exchange
`perdition_un_send_recv()` (`Send`, `SendInterrupted`, `SendRefused`, `GiveUp`,
`Timeout`, `Receive`, `IoError`), and the daemon (`Start`, `Bind`, `Take`, `Reply`,
`Stop`), which may be killed (`Crash`) and of which two may overlap. `msg` is the
one packet buffer that holds the request and is overwritten by whatever
arrives. `path` is the daemon that the name `server_socket` leads to. Sockets
queue at most `QueueLen` datagrams and senders block when it is full. A packet is
its kind and its key; keys are named after the lookup that asks for them. Other
processes (`Stranger`) send any packet to a child's socket, requests too: `Receive`
puts it into `msg` before it looks at the sender, and the next `Send` sends what is
there. `misled` remembers that a lookup has sent a request for another key than its
own.

`MapService` says what the calls may rely on, with nothing of sockets and datagrams:
a call returns the answer that the service gave to this call while it lasted, or gives
up after `max_retry` refusals, or fails, and nothing of it is left for the next one.
What other processes send ends no call. The one thing that it can do is in the contract:
a call that was misled (`Mislead`) may return the answer to another key (`Mistaken`).
`MapDaemon` implements it with `Phase` for `pc`, `Outcome` for `result` and `answer`, and
`Served` for all that is on its way: of the datagrams only whether one of a daemon
waits at the child's socket is left.

### PidFile

Each system call of `create_pid_directory()` and `write_pid_file()` is an action,
for any number of masters. `file` is the process whose file has the name; a file
is known by its maker. `fd` is the file whose pid was read. `pid_file` is the set
of masters whose variable is set, and `child` a master's latest child, with its
inherited copy set (`"forked"`) or cleared (`"serving"`). `order` is a history
variable: it becomes `"broken"` when two starts overlap or a child is signalled
before it has cleared its copy.

### IoSelect

One connection's waits in whole seconds. `Loop` is the body of `io_select()`'s
`while(1)` up to `select()`, `Tick` a second that passes in it, and `Ready`,
`Interrupted`, `Invalid` and `Expired` are the ways `select()` returns. An
`internal_timeout` that was never set has any of the values in `Garbage`.

### RealServer

`out_setup` and `out_authenticate` of the three protocols together with what
`main()` does between them. `pc` names the reply that is read next. An action
reads that reply with the protocol's `out_response` (`Response` is the set of its
outcomes), and writes the next command (`Say`) or returns (`SetUp`, `Finish`).
`status` and `flags` are the two things the methods return in one number; a
result of `strcmp()` that is returned has any sign and any flag.

The server is a peer that keeps to the protocol: it answers each command in order
with yes or no and a set of capabilities of its choice, knows where in a LOGIN it
is (`srv`), and in IMAP4 may put an untagged line into an answer (`chatty`).
`lines` is what it sent and perdition has not read, each with the number of the
command it belongs to. Reads and writes may fail anywhere; a read that times out
leaves what comes late in `lines` (`trouble` remembers that it happened).
`read_line()` stops when its buffer is full, and the buffer's size often is the
length of the previous line: `cut` says where that can be, and the rest of such a
line is the next one that is read, unless `token_flush()` drops it.

`SuccessIsReal` is false without `~trouble`: with a chatty server the reply to
CAPABILITY stays unread and its tag is not counted up (imap4_out.c:105); if the
reads of both continuation requests then time out, its late OK has LOGIN's tag and
is taken for LOGIN's answer, whatever the password was.

### ClientSide

The greeting and `in_get_auth` of the three protocols, with the part of `main()`
that calls them (`Start`), refuses a login (`Decide`, `Refuse`), drops what was read
too early (`AfterFlush`) and does the handshake. `wire` is what the client has sent
and perdition has not read, in lines and in the data of literals; `PopLine`,
`ImapLine`, `ImapName`, `ImapSpace`, `ImapPassword`, `SieveLine` and `SieveLiteral` read
one piece each. The client (`Command`, `Continue`) pipelines, mistypes, and waits
for the continuation request of a synchronising literal, whose remaining
pieces are in `todo`. A string is how it is sent (atom, quoted, either kind of
literal) and whether it is empty, ordinary or has quotes in it; `name` and `pw` are
the result compared with that ("same" or "altered"). `asked` and `answered` count
commands and final replies. An IMAP4 literal that does not come in time, or not whole,
does not end the session: LOGIN is answered with BAD (`ImapDataFails`) and what comes
of it later is read as the beginning of the next line, whose first word is no tag
(`ImapLate`).

`HonestCapability` makes two exceptions that the code makes: after a failed login
`tls_state` is 0, so STARTTLS is announced on an encrypted connection and then
refused; and with `login_disabled` LOGINDISABLED is no longer announced under TLS.
Two forms of legal MANAGESIEVE input are left out of the runs (`CommonShapes`)
because the code answers them wrongly: a NOOP with an argument as a string
(`managesieve_write.h:71-78` writes the tag differently from what
`managesieve_write.c:118` expects), and a literal that AUTHENTICATE does not read:
one of length 0, or one for another mechanism.

### Names and Lookup

`Names` has the operators of `username.c`, `server_port.c` and `getserver_key_str()`. A
string is a sequence of tokens: the characters that the code looks for, and
whole runs of all others.

`Lookup` is the `query_key` loop: `Login` mangles the name, `MakeKey` expands a format,
`Answer` is one call of the library, and `Retry` frees the result. Each library is
the set of results that its `dbserver_get()` can have for a row (`Results`), with
the errors that it reports as a missing key. `Initialised` and `Finished` are its
`dbserver_init()` and `dbserver_fini()`. `Reload` is the SIGHUP handler, which may run
between any two steps; `Edit` changes the table or what of the databases is up.
`compiled` is what `posix_regex` keeps, `data` what the SQL libraries keep.

Any call may fail in the ways its library has for that, with the status that the code
returns: `gdbm`, `bdb` and `cdb` report a read that fails in an open file as a missing
key, `nis`, `ldap` and `posix_regex` nearly everything. Two failures return something:
after a failed `SQLFetch()` odbc answers from buffers nobody has set (`FetchFails`), and
after an error of `regexec()` a later pattern may match (`PatternFails`); `misread`
marks these. A signal within a library's own call, and a pointer that is left
behind by it (`LibraryFails`), lead to `Undefined`: the process crashes, or the call
comes back with `Anything`, answers that are in no row included; `sound` is false of
such calls. `NotFoundIsReal` and `ReloadTakesEffect` are about sound calls,
`FirstKeyWins`, in what it says of the result, about those that are sound and not
misread (`Read`). When the name cannot be mangled because a look-up of the own
address fails the child ends (`LoginFatal`).

### Tls

One connection from `perdition_ssl_ctx()` (`MakeContext`) to the check of the
certificate (`Check`). The peer is its versions, its chain, the root that this ends
in and its names. openssl is external: `Call` is the call of `X509_verify_cert()`
that is due at one point (`stage`, `depth`) of its walk along a chain, if any
(`Silent`), `GoOn` the way to the next point, and `Receive` the flights of the
handshake.
`__perdition_verify_callback`, `__perdition_verify_result`,
`__perdition_ssl_compare_key` and the version setters, openssl's or perdition's
own (`build`), are perdition's and keep their names.

### Tags, Texts and Conversions

`Tags` is `imap4_tag_inc()` and the tags that a connection has `used`. A connection has
at most `MaxTags`, and the next one starts over with `FirstTag`. A command has a new
tag (`NextTag`) or the one of the CAPABILITY directly before it (`SameTag`), which is
what happens when `imap4_out_get_capability()` gives up at a line that is not the
list (`imap4_out.c:103-107`).

`Texts` holds the loops over strings as recursive operators: words in
a list (`str.c`), SASL PLAIN, base64 as an opaque pair, ACAP strings as quoted
strings (`ACAP_QUOTED_MAX`, 1024 with the quotes), literals and atoms, IMAP4
quoted strings, the packets of the daemon map with their sizes, the
substitutions of the regex and LDAP maps, and LDAP URIs. Characters are
themselves; "8bit" is a byte that is not UTF-8, which passes for a character where
`char` is signed, "shy" and "wide" are what libidn's `saslprep()` drops and makes
longer. `Undefined` is the result where the code reads or writes beside its buffer,
the LDAP filter's included when `realloc()` has cut it before `memmove()` reads on
(`perditiondb_ldap.c:209-218`). `Conversions`
applies each conversion to each of its inputs (`Convert`), keeps what was
`given`, what was `made` of it and what the other side `read`; `Command` takes the
next tag of `Tags`.

## 4. What the runs check

| Run | Shows |
|---|---|
| `session` | All 36 `ssl_mode`s times the other options, two attempts, two pipelined commands: seven safety properties and the action property `SentByThisLogin`, the refinement of `ProxyContract`, and that each attempt is answered |
| `session_tls_state` (violation) | After STARTTLS and one failed login `tls_state` says plain text: with `tls_listen_force` no later login of this connection can succeed |
| `session_tokens` (violation) | What a real server sent beyond its reply is read as the client's next command after a failed login |
| `map_daemon` | A child with two lookups, two daemons that start, stop, crash and overlap: answers belong to the key that was sent, `MapService` is implemented whatever other processes send, giving up needs `max_retry` refusals, and each lookup returns once the daemon settles, up or down |
| `pid_file` | Three masters: the file is right while starts do not overlap, and every start ends even if they do |
| `io_select` | Timeouts of none, less than, equal to and more than `connect_relog`: exact timeouts, a log on time, no stall on pending bytes |
| `real_server` | All protocols, TLS policies and answers, failing reads and writes, chatty IMAP4 servers: success means that the server let the user in, replies belong to commands, no waiting in vain, LOGINDISABLED obeyed (but for a list that a line of the server's own comes before), a MANAGESIEVE handshake agreed, forced TLS before credentials |
| `client_side` | All protocols, four ssl modes, `login_disabled` or not, clients that pipeline and use every kind of string: nothing from before a handshake is obeyed, one reply per command, nobody waits for the other, honest capabilities, credentials with every success |
| `client_password` (violation) | An IMAP4 LOGIN with strings of different kinds yields a password that the client did not send |
| `lookup` | Nine map libraries, four option sets, failing reads, outages, edits and a SIGHUP at any step: keys are tried in order and what an answer that was read says is in the last key's row, an outage is not taken for a missing key by the libraries that can tell, a reload takes effect |
| `tls` | Sixteen option sets, both directions: certificates, names and versions as the options ask, and every handshake ends |
| `conversions` | Every conversion on its inputs: what is written is read, edits keep the rest, buffers suffice, a tag is used again for the command right after CAPABILITY only |

Bounds. Two attempts in `Session` are one attempt with every possible past
attempt; two pipelined commands are one that is taken and one that is left. In
`MapDaemon` two lookups let answers to the first arrive in the second, a retry
limit of 2 and a queue of two are the least that can be reached in several ways,
two daemons are the overlap of an upgrade, and what other processes send is a
response and a request for a key that is no child's. One child is enough for these
properties, as children share nothing but the daemon's queue; that the safety
ones hold with more is proved. In `PidFile` three masters are one that died, one that
starts and one that starts at the same time. In `IoSelect` ten seconds hold three
repetitions of the log. `RealServer` has no bound: an exchange is at most six
commands long. In `ClientSide` three commands (`MaxCommands`), two of them
unanswered at a time (`MaxPipeline`), are a failed login or STARTTLS, one command
behind it and one more. In `Lookup` two logins (`MaxLogins`) let the second meet
what the first left, two edits and outages (`MaxEdits`) break and mend a database
or change it before and after a reload (`MaxReloads` 1, as a second starts where
the first ended). In `Tls` chains have up to three certificates, one more than the
depth allows, and the timeouts are none and one minute. `Conversions` takes
strings with quotes, backslashes, line ends and the delimiters of names,
literals around 10 and 100 characters where the digits of the length change,
quoted strings of 1024 characters and one more,
packets up to the largest and one byte more, lists of up to four words that are
prefixes and suffixes of each other, templates of three pieces, and 150 tags
from the code's first one, which carries twice.

Deadlock is checked except in `MapDaemon`, `PidFile` and `IoSelect`, where the system
may stop: no lookup is obliged to begin, no process to be started, and time is
bounded. The other modules say where an end is an end (`Ended`, `Stopped`).

Fairness. `Session`: the process is scheduled where it waits for nobody
(`Scheduled`); the rest of `FairSpec` are assumptions that the code does not make
true by itself. `ServerAnswers`: `authenticate_timeout` is not 0, which is infinite
(`perdition.8:112`), and the real server reads what is written to it and ends its
dialogue, for the timeout is that of one read. `ClientReads`: the client reads its
reply or is gone; a write has no timeout (`io.c:258-286`). `MapReturns` and
`PamReturns`: the map and PAM return; of the daemon map that asks for a daemon that
answers or is not there (`unix_socket.c:139`). Without one of them an attempt may
wait for ever, and `AttemptAnswered` says nothing. `MapDaemon`: children and
daemons are scheduled; nobody need start a daemon, and `LookupReturns` asks that
daemons settle. It also asks for one child and one daemon at a time and for no
datagrams of other processes, for the reasons below. `PidFile`: processes that run
are scheduled. `Tls`: perdition and openssl go on, and the kernel ends a read
after `SO_RCVTIMEO`; nothing is asked of the peer. Signals, kills, crashes and
errors are never fair.

### Where the code and its texts differ

Three differences have a run: `session_tls_state`, `session_tokens` and
`client_password`. The following were met while modelling; the models follow the
code, and the properties above except them by name.

* Process life: two starts that overlap on a stale pid file both succeed
  (`perdition.c:1385-1398`). A signal right after `fork()` lets the child remove its
  master's file, and one between creating and writing the file leaves an empty one
  behind, which every later start refuses: `StartEnds` says that those starts end, not
  that they succeed.
* Session: `port` is not reset by the clean up (`perdition.c:865`). A failed `strdup()`
  logs "Exiting child" and goes on (`perdition.c:842`). `perdition.8:364-366` gives
  `outgoing_server` to users without an entry; it is also used when the lookup failed.
* Daemon map: with two children a child and the daemon can block on each
  other's full queue (`server.c:188`, against `server.c:201`). An ignored datagram
  overwrites the request that is sent again (`unix_socket.c:160`): a request of
  another process can make a lookup ask for, and return, another key's answer. Resends after a
  timeout are not counted. The failure of `socket()` is tested on another variable
  (`perditiondb_daemon.c:249`). A daemon that is replaced removes its successor's
  socket (`server.c:210`).
* Waiting: `internal_timeout` may be used without a value (`io_select.c:337`); EINTR
  starts the idle timeout again (`io.c:376`).
* Real server: after a refused STLS or STARTTLS the handshake is started all the same
  (`pop3_out.c:213`, `imap4_out.c:252-257`). "If the LOGINDISABLED capability is set
  processing stops" (`imap4_out.c:287-290`), but an untagged line before the list is
  taken for it (`imap4_out.c:103-107`): LOGIN is sent, with CAPABILITY's tag and its
  reply unread.
* Maps: the loop over `query_key` stops at the first error or empty result; `cdb`
  reads with a length of 0 (`perditiondb_cdb.c:77-80`) and so finds nothing. All
  headers say "-1 on file access error, -2 if key cannot be found in map", but
  `bdb`, `nis` and `ldap` report failures as a missing key, `gdbm` any failing
  `gdbm_fetch()` (`perditiondb_gdbm.c:76-80`), `cdb` a failing `cdb_seek()`
  (`perditiondb_cdb.c:60-96`), `posix_regex` an error of `regexec()` and a pattern
  that matches nothing at the key's end, which also keeps later patterns from being
  tried (`perditiondb_posix_regex.c:304-306`). After a failed `SQLFetch()` odbc goes
  on with buffers nobody has set (`perditiondb_odbc.c:318-330`). After a failing `mysql_init()`
  pointers to freed options stay (`mysql.c:221-225`). `FIX_IPV6_LITERAL` moves the
  pointer that is later freed (`server_port.c:107`).
* Names: by `perdition.8:85-86` `add_domain` does nothing for a lookup when
  `client_server_specification` is set, which `username.c:66` does not ask; `\d` in
  `query_key` leaves out one character, however long the delimiter is. A failing
  `getnameinfo()` for `add_domain` ends the child (`username.c:92-96`,
  `perdition.c:818-824`).
* TLS: compression is never switched off (`ssl.c:684-685`, against
  `perdition.8:707-711`); a failing cipher list is ignored; only reads have the
  handshake's timeout; names are compared with their case. `ssl_passphrase_file` is
  opened for every context, outgoing ones included, where privileges have been
  dropped (`ssl.c:780-789`).
* Texts: for the first word of a list `str_delete_substring()` moves to before its
  buffer (`str.c:527-531`) and `str_append_substring_if_missing()` reads there
  (`str.c:575`). Its comment has the delimiter that follows a needle removed
  (`str.c:473-475`), the code removes the one in front, which `EditsKeepTheRest`
  follows. With libidn SASL PLAIN's offsets are those of the prepared string
  (`sasl_plain.c:97-107`). ACAP's quoted strings are neither escaped nor unescaped, and
  written at lengths (`acap_from_str()`) that the reader refuses (`acap_token.c:25,122`).
  An LDAP filter that shrinks is cut before its tail is moved
  (`perditiondb_ldap.c:209-218`).

## 5. What is proved

`SessionProofs`: `TypeOK`, `NoPlaintextLogin`, `NoPlaintextRelay`,
`NothingFromBeforeTheHandshake`, `OneServerPerLogin`, `CleanSlate`, `Unprivileged`,
`TlsStateNeverOverstates`, `SentByThisLogin` and the refinement of
`ProxyContract`, for every set of configurations, number of attempts and amount
of pipelined input. The assumptions are that `Options` are valid ones and that
the two bounds are natural numbers. The inductive invariant is needed because
the properties talk about what a peer sent, and what is in the buffer at one
place decides what is heard at a later one: `BufferInv` says where the buffer
is empty and whose bytes it may hold elsewhere, `LoginInv` that `TLS_LISTEN` in
`tls_state` implies an encrypted client, `ServerInv` what the server's connection
is like, `ChoiceInv` who owns the object that `servername` points to, and
`AttemptInv` which attempt the credentials are of.

`MapDaemonProofs`: `TypeOK`, `AnswerIsForTheKey`, `GivesUpWhenRefused` and the
refinement of `MapService` for any number of children, daemons, lookups and retries, any
queue length and any packets of other processes. The key of the argument is that a
socket's name is that of one lookup (`mkdtemp()`): every request on its way asks for the
key of the lookup whose socket it comes from, unless that lookup is misled
(`RequestsInv`), so every answer at a socket is for that lookup's key with the same
exception (`InboxInv`). In the refinement the daemon's `Reply` is the service's answer
the first time and a stutter when it comes again, sending another process's request is
`Mislead`, and what closes the socket (`Close`, the end of a lookup) is what leaves
nothing for the next call. Of `StrangeAssumption` only that the datagrams are packets is
used.

`PidFileProofs`: `TypeOK`, `ListenerIsNamed` and `OneAtATime` for any number of
processes. While order is kept one process starts at a time (`StartInv`), the
file is its own from `open()` on (`OwnerInv`), only a process that has its file
would remove it (`RemoveInv`), and what a starting process read is still the file
that is there, of a process that is gone (`StaleInv`).

`IoSelectProofs`: `LogIsOnTime`, `TimeoutIsExact` and `PendingIsServed` for any
`connect_relog` and timeouts and for as long as time goes on. The pieces that a
wait is cut into add up (`SumInv`): the time that `select()` still waits and what the
caller's timeout was reduced to always end where the call's time is up. A piece
never reaches beyond the time at which the log is due (`LogInv`).

`RealServerProofs`: `NoPlaintextCredentials`, `NeverWaitsInVain`, `SuccessIsReal`,
`AnswersPaired` and `ServerIsObeyed`. perdition does not know which command a line
answers, so the invariant says which lines may be unread at each place of each
protocol, in three layers. `Base` holds whatever fails: where TLS was agreed
(`ForceInv`) and that a reply is owed wherever one is read (`OwedInv`). `PairInv` is for
servers that send no lines of their own and says exactly what is unread:
the reply to the latest command and nothing else, or what is left of STARTTLS's;
`VerdictInv` and `ObeyInv` follow along it. With a chatty IMAP4 server lines of earlier
commands do stay unread; `TagInv` says which of them may be an OK with the current
tag, and that such a one is read before the password's answer.

`ServerIsObeyed` has an exception that the code makes: when a chatty IMAP4 server puts a
line of its own before CAPABILITY's reply that line is taken for the list, and LOGIN is
written with the reply unread. It is stated, and proved, to be the only one: `UnreadInv`
says that a LOGIN against LOGINDISABLED has an earlier command's line unread.

It also proves `TagsDoNotRepeat`, for a first tag of any length: `imap4_tag_inc()` goes
from each tag to the next one in their order and from the last to the first
(`Successor`), so the tags that were used are always a stretch of that cycle
(`CycleInv`). A tag is used for two commands only when the first is CAPABILITY and the
second directly follows it. This is why `RealServer` may have a counter for the tag, which
stands still in that case.

`ClientSideProofs`: `HonestCapability`, `SuccessIsSeeded`, `PlaintextNotObeyed`, `OneReply`
and `NobodyWaits` for any number of commands and of them unanswered. `LinkInv` relates
`tls_state` to the connection until a failed login resets it, `ListedInv` says that
what was announced last fits `tls_state`, and `SeedInv` which name is there at each
place of a command that takes several reads.

The other three count commands against replies. The stream is what perdition has not
read, sent or held back by the client. Each command has one line in it that is heavy:
the line that its reply comes after, which for a LOGIN whose name is a literal is the
one with the password. (A LOGIN whose name did not come in time is answered before
that line; the line is then the one that `ImapLate` reads.) `CreditInv` says that
replies, the command under way (`Busy`) and the weight of the stream (`Count`) are
never more than the commands that were sent. It needs to know that a line has behind
it what its literals need (`ShapeInv`), and that MANAGESIEVE reads data only where it
asked for them (`SieveInv`). `EncInv` says that at most what is held back was written
before the handshake. Together they are `WireInv`, which holds whatever fails and is
dropped. `WaitInv` is about sessions in which nothing did (`Sure`): then the three are
exactly as many as the commands (`ExactInv`), and a client that holds something back
has a continuation request on its way or ends what it sent with the line it waits
after (`SyncInv`). For this what is in front of a line matters as well (`BackInv`).
All steps that read go through one description (`Effect`): a handler that reads the
first k lines or data answers, keeps or asks for as much as they weigh.

`OneReply` is proved for `Shapes` without "unread_literal", as with such a literal
MANAGESIEVE answers a command twice, and `NobodyWaits` for the `Shapes` of the run, as
a NOOP with a string gets no reply that a client can read. `ImapRepliesPaired`
needs neither: for IMAP4 tagged replies never outnumber tagged commands, even after
`token_flush()` has cut a command in half.

`LookupProofs`: `TypeOK`, `ReloadTakesEffect` and `NotFoundIsReal` for every table,
list of keys and number of edits, outages and reloads. For every table there is also
`KeysInOrder`: the keys are asked for in their order, the loop goes on only after the
library has reported -2, for whichever reason, and what it returns of a call that read
the table (`Read`) is of a key that has a row and was asked for last. That a plain
server is read as it was written, `FirstKeyWins`, is proved for tables whose servers
are plain host names or begin with a bracketed literal (`PlainTables`). Without that
hypothesis it is false: a server that holds a second delimiter or an unpaired bracket
is taken apart in another way than it was written. `VersionInv` bounds the age of what
a library reads, `CallInv` and `KeyInv` say what each past call was asked and found,
`OrderInv` that all but the last were reported as missing, and `AnswerInv` that what
the caller gets is the last one's row if that was read. That needs what the string
operators of `Names` compute: where a delimiter is found in a string that was put
together from parts in which it does not occur.

`TlsProofs`: `TypeOK`, `ConnectionIsAsAsked` and `PeerIsNamed` for chains and names of any
length, any options and any authorities. `WalkInv` says that what openssl has walked
past was accepted by an option and within the depth, `EndInv` that the handshake
ends after the walk. The one for names is about `strchr()` and the comparison of what
is behind it: when they agree, the ends of the labels of one name are those of
the other moved by a constant (`CompareIsSameHost`), so there are equally many
and each label from the second on is the same.

What a theorem assumes of the constants is in the `ASSUME`s of the modules: types
of the options and tables, and that NULL is none of the strings.

Only model checked:

* the liveness properties (`AttemptAnswered`, `LookupReturns`, `StartEnds`,
  `HandshakeEnds`), which the prover cannot do;
* `Conversions`, except for the tags: `Texts` has recursive operators over
  strings, and what a recursive definition computes for every input is an
  induction over data, which the installed provers cannot do.

## 6. What is not modelled

* Option parsing (popt, the configuration file): the models start from sets of
  options that it can produce.
* The PAM conversation: an outcome.
* The bytes that `io_pipe()` copies.
* SQL statements and the option strings of the map libraries; the databases'
  protocols.
* base64's and saslprep's insides, the encodings of UTF-8 beyond what is one and what
  is not, ciphers and key material: they belong to libraries.
* Packets of the daemon map whose lengths do not agree (`packet.c:384`): perdition and
  its daemon make none.
* Logging except for its timing, the process title.
* Literals longer than a line's limit and allocation failures on the client's side.
* The tools that build maps, packaging and init scripts: input and output only.

`PROJECT.json` lists the components with their status.
