------------------------------- MODULE Names -------------------------------
(***************************************************************************)
(* The names perdition handles: the user's name as it is mangled for a     *)
(* state (username.c), the string a map returns for it, [user@]server[:port]*)
(* (server_port.c), and the key a query_key format makes of it             *)
(* (getserver.c).                                                          *)
(*                                                                         *)
(* A C string is a sequence of tokens: the characters the code looks for   *)
(* are tokens of their own, every run of other characters is one.  NULL is *)
(* None.  Delim is opt.domain_delimiter, itself a sequence.                *)
(***************************************************************************)
EXTENDS Sequences, Naturals

CONSTANTS None,     \* NULL
          Delim,    \* opt.domain_delimiter
          Lower     \* the upper case tokens' lower case: a function on them

\* strings, and the triples that a map's answer is taken apart into; the tokens that
\* the code itself puts into a string are named for the provers' sake
Tokens   == STRING \cup {":", "junk"}
CStrings == Seq(Tokens)
Triple   == [user : CStrings \cup {None}, server : CStrings \cup {None},
             port : CStrings \cup {None}, whole : BOOLEAN]

ASSUME NamesAssumption == Lower \in [DOMAIN Lower -> STRING]
ASSUME NullAssumption == None \notin CStrings /\ None \notin Triple /\ Delim \in CStrings

MaxOf(S) == CHOOSE n \in S : \A m \in S : m <= n
MinOf(S) == CHOOSE n \in S : \A m \in S : n <= m

\* is needle at the i-th place of hay?
IsAt(hay, needle, i) ==
  /\ 1 <= i /\ i + Len(needle) - 1 <= Len(hay)
  /\ SubSeq(hay, i, i + Len(needle) - 1) = needle

\* the places at which needle occurs in hay
Places(hay, needle) == {i \in 1 .. Len(hay) : IsAt(hay, needle, i)}

\* strrstr(): where needle occurs last; 0 for NULL.  Nothing occurs in an
\* empty string, an empty needle occurs at the start of any other.
strrstr(hay, needle) ==
  IF hay = <<>> THEN 0
  ELSE IF needle = <<>> THEN 1
  ELSE LET at == Places(hay, needle) IN IF at = {} THEN 0 ELSE MaxOf(at)

\* strstr(), strchr() and strrchr() of the C library
strstr(hay, needle) ==
  LET at == Places(hay, needle) IN IF at = {} THEN 0 ELSE MinOf(at)
strchr(hay, c)  == strstr(hay, <<c>>)
strrchr(hay, c) == strrstr(hay, <<c>>)

\* strstr_sw(): one or the other
strstr_sw(hay, needle, backwards) ==
  IF backwards THEN strrstr(hay, needle) ELSE strstr(hay, needle)

Before(s, i) == SubSeq(s, 1, i - 1)
After(s, i)  == SubSeq(s, i, Len(s))

----------------------------------------------------------------------------
(* username.c; the options are fields of o, each mask a set of states.     *)

States == {"GET_SERVER", "LOCAL_AUTH", "REMOTE_LOGIN"}

\* username_strip(): cut at the last delimiter
username_strip(o, user, state) ==
  LET end == strrstr(user, Delim)
  IN IF \/ state \notin o.strip_domain
        \/ state = "GET_SERVER" /\ o.client_server_specification
        \/ end = 0
     THEN user
     ELSE Before(user, end)

\* the host name without its first depth labels; None when a label is not
\* followed by another.  A host is a sequence of labels here.
StripLabels(host, depth) ==
  IF depth >= Len(host) THEN None ELSE SubSeq(host, depth + 1, Len(host))

\* username_add_domain(): o.host is what getnameinfo() says of the local
\* address, None when the address is not known.  A getnameinfo() that fails
\* (o.resolves) makes the name NULL.
username_add_domain(o, user, state) ==
  LET domain == IF o.explicit_domain # None THEN o.explicit_domain
                ELSE IF o.host = None THEN None
                ELSE StripLabels(o.host, o.add_domain_strip_depth)
  IN IF state \notin o.add_domain \/ strstr(user, Delim) # 0 THEN user
     ELSE IF o.explicit_domain = None /\ o.host # None /\ ~o.resolves THEN None
     ELSE IF domain = None THEN user
     ELSE user \o Delim \o domain

\* username_lower_case()
username_lower_case(o, user, state) ==
  IF user = None \/ state \notin o.lower_case THEN user
  ELSE [i \in DOMAIN user |-> IF user[i] \in DOMAIN Lower THEN Lower[user[i]]
                              ELSE user[i]]

\* username_mangle(): strip, then add, then lower the case; None on an error
username_mangle(o, user, state) ==
  username_lower_case(o,
    username_add_domain(o, username_strip(o, user, state), state), state)

----------------------------------------------------------------------------
(* server_port.c.  A user_server_port_t also says whether each of its      *)
(* pointers is one that free() takes: FIX_IPV6_LITERAL moves server past   *)
(* the start of its block.                                                 *)

Empty == [user |-> None, server |-> None, port |-> None, whole |-> TRUE]

\* user_server_port_assign(): three strings of their own
user_server_port_assign(user, server, port) ==
  [user |-> user, server |-> server, port |-> port, whole |-> TRUE]

\* Does the string hold an IPv6 literal, at least [::]?
IsLiteral(str) ==
  LET l == strchr(str, "[")
      r == strrchr(str, "]")
  IN l # 0 /\ r # 0 /\ r - l > 2

\* where the port's delimiter is, 0 when there is none: right behind a
\* literal, or else the last ":"
PortDelimiter(str) ==
  LET r == strrchr(str, "]")
  IN IF ~IsLiteral(str) THEN strrchr(str, ":")
     ELSE IF r < Len(str) /\ str[r + 1] = ":" THEN r + 1 ELSE 0

\* FIX_IPV6_LITERAL: what is between "[" and the first "]".  A server that
\* starts with "[" and has no "]" of its own makes the code write to NULL:
\* None.
FixLiteral(server) ==
  LET l == strchr(server, "]")
  IN IF server = <<>> \/ Head(server) # "[" THEN server
     ELSE IF l = 0 THEN None
     ELSE SubSeq(server, 2, l - 1)

\* user_server_port_strn_assign()
user_server_port_strn_assign(str) ==
  LET colon  == PortDelimiter(str)
      port   == IF colon = 0 THEN None ELSE After(str, colon + 1)
      rest   == IF colon = 0 THEN str ELSE Before(str, colon)
      cut    == strrstr(rest, Delim)
      server == IF cut = 0 THEN rest ELSE After(rest, cut + Len(Delim))
      fixed  == IF IsLiteral(str) THEN FixLiteral(server) ELSE server
  IN [user   |-> IF cut = 0 THEN None ELSE Before(rest, cut),
      server |-> fixed,
      port   |-> port,
      \* without a user the server is the block that was allocated
      whole  |-> cut # 0 \/ fixed = server]

\* user_server_port_display() and user_server_port_length()
user_server_port_display(usp) ==
  (IF usp.user = None THEN <<>> ELSE usp.user \o Delim)
    \o usp.server
    \o (IF usp.port = None THEN <<>> ELSE <<":">> \o usp.port)

user_server_port_length(usp) ==
  (IF usp.user = None THEN 0 ELSE Len(usp.user) + Len(Delim))
    + (IF usp.server = None THEN 0 ELSE Len(usp.server))
    + (IF usp.port = None THEN 0 ELSE Len(usp.port) + 1)

\* user_server_port_dup(): three blocks, whatever the original's are
user_server_port_dup(usp) == [usp EXCEPT !.whole = TRUE]

----------------------------------------------------------------------------
(* getserver_key_str().  A format is a sequence of tokens of which "\\U",   *)
(* "\\u", ... are the escapes; env has the addresses and ports.            *)

\* _GSK_SPLIT_USER: domain_str++ steps over one character, whatever the
\* delimiter's length
SplitUser(full) ==
  LET cut == strrstr(full, Delim)
  IN IF cut = 0 THEN [user |-> full, domain |-> <<>>]
     ELSE [user |-> Before(full, cut), domain |-> After(full, cut + 1)]

Expand(token, full, env) ==
  CASE token = "\\U"   -> full
    [] token = "\\u"   -> SplitUser(full).user
    [] token = "\\D"   -> Delim
    [] token = "\\d"   -> SplitUser(full).domain
    [] token = "\\\\"  -> <<"\\">>
    [] token \in DOMAIN env -> env[token]
    [] OTHER           -> <<token>>

\* an escape that is none of these makes the key NULL
getserver_key_str(fmt, full, env) ==
  IF \E i \in DOMAIN fmt : fmt[i] = "\\?" THEN None
  ELSE LET key[n \in 0 .. Len(fmt)] ==
             IF n = 0 THEN <<>> ELSE key[n - 1] \o Expand(fmt[n], full, env)
       IN key[Len(fmt)]
=============================================================================
