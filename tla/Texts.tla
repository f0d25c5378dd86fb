------------------------------- MODULE Texts -------------------------------
(***************************************************************************)
(* What perdition does to strings: searching and editing (str.c), the      *)
(* forms in which it writes a value for another program to read, a SASL    *)
(* PLAIN challenge, an ACAP string, a packet of the daemon map, and the    *)
(* reader of each, and the substitutions of the regex and LDAP maps.       *)
(*                                                                         *)
(* A C string is a sequence of characters without "NUL", NULL is None.     *)
(* These are operators for TLC: the loops over a string are recursive.     *)
(***************************************************************************)
EXTENDS Integers, FiniteSets, Names

\* the code reads or writes beside its buffer
Undefined == <<"undefined">>

Figures == <<"0", "1", "2", "3", "4", "5", "6", "7", "8", "9">>
IsFigure(c) == c \in {Figures[k] : k \in 1 .. 10}
ValueOf(c) == CHOOSE n \in 0 .. 9 : Figures[n + 1] = c

\* where needle occurs in hay at or after a place; 0 for NULL
FindFrom(hay, needle, start) ==
  LET at == {i \in start .. Len(hay) : IsAt(hay, needle, i)}
  IN IF at = {} THEN 0 ELSE CHOOSE i \in at : \A j \in at : i <= j

----------------------------------------------------------------------------
(* str.c: lists of words in a string.                                      *)

Precedes(s, delim, at) == IsAt(s, delim, at - Len(delim))
Follows(s, delim, at)  == at > Len(s) \/ IsAt(s, delim, at)

\* str_delete_substring(): each whole word goes together with the delimiter in
\* front of it, also when there is none because the word is the first
RECURSIVE DeleteFrom(_, _, _, _)
ForgetsTheEnd(s, needle, delim, start) ==      \* mutant: part of a word counts
  LET at == FindFrom(s, needle, start)
  IN IF at = 0 THEN s
     ELSE IF at = 1 THEN Undefined
     ELSE IF ~Precedes(s, delim, at)
     THEN DeleteFrom(s, needle, delim, at + Len(needle))
     ELSE DeleteFrom(Before(s, at - Len(delim)) \o After(s, at + Len(needle)),
                     needle, delim, at - Len(delim))
DeleteFrom(s, needle, delim, start) ==
  LET at == FindFrom(s, needle, start)
  IN IF at = 0 THEN s
     ELSE IF (at > 1 /\ ~Precedes(s, delim, at)) \/ ~Follows(s, delim, at + Len(needle))
     THEN DeleteFrom(s, needle, delim, at + Len(needle))
     ELSE IF at = 1 THEN Undefined
     ELSE DeleteFrom(Before(s, at - Len(delim)) \o After(s, at + Len(needle)),
                     needle, delim, at - Len(delim))
str_delete_substring(hay, needle, delim) == DeleteFrom(hay, needle, delim, 1)

\* str_append_substring_if_missing(): the beginning is compared with the string
\* that is yet to be made, so for a word there the code looks at what lies
\* before the string; beside says whether that ends like the delimiter begins
HasWord(s, needle, delim, beside) ==
  \E at \in 1 .. Len(s) :
    /\ IsAt(s, needle, at)
    /\ \/ Precedes(s, delim, at)
       \/ /\ beside /\ at <= Len(delim)
          /\ Before(s, at) = After(delim, Len(delim) - at + 2)
    /\ Follows(s, delim, at + Len(needle))
str_append_substring_if_missing(hay, needle, delim, beside) ==
  IF HasWord(hay, needle, delim, beside) THEN hay ELSE hay \o delim \o needle

\* str_replace() for one pair, from the beginning to the end.  (perdition's
\* pairs only shrink the string.)
RECURSIVE ReplaceFrom(_, _, _, _)
ReplaceFrom(s, match, subst, start) ==
  LET at == FindFrom(s, match, start)
  IN IF at = 0 THEN s
     ELSE ReplaceFrom(Before(s, at) \o subst \o After(s, at + Len(match)),
                      match, subst, at + Len(subst))
str_replace(s, match, subst) == ReplaceFrom(s, match, subst, 1)

\* the string of an IMAP4 quoted token (imap4_token_to_string())
Quote == "\""
Backslash == "\\"
Unquoted(s) ==
  str_replace(str_replace(s, <<Backslash, Quote>>, <<Quote>>),
              <<Backslash, Backslash>>, <<Backslash>>)

----------------------------------------------------------------------------
(* SASL PLAIN (sasl_plain.c).  base64 is openssl's: what it encodes can be *)
(* told from what it does not, and it does not decode the empty string.    *)

base64_encode(data) == <<"base64">> \o data
base64_decode(str) ==
  IF Len(str) > 1 /\ Head(str) = "base64" THEN Tail(str) ELSE None

\* the string at the start of data: strn_to_str() stops at a NUL
CString(data) ==
  LET nul == strchr(data, "NUL") IN IF nul = 0 THEN data ELSE Before(data, nul)

sasl_plain_challenge_encode(auth) ==
  base64_encode((IF auth.authorisation_id = None THEN <<>> ELSE auth.authorisation_id)
                  \o <<"NUL">> \o auth.authentication_id \o <<"NUL">> \o auth.passwd)

Invalid(reason) == [status |-> "invalid", reason |-> reason]

Failed == [status |-> "error"]
OutOfBounds == [status |-> "undefined"]

\* saslprep(), which gives back what it gets without libidn.  libidn refuses a
\* control character, leaves some characters out ("shy") and makes more of
\* others ("wide").
Prepared(c) == CASE c = "shy" -> <<>> [] c = "wide" -> <<"a", "a">> [] OTHER -> <<c>>
saslprep(s, idn) ==
  LET out[n \in 0 .. Len(s)] == IF n = 0 THEN <<>> ELSE out[n - 1] \o Prepared(s[n])
  IN IF ~idn THEN s
     ELSE IF \E i \in DOMAIN s : s[i] \in {"\r", "\n"} THEN None
     ELSE out[Len(s)]

\* The authentication id is looked for behind as many characters as the
\* authorisation id has once it is prepared, the password behind as many as the
\* authentication id had before.
Parts(data, authz, idn) ==
  LET rest   == After(data, Len(authz) + 2)
      authn  == CString(rest)
      last   == After(rest, Len(authn) + 2)
  IN [authz |-> IF CString(data) = <<>> THEN None ELSE authz,
      authn |-> saslprep(authn, idn), passwd |-> CString(last), last |-> last,
      \* is there a NUL behind the first two?
      authn_there  |-> Len(data) > Len(authz),
      passwd_there |-> Len(rest) > Len(authn)]

GarbageUnseen(p) == FALSE                        \* mutant
TrailingGarbage(p) == Len(p.last) > Len(p.passwd)

sasl_plain_challenge_decode(challenge, idn) ==
  LET data  == base64_decode(challenge)
      authz == saslprep(CString(data), idn)
      p     == Parts(data, authz, idn)
  IN IF data = None THEN Invalid("base64")
     ELSE IF authz = None THEN Failed
     ELSE IF Len(authz) > Len(data) THEN OutOfBounds
     ELSE IF ~p.authn_there THEN Invalid("no authentication id")
     ELSE IF p.authn = None THEN Failed
     ELSE IF p.authn = <<>> THEN Invalid("empty authentication id")
     ELSE IF ~p.passwd_there THEN Invalid("no password")
     ELSE IF TrailingGarbage(p) THEN Invalid("trailing garbage")
     ELSE [status |-> "ok",
           auth |-> [authorisation_id  |-> p.authz,
                     authentication_id |-> p.authn, passwd |-> p.passwd]]

----------------------------------------------------------------------------
(* ACAP strings (acap.c, acap_token.c, managesieve_response_code.c).       *)

\* log_10() and n_len(): the digits of a number
RECURSIVE log_10(_)
OneShort(n) == IF n <= 10 THEN 0 ELSE 1 + log_10(n \div 10)    \* mutant
log_10(n) == IF n \div 10 = 0 THEN 0 ELSE 1 + log_10(n \div 10)
n_len(n) == log_10(n) + 1

RECURSIVE Digits(_)
Digits(n) == (IF n < 10 THEN <<>> ELSE Digits(n \div 10)) \o <<Figures[(n % 10) + 1]>>

\* acap_from_str(): a goes on the line, b behind it as it is; size is what is
\* allocated for a
acap_from_str(str, is_client) ==
  IF strchr(str, "\r") = 0 /\ strchr(str, "\n") = 0
  THEN [a |-> <<Quote>> \o str \o <<Quote>>, b |-> None, size |-> 1 + Len(str) + 2]
  ELSE LET extra == IF is_client THEN <<"+">> ELSE <<>>
       IN [a |-> <<"{">> \o Digits(Len(str)) \o extra \o <<"}">>, b |-> str,
           size |-> 1 + n_len(Len(str)) + Len(extra) + 2]

ACAP_QUOTED_MAX == 1024
ACAP_ATOM_MAX   == 1024

\* token_read() of a line: up to the first space that is not between quotes
FirstToken(line) ==
  LET open(i) == Cardinality({j \in 1 .. i : line[j] = Quote}) % 2 = 1
      ends == {i \in DOMAIN line : line[i] = " " /\ ~open(i)}
  IN IF ends = {} THEN line
     ELSE Before(line, CHOOSE i \in ends : \A j \in ends : i <= j)

acap_strn_is_atom(t) ==
  /\ Len(t) <= ACAP_ATOM_MAX
  /\ \A i \in DOMAIN t :
       t[i] \notin {Quote, Backslash, "(", ")", "{", " ", "\r", "\n", "NUL",
                    "8bit", "shy", "wide"}

\* safe_utf8_char(): "8bit" is a byte above 0x7f that is not of UTF-8; where char is
\* signed it is less than 0x7f
safe_char(c, signed) ==
  c \notin {Quote, Backslash, "NUL"} \cup (IF signed THEN {} ELSE {"8bit"})

\* Quotes around safe characters, and a backslash before a special one: in every
\* run of backslashes each odd one is a pair's first.
Specials == {Quote, Backslash}
acap_strn_is_quoted(t, signed) ==
  LET inner == 2 .. Len(t) - 1
      run(i) == i - CHOOSE j \in 1 .. i : t[j] # Backslash /\ \A k \in j + 1 .. i : t[k] = Backslash
      escaped(i) == run(i - 1) % 2 = 1
  IN /\ Len(t) >= 2 /\ Len(t) <= ACAP_QUOTED_MAX
     /\ t[1] = Quote /\ t[Len(t)] = Quote
     /\ \A i \in inner :
          \/ safe_char(t[i], signed)
          \/ t[i] \in Specials /\ escaped(i)
          \/ t[i] = Backslash /\ i + 1 \in inner /\ t[i + 1] \in Specials

\* acap_token_wrapper(): the first token of the line a, which is an atom, a quoted
\* string without its quotes, whatever is escaped in it, or a literal of the length
\* in the braces and with nothing behind it.  eol is whether the line ends there.
acap_token_wrapper(a, b, signed) ==
  LET t   == FirstToken(a)
      eol == t = a
      end == IF t[Len(t) - 1] = "+" THEN Len(t) - 2 ELSE Len(t) - 1
      value[k \in 1 .. end] == IF k = 1 THEN 0 ELSE 10 * value[k - 1] + ValueOf(t[k])
      Read(type, str) == [type |-> type, str |-> str, eol |-> eol]
  IN IF t[1] # "{" \/ t[Len(t)] # "}"
     THEN IF acap_strn_is_atom(t) THEN Read("atom", t)
          ELSE IF acap_strn_is_quoted(t, signed)
          THEN Read("quoted", SubSeq(t, 2, Len(t) - 1))
          ELSE None
     ELSE IF ~eol \/ Len(t) < 3 \/ end = 1 \/ value[end] # Len(b) THEN None
     ELSE Read("literal", b)

\* managesieve_response_str(): the lines of "(" atom arguments ")"
managesieve_response_str(atom, args, is_client) ==
  LET line[n \in 0 .. Len(args)] ==
        IF n = 0 THEN <<<<"(">> \o atom>>
        ELSE LET acap == acap_from_str(args[n], is_client)
                 so == line[n - 1]
                 last == [so EXCEPT ![Len(so)] = @ \o <<" ">> \o acap.a]
             IN IF acap.b = None THEN last ELSE Append(last, acap.b)
      all == line[Len(args)]
  IN [all EXCEPT ![Len(all)] = @ \o <<")">>]

----------------------------------------------------------------------------
(* Packets of the daemon map (packet.c): a string is its length and what   *)
(* it says, and a packet is its kind, the length in its head and its       *)
(* strings one after the other.                                            *)

HeadSize    == 24
TailSize    == 24
MaxPacket   == 65000
MaxBody     == MaxPacket - TailSize
LengthSize  == 2

BodyLength(strings) ==
  LET sum[n \in 0 .. Len(strings)] ==
        IF n = 0 THEN 0 ELSE sum[n - 1] + LengthSize + strings[n].length
  IN sum[Len(strings)]

\* perdition_packet_init_v1_head(); the caller's order of the strings is that
\* of the packet, except that perdition_packet_init_v1_str_req() puts the key
\* and the delimiter first
perdition_packet_init_v1_head(kind, strings) ==
  IF BodyLength(strings) > MaxBody THEN None
  ELSE [flags |-> kind, length |-> (HeadSize + BodyLength(strings)) % 65536,
        body |-> strings]

perdition_packet_init_v1_req(key, delim) ==
  perdition_packet_init_v1_head("req", <<key, delim>>)
perdition_packet_init_v1_str_req(saddr, sport, daddr, dport, key, delim) ==
  perdition_packet_init_v1_head("str_req", <<key, delim, saddr, sport, daddr, dport>>)
perdition_packet_init_v1_rsp(user, server, port) ==
  perdition_packet_init_v1_head("rsp", <<user, server, port>>)

\* packet_str_get(): an empty string has no data
packet_str_get(str) == IF str.length = 0 THEN [length |-> 0, data |-> None] ELSE str

\* the three verify functions: a datagram of len bytes, of a kind that has count
\* strings; a length in the head that is not len is only logged
Verified(packet, len, kind, count) ==
  IF \/ len < HeadSize \/ len > MaxPacket
     \/ packet.flags # kind
     \/ BodyLength(packet.body) > MaxBody
     \/ BodyLength(packet.body) + HeadSize # packet.length
  THEN None
  ELSE [n \in 1 .. count |-> packet_str_get(packet.body[n])]
perdition_packet_verify_v1_req(packet, len) == Verified(packet, len, "req", 2)
perdition_packet_verify_v1_str_req(packet, len) ==
  LET s == Verified(packet, len, "str_req", 6)
  IN IF s = None THEN None ELSE <<s[3], s[4], s[5], s[6], s[1], s[2]>>
perdition_packet_verify_v1_rsp(packet, len) == Verified(packet, len, "rsp", 3)

----------------------------------------------------------------------------
(* The maps' own strings.                                                  *)

\* posix_regex: dbserver_get() with a match of key from subs["0"].so to
\* subs["0"].eo (both counted from 0) and its groups; None for "no match",
\* which an empty match at the end of the key counts as
IsBackref(template, n, subs) ==
  /\ n < Len(template) /\ template[n] = "$"
  /\ template[n + 1] \in DOMAIN subs /\ subs[template[n + 1]].so > -1
Group(key, sub) == SubSeq(key, sub.so + 1, sub.eo)
RECURSIVE Replacement(_, _, _, _)
Replacement(key, template, subs, n) ==
  IF n > Len(template) THEN <<>>
  ELSE IF IsBackref(template, n, subs)
  THEN Group(key, subs[template[n + 1]]) \o Replacement(key, template, subs, n + 2)
  ELSE <<template[n]>> \o Replacement(key, template, subs, n + 1)
Substituted(key, template, subs) ==
  LET buf == SubSeq(key, 1, subs["0"].so) \o Replacement(key, template, subs, 1)
  IN IF subs["0"].so < subs["0"].eo THEN buf
     ELSE IF subs["0"].so >= Len(key) THEN None
     ELSE Append(buf, key[subs["0"].eo + 1])

\* the first of its two passes: the length to allocate
RECURSIVE LengthOf(_, _, _)
LengthOf(template, subs, n) ==
  IF n > Len(template) THEN 0
  ELSE IF IsBackref(template, n, subs)
  THEN subs[template[n + 1]].eo - subs[template[n + 1]].so + LengthOf(template, subs, n + 2)
  ELSE 1 + LengthOf(template, subs, n + 1)
FirstPass(template, subs) == subs["0"].so + LengthOf(template, subs, 1)

\* ldap: pldap_get_filter_str().  percent says whether an odd number of "%"
\* precede, int where the digits of a width begin; no other "%" is in a width.
\* What is behind a substitution is moved after realloc() made the filter shorter.
Number(s) ==
  LET value[k \in 0 .. Len(s)] == IF k = 0 THEN 0 ELSE 10 * value[k - 1] + ValueOf(s[k])
  IN value[Len(s)]
RECURSIVE FilterFrom(_, _, _, _, _)
FilterFrom(s, key, i, percent, int) ==
  IF i > Len(s) THEN s
  ELSE IF s[i] = "%" THEN FilterFrom(s, key, i + 1, ~percent, int)
  ELSE IF percent /\ IsFigure(s[i])
  THEN FilterFrom(s, key, i + 1, percent, IF int = 0 THEN i ELSE int)
  ELSE IF percent /\ s[i] = "s"
  THEN LET at    == IF int = 0 THEN i - 1 ELSE int - 1
           asked == IF int = 0 THEN 0 ELSE Number(SubSeq(s, int, i - 1))
           width == IF asked < Len(key) THEN Len(key) ELSE asked
           dead_width == i + 1 - at
       IN IF i < Len(s) /\ dead_width - width >= 2 THEN Undefined
          ELSE FilterFrom(Before(s, at) \o [n \in 1 .. width - Len(key) |-> " "]
                            \o key \o After(s, i + 1),
                          key, at + width, FALSE, 0)
  ELSE FilterFrom(s, key, i + 1, FALSE, 0)
pldap_get_filter_str(key, filter) == FilterFrom(filter, key, 1, FALSE, 0)

\* perdition_ldap_uri(): one URI for each host of a list, and the size that is
\* allocated for them
RECURSIVE Uris(_, _, _)
Uris(scheme, port, hosts) ==
  LET from == {k \in DOMAIN hosts : hosts[k] # " "}
      start == CHOOSE k \in from : \A j \in from : k <= j
      blank == FindFrom(hosts, <<" ">>, start)
      end == IF blank = 0 THEN Len(hosts) ELSE blank - 1
      tail == IF blank = 0 THEN <<>> ELSE Uris(scheme, port, After(hosts, blank))
  IN IF from = {} THEN <<>>
     ELSE scheme \o <<":", "/", "/">> \o SubSeq(hosts, start, end)
            \o (IF port = 389 THEN <<>> ELSE <<":">> \o Digits(port))
            \o (IF tail = <<>> THEN <<>> ELSE <<" ">> \o tail)
UriSize(scheme, hosts) ==
  LET gaps == {k \in DOMAIN hosts : k > 1 /\ hosts[k] = " " /\ hosts[k - 1] # " "}
  IN (Len(scheme) + 9) * (1 + Cardinality(gaps)) + Len(hosts) + 1
=============================================================================
