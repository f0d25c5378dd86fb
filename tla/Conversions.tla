---------------------------- MODULE Conversions ----------------------------
(***************************************************************************)
(* perdition as a caller of Texts and Names: each step takes one input,    *)
(* makes what is sent or written of it, and lets the code that reads such  *)
(* a thing read it.  The tags of IMAP4 count on from step to step.         *)
(***************************************************************************)
EXTENDS Texts, Tags

CONSTANTS Words,        \* words of a list, sequences of characters
          MaxWords,     \* bound: the words of a list
          Delims,       \* their delimiters
          Strings,      \* what is written
          LongStrings,  \* what is written to MANAGESIEVE besides
          Keys,         \* what a map is asked for
          Lengths,      \* lengths of a packet's strings
          Filters,      \* an LDAP filter: a sequence of pieces
          Templates,    \* a substitution of the regex map: a sequence of pieces
          Hosts         \* the hosts of an LDAP URL

ASSUME ConversionsAssumption ==
  /\ MaxWords \in Nat /\ Lengths \subseteq 0 .. 65535
  /\ \A w \in Words, d \in Delims : w # <<>> /\ strstr(w, d) = 0

VARIABLES job,      \* what was done: "none" or the name of the step
          given,    \* the input
          made,     \* what perdition made of it
          read      \* what its reader makes of that

vars == <<job, given, made, read, tag_vars>>

Init ==
  /\ job = "none" /\ given = None /\ made = None /\ read = None
  /\ TagInit

\* one step of the name j; the inputs are enumerated by the steps
Do(j, input, output, back) ==
  /\ job' = j /\ given' = input /\ made' = output /\ read' = back
  /\ UNCHANGED tag_vars

\* back to the start
Again ==
  /\ job # "none"
  /\ job' = "none" /\ given' = None /\ made' = None /\ read' = None
  /\ UNCHANGED tag_vars

----------------------------------------------------------------------------
(* Written and read.                                                       *)

\* a login with SASL PLAIN, to a server that decodes it as perdition does, with
\* libidn or without
Sasl(authz, authn, passwd, idn) ==
  LET auth == [authorisation_id |-> authz, authentication_id |-> authn, passwd |-> passwd]
      challenge == sasl_plain_challenge_encode(auth)
  IN Do("sasl", [auth |-> auth, idn |-> idn], challenge,
        sasl_plain_challenge_decode(challenge, idn))

\* a challenge that a client made up
Challenge(data, idn) ==
  LET d == sasl_plain_challenge_decode(base64_encode(data), idn)
  IN Do("challenge", [data |-> data, idn |-> idn], d,
        IF d.status = "ok" THEN sasl_plain_challenge_encode(d.auth) ELSE None)

\* a string in MANAGESIEVE's form, on its way to either side, and a word that
\* the other side sends as it is; char is signed or not
Acap(str, is_client, signed) ==
  LET acap == acap_from_str(str, is_client)
  IN Do("acap", [str |-> str, signed |-> signed], acap,
        acap_token_wrapper(acap.a, acap.b, signed))
Word(str, signed) ==
  /\ str # <<>> /\ str[1] # "{"
  /\ \A i \in DOMAIN str : str[i] \notin {"\r", "\n"}
  /\ Do("word", str, str, acap_token_wrapper(str, None, signed))

Response(args, is_client) ==
  Do("response", args, managesieve_response_str(<<"A">>, args, is_client), None)

\* a quoted string that an IMAP4 client has escaped
RECURSIVE Escaped(_)
Escaped(s) ==
  IF s = <<>> THEN <<>>
  ELSE (IF Head(s) \in {Quote, Backslash} THEN <<Backslash, Head(s)>> ELSE <<Head(s)>>)
         \o Escaped(Tail(s))
Quoted(str) == Do("quoted", str, Escaped(str), Unquoted(Escaped(str)))

\* the three packets; the lengths of the strings are what matters
Str(n, what) == [length |-> n, data |-> what]
Request(a, b) ==
  LET p == perdition_packet_init_v1_req(Str(a, "key"), Str(b, "delim"))
  IN Do("packet", <<Str(a, "key"), Str(b, "delim")>>, p,
        IF p = None THEN None ELSE perdition_packet_verify_v1_req(p, p.length))
StrRequest(a, b, c) ==
  LET s == <<Str(4, "saddr"), Str(b, "sport"), Str(5, "daddr"), Str(c, "dport"),
             Str(a, "key"), Str(1, "delim")>>
      p == perdition_packet_init_v1_str_req(s[1], s[2], s[3], s[4], s[5], s[6])
  IN Do("packet", s, p,
        IF p = None THEN None ELSE perdition_packet_verify_v1_str_req(p, p.length))
Answer(a, b, c) ==
  LET s == <<Str(a, "user"), Str(b, "server"), Str(c, "port")>>
      p == perdition_packet_init_v1_rsp(s[1], s[2], s[3])
  IN Do("packet", s, p,
        IF p = None THEN None ELSE perdition_packet_verify_v1_rsp(p, p.length))

\* where to connect to, as it is logged and as a map or a client writes it
Endpoint(user, server, port) ==
  LET usp == user_server_port_assign(user, server, port)
  IN Do("endpoint", usp, user_server_port_display(usp),
        user_server_port_strn_assign(user_server_port_display(usp)))

----------------------------------------------------------------------------
(* Edited.                                                                 *)

Joined(words, delim) ==
  LET join[n \in 0 .. Len(words)] ==
        IF n = 0 THEN <<>>
        ELSE IF n = 1 THEN words[1] ELSE join[n - 1] \o delim \o words[n]
  IN join[Len(words)]

\* a capability is taken out of the list, or added to it
Remove(words, needle, delim) ==
  Do("remove", [words |-> words, needle |-> needle, delim |-> delim],
     str_delete_substring(Joined(words, delim), needle, delim), None)
Add(words, needle, delim, beside) ==
  Do("add", [words |-> words, needle |-> needle, delim |-> delim],
     str_append_substring_if_missing(Joined(words, delim), needle, delim, beside),
     None)

\* a filter is a sequence of pieces: the key, the key in a width, or text
Flat(pieces, Of(_)) ==
  LET flat[n \in 0 .. Len(pieces)] ==
        IF n = 0 THEN <<>> ELSE flat[n - 1] \o Of(pieces[n])
  IN flat[Len(pieces)]
FilterPiece(x) ==
  CASE x.kind = "key"  -> <<"%", "s">>
    [] x.kind = "wide" -> <<"%">> \o Digits(x.width) \o <<"s">>
    [] OTHER           -> x.text
Filter(key, pieces) ==
  Do("filter", [key |-> key, pieces |-> pieces],
     pldap_get_filter_str(key, Flat(pieces, FilterPiece)), None)

\* a match in the middle of a key, with one group in it
Sub(a, b) == [so |-> a, eo |-> b]
Subs(whole, group) == [x \in {"0", "1"} |-> IF x = "0" THEN whole ELSE group]
TemplatePiece(x) == IF x.kind = "group" THEN <<"$", x.which>> ELSE x.text
Regex(key, whole, group, pieces) ==
  Do("regex", [key |-> key, subs |-> Subs(whole, group), pieces |-> pieces],
     Substituted(key, Flat(pieces, TemplatePiece), Subs(whole, group)),
     FirstPass(Flat(pieces, TemplatePiece), Subs(whole, group)))

\* the URL's hosts
Ldap(port, hosts) ==
  Do("uri", hosts, Uris(<<"l">>, port, hosts), UriSize(<<"l">>, hosts))

----------------------------------------------------------------------------
\* a command is sent, or another connection made
Command == job = "none" /\ TagNext /\ UNCHANGED <<job, given, made, read>>

Optional == {None} \cup Strings
Lists == UNION {[1 .. n -> Words] : n \in 1 .. MaxWords}
Datas == UNION {[1 .. n -> {"a", "NUL", "shy", "wide"}] : n \in 0 .. 5}

Convert ==
  /\ job = "none" /\ TagInit
  /\ \/ \E z \in Optional, n, p \in Strings, idn \in BOOLEAN : Sasl(z, n, p, idn)
     \/ \E d \in Datas, idn \in BOOLEAN : Challenge(d, idn)
     \/ \E s \in Strings \cup LongStrings, c, signed \in BOOLEAN : Acap(s, c, signed)
     \/ \E s \in Strings, signed \in BOOLEAN : Word(s, signed)
     \/ \E s, t \in Strings, c \in BOOLEAN : Response(<<s, t>>, c)
     \/ \E s \in Strings : Quoted(s)
     \/ \E a, b \in Lengths : Request(a, b)
     \/ \E a, b, c \in Lengths : StrRequest(a, b, c) \/ Answer(a, b, c)
     \/ \E u, p \in Optional, s \in Strings : Endpoint(u, s, p)
     \/ \E l \in Lists, w \in Words, d \in Delims :
          \/ Remove(l, w, d)
          \/ \E beside \in BOOLEAN : Add(l, w, d, beside)
     \/ \E k \in Keys, f \in Filters : Filter(k, f)
     \/ \E k \in Keys, t \in Templates :
          \E a \in 0 .. Len(k), b \in 0 .. Len(k) :
            /\ a <= b
            /\ \E g \in {Sub(a, b), Sub(-1, -1)} : Regex(k, Sub(a, b), g, t)
     \/ \E port \in {389, 65535}, h \in Hosts : Ldap(port, h)

Next == Convert \/ Again \/ Command

Spec == Init /\ [][Next]_vars

----------------------------------------------------------------------------
Chars(s) == {s[i] : i \in DOMAIN s}
Clean(s) == s = None \/ (Chars(s) \cap {":", "[", "]"} = {} /\ strstr(s, Delim) = 0)
Nothing(s) == IF s.length = 0 THEN [length |-> 0, data |-> None] ELSE s

\* a string that is written between quotes and does not survive it
Unquotable(str, signed) ==
  \/ Chars(str) \cap Specials # {}
  \/ Len(str) + 2 > ACAP_QUOTED_MAX
  \/ "8bit" \in Chars(str) /\ ~signed

\* What perdition writes, it reads: the three parts of a SASL PLAIN login, a
\* string of ACAP, a quoted string of IMAP4, the strings of a packet, and a
\* server that is written as user@server:port come back as they were, and a
\* challenge that a client made up is accepted only when it is the one perdition
\* would have made of what it understood.  (sasl_plain_challenge_decode(),
\* acap_from_str(), acap_token_wrapper(), imap4_token_to_string(),
\* perdition_packet_verify_v1_req(), user_server_port_strn_assign())
\* These are excepted.  With libidn, an authorisation id that saslprep() changes
\* moves the places where the rest is looked for (sasl_plain.c:97-107), and a
\* name that it refuses or leaves nothing of is refused.  acap_from_str() puts
\* quotes around a quote or a backslash, more than ACAP_QUOTED_MAX characters,
\* and bytes that are not UTF-8, which the reader does not take
\* (acap_token.c:63-66, 122): nobody understands another string then, unless it
\* is a part of the line and something is left of it.  A server with a
\* delimiter in it cannot be told from two.
ReadsBackWhatItWrote ==
  /\ job = "sasl" =>
       LET id   == given.auth.authorisation_id
           name == saslprep(given.auth.authentication_id, given.idn)
       IN \/ id # None /\ saslprep(id, given.idn) # id
          \/ name \in {None, <<>>} /\ read.status # "ok"
          \/ read = [status |-> "ok",
                     auth |-> [given.auth EXCEPT !.authorisation_id = IF @ = <<>> THEN None ELSE @,
                                                 !.authentication_id = name]]
  /\ job = "challenge" /\ made.status = "ok" =>
       read = base64_encode(given.data) \/ saslprep(given.data, given.idn) # given.data
  /\ job = "acap" =>
       \/ read # None /\ read.str = given.str /\ read.eol
       \/ /\ made.b = None /\ Unquotable(given.str, given.signed)
          /\ read = None \/ ~read.eol
  /\ job = "word" => read = None \/ ~read.eol \/ read.str = given
  /\ job = "quoted" => read = given
  /\ job = "packet" =>
       IF made = None THEN BodyLength(given) > MaxBody
       ELSE read = [n \in DOMAIN given |-> Nothing(given[n])]
  /\ job = "endpoint" /\ Clean(given.user) /\ Clean(given.server) /\ Clean(given.port) =>
       read = given

\* the words and the pieces of a filter as they are meant
Other(words, needle) == SelectSeq(words, LAMBDA w : w # needle)
Asked(x, key) ==
  CASE x.kind = "key"  -> key
    [] x.kind = "wide" -> [n \in 1 .. x.width - Len(key) |-> " "] \o key
    [] OTHER           -> x.text

\* a piece becomes shorter by two characters or more, and more is behind it
CutsTooEarly(pieces, key) ==
  \E n \in DOMAIN pieces :
    /\ pieces[n].kind # "text"
    /\ Len(FilterPiece(pieces[n])) - Len(Asked(pieces[n], key)) >= 2
    /\ \E m \in n + 1 .. Len(pieces) : FilterPiece(pieces[m]) # <<>>

\* A capability that is taken out of a list is gone wherever it stands and as a
\* whole word only, one that is added is there once, and the other words stay in
\* their order with one delimiter between two, as protocol_capability()'s callers
\* go on to use the list; a filter of the LDAP map is what it was with the key,
\* filled up to the width, where it was asked for.  (str_delete_substring(),
\* str_append_substring_if_missing(), pldap_get_filter_str())
\* These are excepted.  For the first word of a list the code goes on before the
\* beginning of its buffer (str.c:527-531, 575).  A filter that shrinks by two
\* characters or more in one place is cut by realloc() before the rest is moved
\* (perditiondb_ldap.c:209-218).
\* The comment of str_delete_substring() says that the delimiter that follows a
\* needle is removed (str.c:473-475).  The code removes the one in front of it,
\* so that the last word leaves no delimiter behind, which is what is said here.
EditsKeepTheRest ==
  LET g == given IN
  /\ job = "remove" /\ g.words[1] # g.needle =>
       made = Joined(Other(g.words, g.needle), g.delim)
  /\ job = "add" /\ g.words[1] # g.needle =>
       made = Joined(IF g.needle \in Chars(g.words) THEN g.words
                     ELSE Append(g.words, g.needle), g.delim)
  /\ job = "filter" /\ ~CutsTooEarly(g.pieces, g.key) =>
       LET Piece(x) == Asked(x, g.key) IN made = Flat(g.pieces, Piece)

\* What is allocated is enough for what is written: a literal's braces and
\* digits, the lines of a response, the URIs with a port of five digits, what a
\* template of the regex map becomes, and the server as it is logged.
\* (n_len(), managesieve_response_str(), perdition_ldap_uri(), dbserver_get(),
\* user_server_port_length())
BuffersSuffice ==
  /\ job = "acap" => made.size >= Len(made.a) + 1
  /\ job = "response" => Len(made) <= Len(given) + 1
  /\ job = "uri" => read >= Len(made) + 1
  /\ job = "regex" /\ made # None =>
       Len(made) = read + (IF given.subs["0"].so = given.subs["0"].eo THEN 1 ELSE 0)
  /\ job = "endpoint" => user_server_port_length(given) = Len(made)
=============================================================================
