-------------------------------- MODULE Tls --------------------------------
(***************************************************************************)
(* One SSL or TLS connection of perdition (ssl.c): the context that is     *)
(* made from the options, the handshake under a receive timeout, the       *)
(* callback that openssl calls for each certificate and each error of the  *)
(* peer's chain, and the checks afterwards.  flag is "client" on the way   *)
(* to a real server and "server" on the way from a perdition's client.     *)
(*                                                                         *)
(* openssl is external: it negotiates a version that both sides allow,     *)
(* walks a chain and calls back; what the callback answers and what is     *)
(* made of the result is perdition's.  A file of the options is None when  *)
(* it is not given, "good", "bad" or, for the passphrase, "private": only  *)
(* root may open it, so that it cannot be opened once main() has dropped   *)
(* its privileges.  A host name is a sequence of labels and dots.          *)
(***************************************************************************)
EXTENDS Integers, FiniteSets, Names

CONSTANTS Options,    \* opt: records of the ssl_ options
          Peers,      \* the other side: its versions, its chain and its names
          Servers,    \* the names that main() connects to
          Timeouts    \* idle timeouts of the connection, 0 for none

Versions == 0 .. 4        \* SSLv3, TLS 1.0, 1.1, 1.2 and, unknown to perdition, 1.3

ASSUME TlsAssumption ==
  /\ Timeouts \subseteq Nat /\ None # "good"
  /\ \A o \in Options : o.cert_verify_depth \in Nat
  /\ \A p \in Peers :
       /\ p.versions \subseteq Versions
       /\ p.chain \in Seq({"valid", "expired", "not_yet_valid"})
       /\ p.root \in {"trusted", "self", "unknown"}
       /\ p.cn \subseteq CStrings
       /\ p.alt # None => \A a \in p.alt : a.name \in CStrings
  /\ Servers \subseteq CStrings \cup {None}

VARIABLES opt,        \* the options
          flag,       \* "client" or "server"
          build,      \* "native", or "fallback": openssl has no version setters
          server,     \* the name of the server to compare
          peer,       \* who is there
          timeout,    \* io_get_timeout() of the connection
          pc,         \* "ctx", "start", "wait", "verify", "ended", "check", "up", "failed"
          ctx,        \* the SSL_CTX, None before
          rcvtimeo,   \* SO_RCVTIMEO of the socket
          left,       \* flights of the handshake that the peer still owes
          stage,      \* openssl's walk: at the "end" of the chain, or at a
                      \* certificate's "dates" or "done" with one
          depth,      \* of the certificate, 0 for the peer's own, -1 after it
          error,      \* X509_STORE_CTX's error, "ok" for X509_V_OK
          version     \* what was negotiated

given == <<opt, flag, build, server, peer, timeout>>
walk == <<stage, depth, error>>
vars == <<given, pc, ctx, rcvtimeo, left, walk, version>>

----------------------------------------------------------------------------
(* The versions of the options.                                            *)

Invalid == -1

perdition_parse_ssl_proto_version(str) ==
  CASE str = "sslv3"   -> 0
    [] str = "tlsv1"   -> 1
    [] str = "tlsv1.1" -> 2
    [] str = "tlsv1.2" -> 3
    [] OTHER           -> Invalid

\* what is switched off below a minimum; the fallback falls through the
\* cases down to SSLv3, openssl's own setter does the same
NoFallThrough(v) == {v - 1} \cap Versions          \* mutant: a break per case
set_min_proto_version(v) == {w \in Versions : w < v}

\* and above a maximum, where the fallback does not know TLS 1.3
set_max_proto_version(v) ==
  {w \in Versions : w > v /\ (build = "native" \/ w <= 3)}

\* the strings of the options that bound this side's versions
MinVersion == IF flag = "client" THEN opt.outgoing_min ELSE opt.listen_min
MaxVersion == IF flag = "client" THEN opt.outgoing_max ELSE opt.listen_max

BadVersion(str) ==
  str # None /\ perdition_parse_ssl_proto_version(str) = Invalid

SwitchedOff ==
  (IF MinVersion = None THEN {}
   ELSE set_min_proto_version(perdition_parse_ssl_proto_version(MinVersion)))
  \cup
  (IF MaxVersion = None THEN {}
   ELSE set_max_proto_version(perdition_parse_ssl_proto_version(MaxVersion)))

----------------------------------------------------------------------------
(* perdition_ssl_ctx()                                                     *)

\* the files that this side loads: a client passes NULL for the others
Cert     == IF flag = "client" THEN None ELSE opt.cert_file
Privkey  == IF flag = "client" THEN None ELSE opt.key_file
CaChain  == IF flag = "client" THEN None ELSE opt.ca_chain_file
DhParams == IF flag = "client" THEN None ELSE opt.dh_params_file

\* the connection is compressed unless openssl is told not to: a flag that
\* is a client's and is not a client's never is
Compression ==
  ~(/\ flag = "client" /\ ~opt.outgoing_compression
    /\ flag # "client" /\ ~opt.listen_compression)

\* a DH file of its own must be there and hold parameters; the certificate
\* need not
DhFails == flag = "server" /\ DhParams = "bad"

\* __perdition_ssl_passwd_cb(): the first line of what is read, as far as
\* one read() gives it
passwd_cb(input) ==
  LET ends == {i \in DOMAIN input : input[i] \in {"\n", "\r"}}
  IN IF ends = {} THEN input
     ELSE Before(input, CHOOSE i \in ends : \A j \in ends : i <= j)

\* the file of the passphrase is opened by a client too, which has no key and has
\* dropped its privileges
PassphraseFails ==
  opt.passphrase_file = "bad" \/ (opt.passphrase_file = "private" /\ flag = "client")

\* the certificate and its key, which may be encrypted
KeyFails ==
  \/ (Cert = None) # (Privkey = None)
  \/ Cert = "bad" \/ PassphraseFails \/ Privkey = "bad"
  \/ /\ Cert # None /\ opt.key_passphrase # None
     /\ passwd_cb(opt.passphrase_input) # opt.key_passphrase

\* the certificate authorities, which a client that does not verify leaves
Verifies == ~(flag = "client" /\ opt.no_cert_verify)
CaFails == Verifies /\ ("bad" \in {opt.ca_file, opt.ca_path, CaChain})

\* SSL_CTX_set_verify(): without it openssl's default, which verifies nothing
VerifyMode ==
  IF ~Verifies THEN "none"
  ELSE IF flag = "server" /\ (opt.no_cert_verify \/ opt.no_client_cert_verify)
  THEN "none"
  ELSE "peer"

ContextFails ==
  \/ BadVersion(MinVersion) \/ BadVersion(MaxVersion)
  \/ DhFails \/ KeyFails \/ CaFails

perdition_ssl_ctx ==
  [off |-> SwitchedOff, compression |-> Compression, mode |-> VerifyMode,
   trust |-> Verifies /\ "good" \in {opt.ca_file, opt.ca_path, CaChain}]

----------------------------------------------------------------------------
(* openssl's walk of a chain: peer.chain[1] is the peer's own certificate, *)
(* depth 0; what it finds about the chain's end, then each certificate's   *)
(* dates from the end to the peer, each followed by a call without error.  *)

Finding(e) == [ok |-> FALSE, error |-> e, depth |-> depth]

\* is there nothing to call back for at this point of the walk?
Silent ==
  \/ stage = "end" /\ ctx.trust /\ peer.root = "trusted"
  \/ stage = "dates" /\ peer.chain[depth + 1] = "valid"

\* the call of the callback that is due otherwise
ChainError ==
  IF peer.root # "self" THEN "no_local_issuer"
  ELSE IF Len(peer.chain) = 1 THEN "depth_zero_self_signed"
  ELSE "self_signed_in_chain"

Call ==
  CASE stage = "end"   -> Finding(ChainError)
    [] stage = "dates" -> Finding(peer.chain[depth + 1])
    [] stage = "done"  -> [ok |-> TRUE, error |-> "ok", depth |-> depth]

\* the next point
GoOn ==
  /\ stage' = IF stage = "dates" THEN "done" ELSE "dates"
  /\ depth' = IF stage = "done" THEN depth - 1 ELSE depth

----------------------------------------------------------------------------
(* perdition's part in it.                                                 *)

\* __perdition_verify_result(): which errors count as none
SelfSignedIsSelfSigned(verify) ==        \* mutant: one option for both
  IF \/ verify = "not_yet_valid" /\ opt.cert_accept_not_yet_valid
     \/ verify = "expired" /\ opt.cert_accept_expired
     \/ verify \in {"depth_zero_self_signed", "self_signed_in_chain"}
        /\ opt.cert_accept_self_signed
  THEN "ok" ELSE verify
__perdition_verify_result(verify) ==
  IF \/ verify = "not_yet_valid" /\ opt.cert_accept_not_yet_valid
     \/ verify = "expired" /\ opt.cert_accept_expired
     \/ verify = "depth_zero_self_signed" /\ opt.cert_accept_self_signed
     \/ verify = "self_signed_in_chain" /\ opt.ca_accept_self_signed
  THEN "ok" ELSE verify

\* __perdition_verify_callback(): the answer, and the error it leaves.  A call
\* without an error of its own shows the one before.
__perdition_verify_callback(call) ==
  LET now == IF call.ok THEN error ELSE call.error
  IN IF opt.cert_verify_depth < call.depth
     THEN [ok |-> FALSE, error |-> "chain_too_long"]
     ELSE [ok |-> call.ok \/ __perdition_verify_result(now) = "ok",
           error |-> now]

\* __perdition_ssl_compare_key(): the same, or a "*" for what is in front of
\* the key's first dot
WildcardAnywhere(key, val) ==            \* mutant: any number of labels
  \/ key = val
  \/ /\ Len(val) >= 3 /\ val[1] = "*" /\ val[2] = "."
     /\ Len(key) >= Len(val) - 1
     /\ After(key, Len(key) - Len(val) + 2) = After(val, 2)
__perdition_ssl_compare_key(key, val) ==
  \/ key = val
  \/ /\ Len(val) >= 3 /\ val[1] = "*" /\ val[2] = "."
     /\ strchr(key, ".") # 0
     /\ After(key, strchr(key, ".")) = After(val, 2)

\* the subject's common names, then the alternative names that are host
\* names; without that extension it is an error
check_common_name(key) ==
  \E n \in peer.cn : __perdition_ssl_compare_key(key, n)
check_alt_subject(key) ==
  /\ peer.alt # None
  /\ \E n \in peer.alt : n.type = "DNS" /\ __perdition_ssl_compare_key(key, n.name)

__perdition_ssl_check_name(key) ==
  \/ opt.no_cn_verify \/ key = None
  \/ peer.chain # <<>> /\ (check_common_name(key) \/ check_alt_subject(key))

\* __perdition_ssl_check_certificate(): the result is looked at again when
\* there are authorities, which a server does not pass; neither a server name
__perdition_ssl_check_certificate ==
  /\ \/ opt.no_cert_verify
     \/ flag = "server"
     \/ opt.ca_file = None /\ opt.ca_path = None
     \/ __perdition_verify_result(error) = "ok"
  /\ __perdition_ssl_check_name(IF flag = "client" THEN server ELSE None)

----------------------------------------------------------------------------
(* The connection.                                                         *)

Init ==
  /\ opt \in Options /\ flag \in {"client", "server"}
  /\ build \in {"native", "fallback"}
  /\ server \in Servers /\ peer \in Peers /\ timeout \in Timeouts
  /\ pc = "ctx" /\ ctx = None /\ rcvtimeo = 0
  /\ left = peer.flights /\ version = Invalid
  /\ stage = "end" /\ depth = Len(peer.chain) - 1 /\ error = "ok"

\* the context, for a listener once in main() and for an outgoing connection
\* each time
MakeContext ==
  /\ pc = "ctx"
  /\ IF ContextFails THEN pc' = "failed" /\ ctx' = None
     ELSE pc' = "start" /\ ctx' = perdition_ssl_ctx
  /\ UNCHANGED <<given, rcvtimeo, left, walk, version>>

\* io_set_socket_timeout(): SO_RCVTIMEO of both descriptors
NoTimeout(t) == 0                        \* mutant: the option is not set
io_set_socket_timeout(t) == t

\* SSL_new(), io_create_ssl() and the timeout: each may fail
Start ==
  /\ pc = "start"
  /\ \/ pc' = "failed" /\ UNCHANGED rcvtimeo
     \/ pc' = "wait" /\ rcvtimeo' = io_set_socket_timeout(timeout)
  /\ UNCHANGED <<given, ctx, left, walk, version>>

\* a flight of the peer arrives; the first settles the version
Receive ==
  /\ pc = "wait" /\ left > 0
  /\ left' = left - 1
  /\ LET both == peer.versions \ ctx.off
     IN IF both = {} THEN pc' = "failed" /\ UNCHANGED version
        ELSE /\ version' = CHOOSE v \in both : \A w \in both : w <= v
             /\ pc' = IF left' = 0 THEN "verify" ELSE "wait"
  /\ UNCHANGED <<given, ctx, rcvtimeo, walk>>

\* a read takes too long; or the peer goes away
GiveUp ==
  /\ pc = "wait"
  /\ rcvtimeo > 0
  /\ pc' = "failed"
  /\ UNCHANGED <<given, ctx, rcvtimeo, left, walk, version>>

Disconnected ==
  /\ pc = "wait" /\ pc' = "failed"
  /\ UNCHANGED <<given, ctx, rcvtimeo, left, walk, version>>

\* openssl calls back; the first refusal ends the handshake.  A peer without
\* certificates is a client, or a server with an anonymous cipher.
Verify ==
  /\ pc = "verify"
  /\ IF ctx.mode = "none" \/ depth < 0
     THEN /\ pc' = IF peer.chain = <<>> /\ flag = "client" /\ ~opt.anonymous_ciphers
                   THEN "failed" ELSE "ended"
          /\ UNCHANGED walk
     ELSE IF Silent THEN GoOn /\ UNCHANGED <<pc, error>>
     ELSE LET answer == __perdition_verify_callback(Call)
          IN /\ error' = answer.error
             /\ IF answer.ok THEN GoOn /\ UNCHANGED pc
                ELSE pc' = "failed" /\ UNCHANGED <<stage, depth>>
  /\ UNCHANGED <<given, ctx, rcvtimeo, left, version>>

\* the timeout is taken off again
Ended ==
  /\ pc = "ended"
  /\ \/ pc' = "failed" /\ UNCHANGED rcvtimeo
     \/ pc' = "check" /\ rcvtimeo' = io_set_socket_timeout(0)
  /\ UNCHANGED <<given, ctx, left, walk, version>>

Check ==
  /\ pc = "check"
  /\ pc' = IF __perdition_ssl_check_certificate THEN "up" ELSE "failed"
  /\ UNCHANGED <<given, ctx, rcvtimeo, left, walk, version>>

\* over; or a peer that is silent and no timeout
Stopped ==
  /\ pc \in {"up", "failed"} \/ (pc = "wait" /\ rcvtimeo = 0)
  /\ UNCHANGED vars

Next ==
  \/ MakeContext \/ Start \/ Receive \/ GiveUp \/ Disconnected \/ Verify
  \/ Ended \/ Check \/ Stopped

Spec == Init /\ [][Next]_vars

\* perdition and openssl go on, and the kernel ends a read in time; nothing is
\* asked of the peer
FairSpec ==
  Spec /\ WF_vars(MakeContext \/ Start \/ Verify \/ Ended \/ Check) /\ WF_vars(GiveUp)

----------------------------------------------------------------------------
(* Properties.                                                             *)

ToRealServer == pc = "up" /\ flag = "client"

\* A real server that is logged in to has a chain that ends in an authority
\* of ssl_ca_file or ssl_ca_path and whose certificates are all in their time,
\* up to exactly what the ssl_cert_accept_ and ssl_ca_accept_ options of
\* perdition.8 give away, and is no longer than ssl_cert_verify_depth.  Where
\* the accepted errors come in the chain must not matter, nor that openssl
\* still shows an accepted one with the certificates after it.
PeerIsVerified ==
  ToRealServer /\ ~opt.no_cert_verify /\ peer.chain # <<>> =>
    /\ Len(peer.chain) - 1 <= opt.cert_verify_depth
    /\ \A i \in DOMAIN peer.chain :
         \/ peer.chain[i] = "valid"
         \/ peer.chain[i] = "expired" /\ opt.cert_accept_expired
         \/ peer.chain[i] = "not_yet_valid" /\ opt.cert_accept_not_yet_valid
    /\ \/ peer.root = "trusted" /\ "good" \in {opt.ca_file, opt.ca_path}
       \/ /\ peer.root = "self"
          /\ IF Len(peer.chain) = 1 THEN opt.cert_accept_self_signed
             ELSE opt.ca_accept_self_signed

\* the labels of a name
Labels(name) == {i \in 1 .. Len(name) + 1 : i = Len(name) + 1 \/ name[i] = "."}
LabelOf(name, k) ==
  LET ends == Labels(name)
      end == CHOOSE i \in ends : Cardinality({j \in ends : j < i}) = k - 1
      starts == {0} \cup {j \in ends : j < end}
      start == CHOOSE i \in starts : \A j \in starts : j <= i
  IN SubSeq(name, start + 1, end - 1)

\* label by label, where "*" stands for the first of several
SameHost(key, n) ==
  \/ key = n
  \/ /\ Cardinality(Labels(key)) = Cardinality(Labels(n))
     /\ Cardinality(Labels(n)) > 1
     /\ LabelOf(n, 1) = <<"*">>
     /\ \A k \in 2 .. Cardinality(Labels(n)) : LabelOf(key, k) = LabelOf(n, k)

\* Without ssl_no_cn_verify the server that is logged in to has shown a
\* certificate for the name that it was looked up by: a wildcard covers one
\* label, never a deeper host or the bare domain, and a name of another kind
\* (an address, a mail address) is none.
PeerIsNamed ==
  ToRealServer /\ ~opt.no_cn_verify /\ server # None =>
    /\ peer.chain # <<>>
    /\ \E n \in peer.cn \cup
            (IF peer.alt = None THEN {}
             ELSE {a.name : a \in {x \in peer.alt : x.type = "DNS"}}) :
         SameHost(server, n)

\* The version is in the range that the options of its direction give, with
\* openssl's setters or with perdition's own, whose warning excepts what is
\* newer than TLS 1.2.
VersionInRange ==
  pc = "up" =>
    /\ MinVersion # None => version >= perdition_parse_ssl_proto_version(MinVersion)
    /\ MaxVersion # None =>
         \/ version <= perdition_parse_ssl_proto_version(MaxVersion)
         \/ build = "fallback" /\ version = 4

\* A connection is what the ssl_ options of its direction ask for: the version
\* and, towards a real server, the certificates.  (perdition_ssl_ctx(),
\* __perdition_verify_callback())
ConnectionIsAsAsked == PeerIsVerified /\ VersionInRange

\* A peer that stops in the middle of the handshake does not hold the process:
\* with an idle timeout every handshake ends, and what comes up has the receive
\* timeout taken off, which would cut the session short otherwise.
HandshakeEnds ==
  timeout > 0 ~> pc = "failed" \/ (pc = "up" /\ rcvtimeo = 0)
=============================================================================
