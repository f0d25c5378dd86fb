------------------------------ MODULE TlsProofs ------------------------------
(***************************************************************************)
(* What an SSL or TLS connection guarantees for every set of options, every*)
(* peer, with a chain of any length, and every server name, proved with    *)
(* TLAPS.                                                                  *)
(***************************************************************************)
EXTENDS Tls, FiniteSetTheorems, WellFoundedInduction, TLAPS

TypeOK ==
  /\ opt \in Options /\ flag \in {"client", "server"} /\ peer \in Peers
  /\ server \in Servers /\ build \in {"native", "fallback"}
  /\ pc \in {"ctx", "start", "wait", "verify", "ended", "check", "up", "failed"}
  /\ stage \in {"end", "dates", "done"}

\* the context is the one of the options
ContextInv == pc \notin {"ctx", "failed"} => ctx = perdition_ssl_ctx

\* the version that was negotiated
VersionInv ==
  pc \in {"verify", "ended", "check", "up"} => version \in peer.versions \ ctx.off

\* what the options say about a chain
RootAccepted ==
  \/ peer.root = "trusted" /\ ctx.trust
  \/ /\ peer.root = "self"
     /\ IF Len(peer.chain) = 1 THEN opt.cert_accept_self_signed ELSE opt.ca_accept_self_signed

DateAccepted(d) ==
  \/ peer.chain[d + 1] = "valid"
  \/ peer.chain[d + 1] = "expired" /\ opt.cert_accept_expired
  \/ peer.chain[d + 1] = "not_yet_valid" /\ opt.cert_accept_not_yet_valid

\* what openssl has passed has been accepted
WalkInv ==
  /\ depth \in -1 .. Len(peer.chain) - 1
  /\ stage = "end" => depth = Len(peer.chain) - 1
  /\ stage # "end" => RootAccepted
  /\ stage = "done" => depth >= 0 /\ DateAccepted(depth)
  /\ \A d \in depth + 1 .. Len(peer.chain) - 1 : DateAccepted(d) /\ d <= opt.cert_verify_depth

\* the walk is over before the handshake is
EndInv == pc \in {"ended", "check", "up"} => ctx.mode = "none" \/ depth < 0

\* the connection is up after the last check
CheckInv == pc = "up" => __perdition_ssl_check_certificate

\* when the walk begins, the context is there
StageInv == pc \in {"ctx", "start", "wait"} => stage = "end"

IInv == /\ TypeOK /\ ContextInv /\ VersionInv /\ WalkInv /\ EndInv /\ CheckInv
        /\ StageInv

LEMMA PeerShape ==
  ASSUME TypeOK
  PROVE  /\ peer.versions \subseteq Versions
         /\ peer.chain \in Seq({"valid", "expired", "not_yet_valid"})
         /\ peer.root \in {"trusted", "self", "unknown"}
         /\ opt.cert_verify_depth \in Nat /\ Len(peer.chain) \in Nat
         /\ DOMAIN peer.chain = 1 .. Len(peer.chain)
<1>1. /\ peer.versions \subseteq Versions
      /\ peer.chain \in Seq({"valid", "expired", "not_yet_valid"})
      /\ peer.root \in {"trusted", "self", "unknown"}
      /\ opt.cert_verify_depth \in Nat
  BY TlsAssumption DEF TypeOK
<1> QED
  BY <1>1

LEMMA InitInv == Init => IInv
<1> SUFFICES ASSUME Init PROVE IInv
  OBVIOUS
<1>1. TypeOK
  BY DEF Init, TypeOK
<1>2. WalkInv
  BY <1>1, PeerShape DEF Init, WalkInv
<1> QED
  BY <1>1, <1>2 DEF Init, IInv, ContextInv, VersionInv, EndInv, CheckInv, StageInv

\* What else the invariant mentions stays as it is.
LEMMA GivenFrame ==
  UNCHANGED given =>
    /\ UNCHANGED <<opt, flag, build, server, peer>>
    /\ perdition_ssl_ctx' = perdition_ssl_ctx
  BY DEF given, perdition_ssl_ctx, SwitchedOff, Compression, VerifyMode, Verifies, CaChain,
         MinVersion, MaxVersion, set_max_proto_version

\* A step of the walk that the callback allows, or that needs none.
LEMMA WalkStep ==
  ASSUME IInv, pc = "verify", depth >= 0, GoOn, UNCHANGED <<given, ctx>>,
         Silent \/ __perdition_verify_callback(Call).ok
  PROVE  WalkInv' /\ stage' \in {"dates", "done"}
<1> USE DEF IInv
<1>0. /\ Len(peer.chain) \in Nat /\ opt.cert_verify_depth \in Nat /\ depth \in Nat
      /\ peer.chain[depth + 1] \in {"valid", "expired", "not_yet_valid"}
      /\ peer.root \in {"trusted", "self", "unknown"}
  BY PeerShape DEF WalkInv
<1>1. UNCHANGED <<opt, peer, ctx>>
  BY DEF given
<1>2. CASE stage = "end"
  <2>1. RootAccepted
    <3>1. CASE Silent
      BY <1>2, <3>1 DEF Silent, RootAccepted
    <3>2. CASE __perdition_verify_callback(Call).ok
      <4>1. Call = Finding(ChainError)
        BY <1>2, Zenon DEF Call
      <4>2. __perdition_verify_result(ChainError) = "ok"
        BY <3>2, <4>1 DEF __perdition_verify_callback, Finding
      <4> QED
        BY <1>0, <4>2 DEF __perdition_verify_result, ChainError, RootAccepted
    <3> QED
      BY <3>1, <3>2
  <2> QED
    BY <1>0, <1>1, <1>2, <2>1 DEF GoOn, WalkInv, RootAccepted, DateAccepted
<1>3. CASE stage = "dates"
  <2>1. DateAccepted(depth)
    <3>1. CASE Silent
      BY <1>3, <3>1 DEF Silent, DateAccepted
    <3>2. CASE __perdition_verify_callback(Call).ok
      <4>1. Call = Finding(peer.chain[depth + 1])
        BY <1>3, Zenon DEF Call
      <4>2. __perdition_verify_result(peer.chain[depth + 1]) = "ok"
        BY <3>2, <4>1 DEF __perdition_verify_callback, Finding
      <4> QED
        BY <1>0, <4>2 DEF __perdition_verify_result, DateAccepted
    <3> QED
      BY <3>1, <3>2
  <2> QED
    BY <1>0, <1>1, <1>3, <2>1 DEF GoOn, WalkInv, RootAccepted, DateAccepted
<1>4. CASE stage = "done"
  <2>1. depth <= opt.cert_verify_depth
    <3>1. Call = [ok |-> TRUE, error |-> "ok", depth |-> depth] /\ ~Silent
      BY <1>4, Zenon DEF Call, Silent
    <3>2. ~(opt.cert_verify_depth < depth)
      BY <3>1 DEF __perdition_verify_callback
    <3> QED
      BY <1>0, <3>2
  <2>2. stage' = "dates" /\ depth' = depth - 1
    BY <1>4 DEF GoOn
  <2>3. DateAccepted(depth) /\ RootAccepted /\ depth <= Len(peer.chain) - 1
        /\ \A d \in depth + 1 .. Len(peer.chain) - 1 :
             DateAccepted(d) /\ d <= opt.cert_verify_depth
    BY <1>4 DEF WalkInv
  <2>4. \A d \in depth .. Len(peer.chain) - 1 : DateAccepted(d) /\ d <= opt.cert_verify_depth
    BY <1>0, <2>1, <2>3
  <2>5. \A d \in depth' + 1 .. Len(peer.chain) - 1 : DateAccepted(d)' /\ d <= opt.cert_verify_depth
    <3>1. depth' + 1 = depth
      BY <1>0, <2>2
    <3>2. ASSUME NEW d \in depth .. Len(peer.chain) - 1
          PROVE DateAccepted(d)' /\ d <= opt.cert_verify_depth
      <4>1. DateAccepted(d) /\ d <= opt.cert_verify_depth
        BY <2>4, <3>2
      <4> QED
        BY <1>1, <4>1 DEF DateAccepted
    <3> QED
      BY <3>1, <3>2
  <2> QED
    BY <1>0, <1>1, <2>2, <2>3, <2>5 DEF WalkInv, RootAccepted
<1> QED
  BY <1>2, <1>3, <1>4 DEF TypeOK

LEMMA StepInv == IInv /\ [Next]_vars => IInv'
<1> SUFFICES ASSUME IInv, [Next]_vars PROVE IInv'
  OBVIOUS
<1> USE DEF IInv
<1>0. UNCHANGED given
  BY DEF Next, MakeContext, Start, Receive, GiveUp, Disconnected, Verify, Ended, Check,
         Stopped, vars
<1>1. /\ UNCHANGED <<opt, flag, build, server, peer>>
      /\ perdition_ssl_ctx' = perdition_ssl_ctx
  BY <1>0, GivenFrame
<1>2. CASE MakeContext \/ Start \/ GiveUp \/ Disconnected \/ Stopped \/ UNCHANGED vars
  <2>1. UNCHANGED walk
    BY <1>2 DEF MakeContext, Start, GiveUp, Disconnected, Stopped, vars
  <2>2. \/ /\ pc' = pc /\ ctx' = ctx /\ version' = version
        \/ pc' = "failed"
        \/ pc' \in {"start", "wait"} /\ stage = "end" /\ ctx' = perdition_ssl_ctx
    BY <1>2 DEF MakeContext, Start, GiveUp, Disconnected, Stopped, vars, ContextInv, StageInv
  <2>3. (pc' # pc => pc \in {"ctx", "start", "wait"}) /\ (ctx' # ctx => pc = "ctx")
    BY <1>2 DEF MakeContext, Start, GiveUp, Disconnected, Stopped, vars, TypeOK
  <2>4. TypeOK' /\ ContextInv' /\ VersionInv' /\ StageInv'
    BY <1>1, <2>1, <2>2 DEF TypeOK, ContextInv, VersionInv, StageInv, walk
  <2>5. WalkInv'
    <3>1. stage # "end" => ctx' = ctx
      BY <2>3 DEF StageInv
    <3> QED
      BY <1>1, <2>1, <3>1 DEF WalkInv, RootAccepted, DateAccepted, walk
  <2>6. EndInv'
    BY <2>1, <2>2 DEF EndInv, walk
  <2>7. CheckInv'
    BY <1>1, <2>1, <2>2
       DEF CheckInv, walk, __perdition_ssl_check_certificate, __perdition_verify_result,
           __perdition_ssl_check_name, check_common_name, check_alt_subject
  <2> QED
    BY <2>4, <2>5, <2>6, <2>7
<1>3. CASE Receive
  <2>1. UNCHANGED <<walk, ctx>> /\ pc = "wait" /\ pc' \in {"failed", "verify", "wait"}
    BY <1>3 DEF Receive
  <2>2. pc' \in {"verify", "wait"} => version' \in peer.versions \ ctx.off
    <3> DEFINE both == peer.versions \ ctx.off
    <3> SUFFICES ASSUME pc' \in {"verify", "wait"} PROVE version' \in both
      OBVIOUS
    <3>1. both # {} /\ version' = CHOOSE v \in both : \A w \in both : w <= v
      BY <1>3 DEF Receive
    <3>2. \E v \in both : \A w \in both : w <= v
      <4>1. both \subseteq 0 .. 4
        BY PeerShape DEF Versions
      <4> HIDE DEF both
      <4>2. CASE 4 \in both
        BY <4>1, <4>2
      <4>3. CASE 4 \notin both /\ 3 \in both
        BY <4>1, <4>3
      <4>4. CASE {4, 3} \cap both = {} /\ 2 \in both
        BY <4>1, <4>4
      <4>5. CASE {4, 3, 2} \cap both = {} /\ 1 \in both
        BY <4>1, <4>5
      <4>6. CASE {4, 3, 2, 1} \cap both = {}
        <5>1. PICK v \in both : TRUE
          BY <3>1
        <5>2. \A w \in both : w = 0
          BY <4>1, <4>6
        <5> QED
          BY <5>1, <5>2
      <4> QED
        BY <4>2, <4>3, <4>4, <4>5, <4>6
    <3> HIDE DEF both
    <3> QED
      BY <3>1, <3>2
  <2> QED
    BY <1>1, <2>1, <2>2
       DEF TypeOK, ContextInv, VersionInv, StageInv, WalkInv, RootAccepted, DateAccepted,
           EndInv, CheckInv, walk
<1>4. CASE Verify
  <2>1. UNCHANGED <<ctx, version>> /\ pc = "verify" /\ pc' \in {"verify", "failed", "ended"}
    BY <1>4 DEF Verify
  <2>2. CASE ctx.mode = "none" \/ depth < 0
    <3>1. UNCHANGED walk
      BY <1>4, <2>2 DEF Verify
    <3> QED
      BY <1>1, <2>1, <2>2, <3>1
         DEF TypeOK, ContextInv, VersionInv, StageInv, WalkInv, RootAccepted, DateAccepted,
             EndInv, CheckInv, walk
  <2>3. CASE ~(ctx.mode = "none" \/ depth < 0)
    <3>1. \/ /\ GoOn /\ pc' = "verify"
             /\ Silent \/ __perdition_verify_callback(Call).ok
          \/ pc' = "failed" /\ UNCHANGED <<stage, depth>>
      BY <1>4, <2>3, <2>1 DEF Verify
    <3>2. CASE /\ GoOn /\ pc' = "verify"
               /\ Silent \/ __perdition_verify_callback(Call).ok
      <4>1. depth >= 0
        BY <2>3 DEF WalkInv
      <4>2. WalkInv' /\ stage' \in {"dates", "done"}
        BY <1>0, <2>1, <3>2, <4>1, WalkStep
      <4> QED
        BY <1>1, <2>1, <3>2, <4>2
           DEF TypeOK, ContextInv, VersionInv, StageInv, EndInv, CheckInv
    <3>3. CASE pc' = "failed" /\ UNCHANGED <<stage, depth>>
      BY <1>1, <2>1, <3>3
         DEF TypeOK, ContextInv, VersionInv, StageInv, WalkInv, RootAccepted, DateAccepted,
             EndInv, CheckInv
    <3> QED
      BY <3>1, <3>2, <3>3
  <2> QED
    BY <2>2, <2>3
<1>5. CASE Ended
  <2>1. UNCHANGED <<walk, ctx, version>> /\ pc = "ended" /\ pc' \in {"failed", "check"}
    BY <1>5 DEF Ended
  <2> QED
    BY <1>1, <2>1
       DEF TypeOK, ContextInv, VersionInv, StageInv, WalkInv, RootAccepted, DateAccepted,
           EndInv, CheckInv, walk
<1>6. CASE Check
  <2>1. /\ UNCHANGED <<walk, ctx, version>> /\ pc = "check"
        /\ pc' = IF __perdition_ssl_check_certificate THEN "up" ELSE "failed"
    BY <1>6 DEF Check
  <2>2. TypeOK' /\ ContextInv' /\ VersionInv' /\ StageInv' /\ EndInv' /\ WalkInv'
    BY <1>1, <2>1
       DEF TypeOK, ContextInv, VersionInv, StageInv, WalkInv, RootAccepted, DateAccepted,
           EndInv, walk
  <2>3. CheckInv'
    <3>1. pc' = "up" => __perdition_ssl_check_certificate
      BY <2>1
    <3> QED
      BY <1>1, <2>1, <3>1
         DEF CheckInv, walk, __perdition_ssl_check_certificate, __perdition_verify_result,
             __perdition_ssl_check_name, check_common_name, check_alt_subject
  <2> QED
    BY <2>2, <2>3
<1> QED
  BY <1>2, <1>3, <1>4, <1>5, <1>6 DEF Next

\* The invariant holds in every reachable state.
THEOREM Invariance == Spec => []IInv
  BY InitInv, StepInv, PTL DEF Spec

\* The variables of a connection keep their types; openssl's walk never leaves the
\* chain that the peer sent.
THEOREM TypeCorrect == Spec => [](TypeOK /\ depth \in -1 .. Len(peer.chain) - 1)
<1>1. IInv => TypeOK /\ depth \in -1 .. Len(peer.chain) - 1
  BY DEF IInv, WalkInv
<1> QED
  BY <1>1, Invariance, PTL

-----------------------------------------------------------------------------
LEMMA ParsedVersion ==
  \A str : perdition_parse_ssl_proto_version(str) \in -1 .. 3
<1> SUFFICES ASSUME NEW str PROVE perdition_parse_ssl_proto_version(str) \in -1 .. 3
  OBVIOUS
<1>1. perdition_parse_ssl_proto_version(str) \in {0, 1, 2, 3, Invalid}
  BY Zenon DEF perdition_parse_ssl_proto_version
<1> QED
  BY <1>1 DEF Invalid

LEMMA VersionAsAsked == IInv => VersionInRange
<1> SUFFICES ASSUME IInv, pc = "up"
    PROVE /\ MinVersion # None => version >= perdition_parse_ssl_proto_version(MinVersion)
          /\ MaxVersion # None =>
               \/ version <= perdition_parse_ssl_proto_version(MaxVersion)
               \/ build = "fallback" /\ version = 4
  BY DEF VersionInRange
<1>1. ctx = perdition_ssl_ctx
  BY DEF IInv, ContextInv
<1>2. ctx.off = SwitchedOff
  BY <1>1 DEF perdition_ssl_ctx
<1>3. version \in 0 .. 4 /\ version \notin SwitchedOff
  BY <1>2, PeerShape DEF IInv, VersionInv, Versions
<1>4. /\ perdition_parse_ssl_proto_version(MinVersion) \in -1 .. 3
      /\ perdition_parse_ssl_proto_version(MaxVersion) \in -1 .. 3
  BY ParsedVersion
<1>5. MinVersion # None =>
        version \notin set_min_proto_version(perdition_parse_ssl_proto_version(MinVersion))
  BY <1>3 DEF SwitchedOff
<1>6. MaxVersion # None =>
        version \notin set_max_proto_version(perdition_parse_ssl_proto_version(MaxVersion))
  BY <1>3 DEF SwitchedOff
<1>7. MinVersion # None => version >= perdition_parse_ssl_proto_version(MinVersion)
  BY <1>3, <1>4, <1>5 DEF set_min_proto_version, Versions
<1>8. build \in {"native", "fallback"}
  BY DEF IInv, TypeOK
<1>9. MaxVersion # None =>
        \/ version <= perdition_parse_ssl_proto_version(MaxVersion)
        \/ build = "fallback" /\ version = 4
  BY <1>3, <1>4, <1>6, <1>8 DEF set_max_proto_version, Versions
<1> QED
  BY <1>7, <1>9

LEMMA ChainAsAsked == IInv => PeerIsVerified
<1> SUFFICES ASSUME IInv, pc = "up", flag = "client", ~opt.no_cert_verify, peer.chain # <<>>
    PROVE /\ Len(peer.chain) - 1 <= opt.cert_verify_depth
          /\ \A n \in DOMAIN peer.chain :
               \/ peer.chain[n] = "valid"
               \/ peer.chain[n] = "expired" /\ opt.cert_accept_expired
               \/ peer.chain[n] = "not_yet_valid" /\ opt.cert_accept_not_yet_valid
          /\ \/ peer.root = "trusted" /\ "good" \in {opt.ca_file, opt.ca_path}
             \/ /\ peer.root = "self"
                /\ IF Len(peer.chain) = 1 THEN opt.cert_accept_self_signed
                   ELSE opt.ca_accept_self_signed
  BY Zenon DEF PeerIsVerified, ToRealServer
<1>1. ctx = perdition_ssl_ctx
  BY DEF IInv, ContextInv
<1>2. ctx.mode = "peer"
  BY <1>1 DEF perdition_ssl_ctx, VerifyMode, Verifies
<1>3. Len(peer.chain) \in Nat /\ Len(peer.chain) > 0 /\ DOMAIN peer.chain = 1 .. Len(peer.chain)
      /\ opt.cert_verify_depth \in Nat
  BY PeerShape DEF IInv
<1>4. depth = -1
  BY <1>2, <1>3 DEF IInv, EndInv, WalkInv
<1>5. \A d \in 0 .. Len(peer.chain) - 1 : DateAccepted(d) /\ d <= opt.cert_verify_depth
  BY <1>3, <1>4 DEF IInv, WalkInv
<1>6. RootAccepted
  BY <1>3, <1>4 DEF IInv, WalkInv
<1>7. ctx.trust => "good" \in {opt.ca_file, opt.ca_path}
  <2>1. ctx.trust => "good" \in {opt.ca_file, opt.ca_path, CaChain}
    BY <1>1 DEF perdition_ssl_ctx
  <2>2. CaChain # "good"
    BY TlsAssumption DEF CaChain
  <2> QED
    BY <2>1, <2>2
<1>8. Len(peer.chain) - 1 <= opt.cert_verify_depth
  BY <1>3, <1>5
<1>9. ASSUME NEW n \in DOMAIN peer.chain
      PROVE  \/ peer.chain[n] = "valid"
             \/ peer.chain[n] = "expired" /\ opt.cert_accept_expired
             \/ peer.chain[n] = "not_yet_valid" /\ opt.cert_accept_not_yet_valid
  <2>1. n - 1 \in 0 .. Len(peer.chain) - 1 /\ (n - 1) + 1 = n
    BY <1>3
  <2>2. DateAccepted(n - 1)
    BY <1>5, <2>1
  <2> QED
    BY <2>1, <2>2 DEF DateAccepted
<1> QED
  BY <1>6, <1>7, <1>8, <1>9 DEF RootAccepted

\* A connection is what the ssl_ options of its direction ask for, whatever the length
\* of the chain and wherever in it the errors are that the options accept.
THEOREM AsAsked == Spec => []ConnectionIsAsAsked
<1>1. IInv => ConnectionIsAsAsked
  BY VersionAsAsked, ChainAsAsked DEF ConnectionIsAsAsked
<1> QED
  BY <1>1, Invariance, PTL

-----------------------------------------------------------------------------
(* The place of a number in a set.                                         *)

Rank(L, n) == Cardinality({m \in L : m < n})

LEMMA RankLess ==
  ASSUME NEW L \in SUBSET Int, IsFiniteSet(L), NEW n \in L
  PROVE  /\ Rank(L, n) \in Nat /\ Rank(L, n) < Cardinality(L)
         /\ \A k \in L : n < k => Rank(L, n) < Rank(L, k)
<1> DEFINE Below(k) == {m \in L : m < k}
<1>1. /\ IsFiniteSet(Below(n)) /\ Cardinality(Below(n)) \in Nat
  BY FS_Subset, FS_CardinalityType
<1>2. /\ IsFiniteSet(Below(n) \cup {n})
      /\ Cardinality(Below(n) \cup {n}) = Cardinality(Below(n)) + 1
  <2>1. n \notin Below(n)
    OBVIOUS
  <2> HIDE DEF Below
  <2> QED
    BY <1>1, <2>1, FS_AddElement
<1>3. Cardinality(Below(n) \cup {n}) <= Cardinality(L) /\ Cardinality(L) \in Nat
  BY FS_Subset, FS_CardinalityType
<1>4. ASSUME NEW k \in L, n < k
      PROVE  Cardinality(Below(n) \cup {n}) <= Cardinality(Below(k)) /\ Cardinality(Below(k)) \in Nat
  <2>1. Below(n) \cup {n} \in SUBSET Below(k)
    <3>1. ASSUME NEW m \in Below(n) \cup {n} PROVE m \in Below(k)
      <4>1. m \in Int /\ m \in L /\ m <= n /\ k \in Int /\ n \in Int
        BY <3>1
      <4> QED
        BY <1>4, <4>1
    <3> QED
      BY <3>1
  <2>2. IsFiniteSet(Below(k))
    BY FS_Subset
  <2> QED
    BY <2>1, <2>2, FS_Subset, FS_CardinalityType
<1> QED
  BY <1>1, <1>2, <1>3, <1>4 DEF Rank

\* Every rank is somebody's, and nobody else's.
LEMMA RankOnto ==
  ASSUME NEW L \in SUBSET Int, IsFiniteSet(L), NEW r \in 0 .. Cardinality(L) - 1
  PROVE  \E n \in L : Rank(L, n) = r /\ \A k \in L : Rank(L, k) = r => k = n
<1> DEFINE N == Cardinality(L)
           f == [n \in L |-> Rank(L, n)]
<1>1. N \in Nat
  BY FS_CardinalityType
<1>2. \A n \in L : Rank(L, n) \in 0 .. N - 1
  <2>1. \A n \in L : Rank(L, n) \in Nat /\ Rank(L, n) < N
    BY RankLess
  <2> QED
    BY <1>1, <2>1
<1>3. \A n, k \in L : Rank(L, n) = Rank(L, k) => n = k
  <2> SUFFICES ASSUME NEW n \in L, NEW k \in L, n # k PROVE Rank(L, n) # Rank(L, k)
    OBVIOUS
  <2>1. n < k \/ k < n
    OBVIOUS
  <2>2. /\ Rank(L, n) \in Nat /\ Rank(L, k) \in Nat
        /\ n < k => Rank(L, n) < Rank(L, k)
        /\ k < n => Rank(L, k) < Rank(L, n)
    BY RankLess
  <2> QED
    BY <2>1, <2>2
<1>4. f \in Injection(L, 0 .. N - 1)
  BY <1>2, <1>3 DEF Injection, IsInjective
<1>5. IsFiniteSet(0 .. N - 1) /\ Cardinality(0 .. N - 1) = N
  BY <1>1, FS_Interval
<1>6. f \in Surjection(L, 0 .. N - 1)
  BY <1>4, <1>5, FS_Injection
<1>7. PICK n \in L : f[n] = r
  BY <1>6 DEF Surjection
<1> QED
  BY <1>3, <1>7

LEMMA ShiftCardinality ==
  ASSUME NEW L \in SUBSET Int, IsFiniteSet(L), NEW s \in Int
  PROVE  IsFiniteSet({n + s : n \in L}) /\ Cardinality({n + s : n \in L}) = Cardinality(L)
<1> DEFINE f == [n \in L |-> n + s]
           M == {n + s : n \in L}
<1>1. f \in Injection(L, M) 
  BY DEF Injection, IsInjective
<1>2. f \in Surjection(L, M)
  BY DEF Surjection
<1>3. ExistsBijection(L, M)
  BY <1>1, <1>2 DEF ExistsBijection, Bijection
<1> QED
  BY <1>3, FS_Bijection

-----------------------------------------------------------------------------
(* A wildcard covers one label.                                            *)

\* The first and the last of some places in a string.
LEMMA MinOfIsMin ==
  ASSUME NEW N \in Nat, NEW S \in SUBSET (0 .. N), S # {}
  PROVE  MinOf(S) \in S /\ \A n \in S : MinOf(S) <= n
<1>1. S \subseteq Nat
  OBVIOUS
<1>2. PICK x \in S : \A y \in S : ~(<<y, x>> \in OpToRel(<, Nat))
  BY <1>1, NatLessThanWellFounded, WFMin, Zenon
<1>3. \A y \in S : ~(y < x)
  BY <1>1, <1>2 DEF OpToRel
<1>4. \A n \in S : x <= n
  BY <1>1, <1>3
<1> QED
  BY <1>4 DEF MinOf

LEMMA LastExists ==
  ASSUME NEW N \in Nat, NEW S \in SUBSET (0 .. N), S # {}
  PROVE  \E k \in S : \A n \in S : n <= k
<1> DEFINE T == {N - n : n \in S}
<1>1. T \in SUBSET (0 .. N) /\ T # {}
  <2>1. PICK n \in S : TRUE
    OBVIOUS
  <2>2. N - n \in T
    OBVIOUS
  <2>3. T \subseteq 0 .. N
    OBVIOUS
  <2> QED
    BY <2>2, <2>3
<1>2. PICK x \in T : \A y \in T : x <= y
  <2> HIDE DEF T
  <2> QED
    BY <1>1, MinOfIsMin
<1>3. PICK k \in S : x = N - k
  OBVIOUS
<1> QED
  BY <1>2, <1>3

\* Where a token is in a string.
LEMMA OnePlace ==
  ASSUME NEW s \in CStrings, NEW n \in 1 .. Len(s), NEW c
  PROVE  IsAt(s, <<c>>, n) <=> s[n] = c
<1> DEFINE t == SubSeq(s, n, n)
<1>1. t \in Seq(Tokens) /\ Len(t) = 1 /\ t[1] = s[n]
  BY DEF CStrings
<1>2. Len(<<c>>) = 1 /\ n + 1 - 1 = n /\ Len(s) \in Nat /\ n <= Len(s) /\ 1 <= n
  BY DEF CStrings
<1>3. IsAt(s, <<c>>, n) <=> t = <<c>>
  BY <1>2 DEF IsAt
<1> HIDE DEF t
<1>4. t = <<t[1]>>
  BY <1>1
<1>5. t = <<c>> => t[1] = c
  OBVIOUS
<1> QED
  BY <1>1, <1>3, <1>4, <1>5

LEMMA FirstDot ==
  ASSUME NEW s \in CStrings, NEW c, strchr(s, c) # 0
  PROVE  /\ strchr(s, c) \in 1 .. Len(s)
         /\ \A n \in 1 .. strchr(s, c) - 1 : s[n] # c
<1> DEFINE at == Places(s, <<c>>)
<1>1. Len(s) \in Nat /\ at \in SUBSET (0 .. Len(s)) /\ at \subseteq 1 .. Len(s)
  BY DEF CStrings, Places
<1>2. at # {} /\ strchr(s, c) = MinOf(at)
  BY DEF strchr, strstr
<1>3. MinOf(at) \in at /\ \A n \in at : MinOf(at) <= n
  <2> HIDE DEF at
  <2> QED
    BY <1>1, <1>2, MinOfIsMin
<1>4. ASSUME NEW n \in 1 .. MinOf(at) - 1 PROVE s[n] # c
  <2>1. n \in 1 .. Len(s) /\ n \notin at
    BY <1>1, <1>3
  <2>2. ~IsAt(s, <<c>>, n)
    BY <2>1 DEF Places
  <2> QED
    BY <2>1, <2>2, OnePlace
<1> QED
  BY <1>1, <1>2, <1>3, <1>4

\* The ends of the labels of a name.
LEMMA LabelsFinite ==
  ASSUME NEW s \in CStrings
  PROVE  /\ Labels(s) \in SUBSET (1 .. Len(s) + 1) /\ IsFiniteSet(Labels(s))
         /\ Len(s) + 1 \in Labels(s) /\ Len(s) \in Nat
<1>1. Len(s) \in Nat
  BY DEF CStrings
<1>2. Labels(s) \in SUBSET (1 .. Len(s) + 1) /\ Len(s) + 1 \in Labels(s)
  BY <1>1 DEF Labels
<1>3. IsFiniteSet(1 .. Len(s) + 1)
  BY <1>1, FS_Interval
<1> QED
  BY <1>1, <1>2, <1>3, FS_Subset

\* Which label a label is: from behind the end before it to its own.
LEMMA LabelIs ==
  ASSUME NEW s \in CStrings, NEW k \in 1 .. Cardinality(Labels(s)),
         NEW end \in Labels(s), Rank(Labels(s), end) = k - 1,
         NEW start \in {0} \cup {j \in Labels(s) : j < end},
         \A j \in {0} \cup {j \in Labels(s) : j < end} : j <= start
  PROVE  LabelOf(s, k) = SubSeq(s, start + 1, end - 1)
<1> DEFINE ends == Labels(s)
           e == CHOOSE n \in ends : Cardinality({j \in ends : j < n}) = k - 1
           starts == {0} \cup {j \in ends : j < e}
           b == CHOOSE n \in starts : \A j \in starts : j <= n
<1>1. LabelOf(s, k) = SubSeq(s, b + 1, e - 1)
  BY DEF LabelOf
<1>2. ends \in SUBSET Int /\ IsFiniteSet(ends) /\ Cardinality(ends) \in Nat
  BY LabelsFinite, FS_CardinalityType
<1>3. PICK n \in ends : Rank(ends, n) = k - 1 /\ \A m \in ends : Rank(ends, m) = k - 1 => m = n
  <2>1. k - 1 \in 0 .. Cardinality(ends) - 1
    BY <1>2
  <2> QED
    BY <1>2, <2>1, RankOnto
<1>4. e = end
  <2>1. e = CHOOSE m \in ends : Rank(ends, m) = k - 1
    BY DEF Rank
  <2>2. n = end
    BY <1>3
  <2> QED
    BY <1>3, <2>1, <2>2
<1>5. b = start
  <2>1. start \in starts /\ \A j \in starts : j <= start
    BY <1>4
  <2>2. starts \subseteq Int
    BY <1>2
  <2>3. b \in starts /\ \A j \in starts : j <= b
    BY <2>1, Zenon
  <2>4. b <= start /\ start <= b
    BY <2>1, <2>3, Zenon
  <2>5. b \in Int /\ start \in Int
    BY <2>1, <2>2, <2>3, Zenon
  <2> HIDE DEF b
  <2> QED
    BY <2>4, <2>5
<1> QED
  BY <1>1, <1>4, <1>5

LEMMA CompareIsSameHost ==
  ASSUME NEW key \in CStrings, NEW val \in CStrings, __perdition_ssl_compare_key(key, val)
  PROVE  SameHost(key, val)
<1> SUFFICES ASSUME key # val PROVE SameHost(key, val)
  BY DEF SameHost
<1> DEFINE f == strchr(key, ".")
           s == f - 2
           K == Labels(key)
           V == Labels(val)
<1>1. /\ Len(val) >= 3 /\ val[1] = "*" /\ val[2] = "." /\ f # 0
      /\ After(key, f) = After(val, 2)
  BY DEF __perdition_ssl_compare_key
<1>2. /\ f \in 1 .. Len(key) /\ Len(key) \in Nat /\ Len(val) \in Nat
      /\ \A n \in 1 .. f - 1 : key[n] # "."
  BY <1>1, FirstDot DEF CStrings
<1> HIDE DEF f
<1>3. Len(key) = Len(val) + s
  <2>1. Len(After(key, f)) = Len(key) - f + 1
    BY <1>2 DEF After, CStrings
  <2>2. Len(After(val, 2)) = Len(val) - 1
    BY <1>1, <1>2 DEF After, CStrings
  <2>3. Len(val) - 1 = Len(key) - f + 1
    BY <1>1, <2>1, <2>2
  <2> QED
    BY <1>2, <2>3
<1>4. \A n \in 2 .. Len(val) : val[n] = key[n + s]
  <2> SUFFICES ASSUME NEW n \in 2 .. Len(val) PROVE val[n] = key[n + s]
    OBVIOUS
  <2>1. After(val, 2)[n - 1] = val[n]
    BY <1>1, <1>2 DEF After, CStrings
  <2>2. After(key, f)[n - 1] = key[n + s]
    BY <1>1, <1>2, <1>3 DEF After, CStrings
  <2> QED
    BY <1>1, <2>1, <2>2
\* the ends of the key's labels are the value's, moved
<1>5. K = {n + s : n \in V} /\ 2 \in V /\ 1 \notin V
  <2>1. ASSUME NEW n \in V PROVE n + s \in K
    <3>1. n \in 2 .. Len(val) + 1 /\ (n = Len(val) + 1 \/ val[n] = ".")
      BY <1>1, <1>2 DEF Labels
    <3>2. CASE n = Len(val) + 1
      BY <1>2, <1>3, <3>2 DEF Labels
    <3>3. CASE n # Len(val) + 1
      <4>1. n \in 2 .. Len(val) /\ key[n + s] = "."
        BY <1>4, <1>2, <3>1, <3>3
      <4> QED
        BY <1>2, <1>3, <4>1 DEF Labels
    <3> QED
      BY <3>2, <3>3
  <2>2. ASSUME NEW m \in K PROVE m - s \in V
    <3>1. m \in 1 .. Len(key) + 1 /\ (m = Len(key) + 1 \/ key[m] = ".")
      BY DEF Labels
    <3>2. m >= f
      BY <1>2, <3>1
    <3>3. m - s \in 2 .. Len(val) + 1
      BY <1>2, <1>3, <3>1, <3>2
    <3>4. CASE m = Len(key) + 1
      BY <1>2, <1>3, <3>4 DEF Labels
    <3>5. CASE m # Len(key) + 1
      <4>1. m - s \in 2 .. Len(val) /\ (m - s) + s = m
        BY <1>2, <1>3, <3>1, <3>3, <3>5
      <4>2. val[m - s] = "."
        BY <1>4, <3>1, <3>5, <4>1
      <4> QED
        BY <1>2, <4>1, <4>2 DEF Labels
    <3> QED
      BY <3>4, <3>5
  <2>3. K \subseteq Int /\ V \subseteq Int /\ s \in Int
    BY <1>2 DEF Labels
  <2>4. ASSUME NEW m \in K PROVE m \in {n + s : n \in V}
    <3>1. m \in Int /\ (m - s) + s = m /\ m - s \in V
      BY <2>2, <2>3
    <3> QED
      BY <3>1
  <2>5. K = {n + s : n \in V}
    BY <2>1, <2>4
  <2>6. 2 \in V /\ 1 \notin V
    BY <1>1, <1>2 DEF Labels
  <2> QED
    BY <2>5, <2>6
<1>6. /\ V \in SUBSET (2 .. Len(val) + 1) /\ IsFiniteSet(V) /\ s \in Int
      /\ K \in SUBSET Int /\ IsFiniteSet(K) /\ Len(val) + 1 \in V
  <2>1. V \in SUBSET (1 .. Len(val) + 1) /\ IsFiniteSet(V) /\ IsFiniteSet(K)
        /\ Len(val) + 1 \in V /\ K \in SUBSET (1 .. Len(key) + 1)
    BY LabelsFinite
  <2> QED
    BY <1>2, <1>5, <2>1
<1> HIDE DEF K, V
<1>7. Cardinality(K) = Cardinality(V) /\ Cardinality(V) \in Nat
  <2>1. V \in SUBSET Int
    BY <1>6
  <2> QED
    BY <1>5, <1>6, <2>1, ShiftCardinality, FS_CardinalityType
\* each end moves with the ends before it
<1>8. ASSUME NEW n \in V
      PROVE  {m \in K : m < n + s} = {m + s : m \in {x \in V : x < n}}
  <2>1. ASSUME NEW m \in K, m < n + s PROVE m \in {y + s : y \in {x \in V : x < n}}
    <3>1. PICK y \in V : m = y + s
      BY <1>5
    <3>2. y \in Int /\ n \in Int /\ s \in Int
      BY <1>6
    <3>3. y < n
      BY <2>1, <3>1, <3>2
    <3> QED
      BY <3>1, <3>3
  <2>2. ASSUME NEW y \in V, y < n PROVE y + s \in K /\ y + s < n + s
    BY <1>5, <1>6, <2>2
  <2> QED
    BY <2>1, <2>2
<1>9. ASSUME NEW n \in V PROVE Rank(K, n + s) = Rank(V, n)
  <2> DEFINE B == {x \in V : x < n}
  <2>1. B \in SUBSET Int /\ IsFiniteSet(B)
    <3>1. B \subseteq V /\ V \subseteq Int
      BY <1>6
    <3> HIDE DEF B
    <3> QED
      BY <1>6, <3>1, FS_Subset
  <2>2. Cardinality({m + s : m \in B}) = Cardinality(B)
    <3> HIDE DEF B
    <3> QED
      BY <1>6, <2>1, ShiftCardinality
  <2> QED
    BY <1>8, <2>2 DEF Rank
\* the first label
<1>10. \A m \in V : m \in Int /\ ~(m < 2) /\ m <= Len(val) + 1
  BY <1>6, <1>2
<1>11. Rank(V, 2) = 0
  <2>1. {m \in V : m < 2} = {}
    BY <1>10
  <2> QED
    BY <2>1, FS_EmptySet DEF Rank
<1>12. Cardinality(V) > 1
  <2>1. 2 < Len(val) + 1
    BY <1>1, <1>2
  <2>2. Rank(V, 2) < Rank(V, Len(val) + 1) /\ Rank(V, Len(val) + 1) < Cardinality(V)
        /\ Rank(V, Len(val) + 1) \in Nat
    <3>1. V \in SUBSET Int
      BY <1>6
    <3> QED
      BY <1>5, <1>6, <2>1, <3>1, RankLess
  <2> QED
    BY <1>7, <1>11, <2>2
<1>13. LabelOf(val, 1) = <<"*">>
  <2>1. {0} \cup {j \in V : j < 2} = {0}
    BY <1>10
  <2>2. LabelOf(val, 1) = SubSeq(val, 0 + 1, 2 - 1)
    <3>1. 1 \in 1 .. Cardinality(V) /\ Rank(V, 2) = 1 - 1
      BY <1>7, <1>11, <1>12
    <3>2. 0 \in {0} \cup {j \in V : j < 2} /\ \A j \in {0} \cup {j \in V : j < 2} : j <= 0
      BY <2>1
    <3> QED
      BY <1>5, <3>1, <3>2, LabelIs DEF V
  <2> DEFINE t == SubSeq(val, 1, 1)
  <2>3. t \in Seq(Tokens) /\ Len(t) = 1 /\ t[1] = "*"
    BY <1>1, <1>2 DEF CStrings
  <2>4. LabelOf(val, 1) = t
    BY <2>2
  <2> HIDE DEF t
  <2>5. t = <<t[1]>>
    BY <2>3
  <2> QED
    BY <2>3, <2>4, <2>5
\* every other
<1>14. ASSUME NEW k \in 2 .. Cardinality(V) PROVE LabelOf(key, k) = LabelOf(val, k)
  <2>1. PICK e \in V : Rank(V, e) = k - 1
    <3>1. V \in SUBSET Int /\ k - 1 \in 0 .. Cardinality(V) - 1
      BY <1>6, <1>7
    <3> QED
      BY <1>6, <3>1, RankOnto
  <2>2. e > 2
    <3>1. e # 2
      BY <1>7, <1>11, <2>1
    <3> QED
      BY <1>6, <3>1
  <2> DEFINE B == {j \in V : j < e}
  <2>3. PICK p \in B : \A j \in B : j <= p
    <3>1. B \in SUBSET (0 .. Len(val) + 1) /\ Len(val) + 1 \in Nat
      <4>1. B \subseteq V /\ V \subseteq 0 .. Len(val) + 1
        BY <1>2, <1>6
      <4>2. Len(val) + 1 \in Nat
        BY <1>2
      <4> QED
        BY <4>1, <4>2, Zenon
    <3>2. 2 \in B
      BY <1>5, <2>2
    <3> HIDE DEF B
    <3> QED
      BY <3>1, <3>2, LastExists
  <2>4. /\ p \in 2 .. Len(val) + 1 /\ e \in 2 .. Len(val) + 1 /\ p < e
    BY <1>6, <2>3
  <2>5. LabelOf(val, k) = SubSeq(val, p + 1, e - 1)
    <3>1. p \in {0} \cup {j \in V : j < e} /\ \A j \in {0} \cup {j \in V : j < e} : j <= p
      BY <2>3, <2>4
    <3>2. k \in 1 .. Cardinality(V)
      BY <1>7
    <3> QED
      BY <2>1, <3>1, <3>2, LabelIs DEF V
  <2>6. LabelOf(key, k) = SubSeq(key, (p + s) + 1, (e + s) - 1)
    <3>1. p + s \in K /\ e + s \in K /\ p + s < e + s /\ 0 <= p + s
      BY <1>2, <1>5, <1>6, <2>3, <2>4
    <3>2. ASSUME NEW j \in {0} \cup {j \in K : j < e + s} PROVE j <= p + s
      <4>1. CASE j = 0
        BY <3>1, <4>1
      <4>2. CASE j \in {m \in K : m < e + s}
        <5>1. PICK y \in B : j = y + s
          BY <1>8, <4>2
        <5>2. y <= p /\ y \in Int /\ p \in Int /\ s \in Int
          BY <1>6, <2>3, <2>4, <5>1
        <5> QED
          BY <5>1, <5>2
      <4> QED
        BY <4>1, <4>2
    <3>3. k \in 1 .. Cardinality(K) /\ Rank(K, e + s) = k - 1
      BY <1>7, <1>9, <2>1
    <3>4. p + s \in {0} \cup {j \in K : j < e + s}
      BY <3>1
    <3> QED
      BY <3>1, <3>2, <3>3, <3>4, LabelIs DEF K
  <2> DEFINE a == SubSeq(key, (p + s) + 1, (e + s) - 1)
             b == SubSeq(val, p + 1, e - 1)
  <2>7. /\ a \in Seq(Tokens) /\ b \in Seq(Tokens)
        /\ Len(a) = e - 1 - p /\ Len(b) = e - 1 - p
        /\ \A n \in 1 .. e - 1 - p : a[n] = key[p + s + n] /\ b[n] = val[p + n]
    BY <1>2, <1>3, <1>6, <2>4 DEF CStrings
  <2>8. \A n \in 1 .. e - 1 - p : a[n] = b[n]
    <3> SUFFICES ASSUME NEW n \in 1 .. e - 1 - p PROVE a[n] = b[n]
      OBVIOUS
    <3>1. p + n \in 2 .. Len(val) /\ (p + n) + s = p + s + n
      BY <1>2, <1>6, <2>4
    <3> QED
      BY <1>4, <2>7, <3>1
  <2> HIDE DEF a, b
  <2>9. a = b
    BY <2>4, <2>7, <2>8
  <2> QED
    BY <2>5, <2>6, <2>9 DEF a, b
<1> QED
  BY <1>7, <1>12, <1>13, <1>14 DEF SameHost, K, V

LEMMA NamedAsAsked == IInv => PeerIsNamed
<1> SUFFICES ASSUME IInv, pc = "up", flag = "client", ~opt.no_cn_verify, server # None
    PROVE /\ peer.chain # <<>>
          /\ \E n \in peer.cn \cup
                  (IF peer.alt = None THEN {}
                   ELSE {a.name : a \in {x \in peer.alt : x.type = "DNS"}}) :
               SameHost(server, n)
  BY DEF PeerIsNamed, ToRealServer
<1>1. peer.chain # <<>> /\ (check_common_name(server) \/ check_alt_subject(server))
  BY DEF IInv, CheckInv, __perdition_ssl_check_certificate, __perdition_ssl_check_name
<1>2. server \in CStrings
  BY TlsAssumption DEF IInv, TypeOK
<1>3. CASE check_common_name(server)
  <2>1. PICK n \in peer.cn : __perdition_ssl_compare_key(server, n)
    BY <1>3 DEF check_common_name
  <2>2. n \in CStrings
    BY TlsAssumption DEF IInv, TypeOK
  <2>3. SameHost(server, n)
    BY <1>2, <2>1, <2>2, CompareIsSameHost
  <2> QED
    BY <1>1, <2>3
<1>4. CASE check_alt_subject(server)
  <2>1. PICK a \in peer.alt : a.type = "DNS" /\ __perdition_ssl_compare_key(server, a.name)
    BY <1>4 DEF check_alt_subject
  <2>2. peer.alt # None
    BY <1>4 DEF check_alt_subject
  <2>3. a.name \in CStrings
    BY <2>2, TlsAssumption DEF IInv, TypeOK
  <2>4. SameHost(server, a.name)
    BY <1>2, <2>1, <2>3, CompareIsSameHost
  <2> QED
    BY <1>1, <2>1, <2>2, <2>4
<1> QED
  BY <1>1, <1>3, <1>4

\* The server that is logged in to has shown a certificate for the name that it was
\* looked up by, whatever the names and however many labels they have.
THEOREM PeerNamed == Spec => []PeerIsNamed
  BY NamedAsAsked, Invariance, PTL
=============================================================================
