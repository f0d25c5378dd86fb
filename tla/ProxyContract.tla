---------------------------- MODULE ProxyContract ----------------------------
(***************************************************************************)
(* What a session of the proxy promises, whatever mail protocol it speaks  *)
(* and however it finds the real server: a client makes login attempts one *)
(* after the other; the credentials of an attempt are given to at most one *)
(* real server, and only over connections as protected as the policy asks; *)
(* the client is connected through only after a real server was given the  *)
(* credentials of this very attempt.                                       *)
(*                                                                         *)
(* The policy is perdition.8's tls_listen_force ("Do not accept plain text *)
(* authentication") and tls_outgoing_force ("Do not send authentication    *)
(* information if TLS cannot be negotiated").                              *)
(***************************************************************************)
EXTENDS Naturals

VARIABLES
  policy,   \* which sides must be protected
  phase,    \* "idle", "trying", "proxied" or "closed"
  secure,   \* the client's connection is protected
  attempt,  \* number of the current or latest login attempt
  relayed   \* the attempts whose credentials a real server was given

cvars == <<policy, phase, secure, attempt, relayed>>

Policies == [listen_force : BOOLEAN, outgoing_force : BOOLEAN]

ContractInit ==
  /\ policy \in Policies
  /\ phase = "idle"
  /\ secure = FALSE
  /\ attempt = 0
  /\ relayed = {}

\* a handshake with the client; protection is never given up again
Protect ==
  /\ phase = "idle"
  /\ secure' = TRUE
  /\ UNCHANGED <<policy, phase, attempt, relayed>>

Attempt ==
  /\ phase = "idle"
  /\ phase' = "trying"
  /\ attempt' = attempt + 1
  /\ UNCHANGED <<policy, secure, relayed>>

\* the credentials of the attempt are given to a real server, over a connection
\* that is protected or not
Relay(protected) ==
  /\ phase = "trying"
  /\ policy.listen_force => secure
  /\ policy.outgoing_force => protected
  /\ \A r \in relayed : r.attempt # attempt
  /\ relayed' = relayed \cup {[attempt |-> attempt, protected |-> protected]}
  /\ phase' \in {"trying", "closed"}
  /\ UNCHANGED <<policy, secure, attempt>>

Refuse ==
  /\ phase = "trying"
  /\ phase' = "idle"
  /\ UNCHANGED <<policy, secure, attempt, relayed>>

\* the client is connected through to the real server
Accept ==
  /\ phase = "trying"
  /\ \E r \in relayed : r.attempt = attempt
  /\ phase' = "proxied"
  /\ UNCHANGED <<policy, secure, attempt, relayed>>

Close ==
  /\ phase' = "closed"
  /\ UNCHANGED <<policy, secure, attempt, relayed>>

ContractNext ==
  \/ Protect \/ Attempt \/ Refuse \/ Accept \/ Close
  \/ \E protected \in BOOLEAN : Relay(protected)

ContractSpec == ContractInit /\ [][ContractNext]_cvars
=============================================================================
