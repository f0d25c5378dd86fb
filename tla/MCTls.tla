------------------------------- MODULE MCTls -------------------------------
(***************************************************************************)
(* Tls for TLC.                                                            *)
(***************************************************************************)
EXTENDS Tls, TLC

At == <<"@">>
NoUpperCase == [x \in {} |-> x]

Strict == [ca_file |-> "good", ca_path |-> None, cert_file |-> "good",
           key_file |-> "good", key_passphrase |-> None, passphrase_input |-> <<>>,
           passphrase_file |-> None,
           ca_chain_file |-> None, dh_params_file |-> None,
           listen_min |-> "tlsv1", outgoing_min |-> "tlsv1",
           listen_max |-> None, outgoing_max |-> None,
           outgoing_compression |-> FALSE, listen_compression |-> FALSE,
           no_cert_verify |-> FALSE, no_client_cert_verify |-> FALSE,
           no_cn_verify |-> FALSE, cert_verify_depth |-> 1,
           cert_accept_expired |-> FALSE, cert_accept_not_yet_valid |-> FALSE,
           cert_accept_self_signed |-> FALSE, ca_accept_self_signed |-> FALSE,
           anonymous_ciphers |-> FALSE]

\* what the options can loosen, one at a time and two together; versions; files
SomeOptions ==
  {Strict,
   [Strict EXCEPT !.cert_accept_expired = TRUE],
   [Strict EXCEPT !.cert_accept_not_yet_valid = TRUE, !.cert_accept_expired = TRUE],
   [Strict EXCEPT !.cert_accept_self_signed = TRUE],
   [Strict EXCEPT !.ca_accept_self_signed = TRUE, !.cert_accept_expired = TRUE],
   [Strict EXCEPT !.ca_file = None, !.cert_accept_self_signed = TRUE],
   [Strict EXCEPT !.no_cert_verify = TRUE, !.ca_file = "bad"],
   [Strict EXCEPT !.no_cn_verify = TRUE, !.anonymous_ciphers = TRUE],
   [Strict EXCEPT !.anonymous_ciphers = TRUE, !.no_client_cert_verify = TRUE],
   [Strict EXCEPT !.outgoing_min = "tlsv1.2", !.listen_min = "tlsv1.1"],
   [Strict EXCEPT !.outgoing_min = "sslv3", !.outgoing_max = "tlsv1.1",
                  !.listen_max = "tlsv1.2"],
   [Strict EXCEPT !.outgoing_min = "tls", !.dh_params_file = "bad"],
   [Strict EXCEPT !.key_passphrase = <<"p">>, !.passphrase_input = <<"p", "\n", "q">>],
   [Strict EXCEPT !.key_passphrase = <<"p">>, !.passphrase_input = <<"p">>,
                  !.passphrase_file = "private"],
   [Strict EXCEPT !.key_passphrase = <<"p">>, !.ca_chain_file = "good"],
   [Strict EXCEPT !.key_file = None]}

APeer == [versions |-> {1, 2, 3}, chain |-> <<"valid", "valid">>,
          root |-> "trusted", cn |-> {<<"mail", ".", "x", ".", "org">>},
          alt |-> None, flights |-> 2]

SomePeers ==
  {[APeer EXCEPT !.chain = c, !.root = r] :
      c \in {<<"valid">>, <<"expired">>, <<"valid", "valid">>,
             <<"valid", "expired">>,
             <<"not_yet_valid", "expired">>, <<"valid", "valid", "valid">>},
      r \in {"trusted", "self", "unknown"}}
  \cup {[APeer EXCEPT !.cn = {n}] :
          n \in {<<"*", ".", "x", ".", "org">>, <<"*", ".", "org">>, <<"*", ".">>}}
  \cup {[APeer EXCEPT !.cn = {}, !.alt = {[type |-> t, name |-> n]}] :
          t \in {"DNS", "email"},
          n \in {<<"mail", ".", "x", ".", "org">>, <<"*", ".", "x", ".", "org">>}}
  \cup {[APeer EXCEPT !.chain = <<>>, !.flights = 1]}
  \cup {[APeer EXCEPT !.versions = v, !.flights = 1] : v \in {{0}, {0, 1}, {3, 4}}}

SomeServers == {None, <<"mail", ".", "x", ".", "org">>, <<"x", ".", "org">>, <<"mail">>}
=============================================================================
