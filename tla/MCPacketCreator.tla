-------------------------- MODULE MCPacketCreator --------------------------
(***************************************************************************)
(* PacketCreator for TLC: the two kinds of version the runs instantiate,    *)
(* the empty input set, and the delegate's answers.  Sizes are given in    *)
(* the .cfg files: packets of a few dozen bytes, so that a handful of      *)
(* frames fills one.                                                       *)
(***************************************************************************)
EXTENDS PacketCreator

\* Every predicate of an IETF version with TLS holds.
IetfVersion ==
    [ietf_header |-> TRUE, ietf_frames |-> TRUE, long_header_lengths |-> TRUE,
     header_protection |-> TRUE, crypto_frames |-> TRUE, var_pn_long |-> TRUE,
     client_cids |-> TRUE, message_frames |-> TRUE, uses_tls |-> TRUE]

\* Q043: none of them does.
GoogleVersion ==
    [ietf_header |-> FALSE, ietf_frames |-> FALSE,
     long_header_lengths |-> FALSE, header_protection |-> FALSE,
     crypto_frames |-> FALSE, var_pn_long |-> FALSE, client_cids |-> FALSE,
     message_frames |-> FALSE, uses_tls |-> FALSE]

None == {}

\* The delegate lets no packet out, lets some out, or changes its mind.
FewAnswers ==
    {<<>>, <<TRUE>>, <<FALSE, TRUE>>, <<TRUE, TRUE, FALSE, TRUE>>,
     <<TRUE, TRUE, TRUE, TRUE, TRUE, TRUE>>}

\* Fewer of them: none, a refusal in the middle, as many as are asked for.
ThreeAnswers == {<<>>, <<TRUE, FALSE, TRUE>>,
                 <<TRUE, TRUE, TRUE, TRUE, TRUE, TRUE>>}

\* For the runs with most inputs: a refusal in the middle, or none.
TwoAnswers == {<<TRUE, FALSE, TRUE>>, <<TRUE, TRUE, TRUE, TRUE, TRUE, TRUE>>}

=============================================================================
