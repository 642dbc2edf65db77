---------------------------- MODULE MCCredentials ----------------------------
(* Credentials for TLC: a secret with and without a token id, another secret  *)
(* of its node with the same token id, and a second node.                     *)
EXTENDS Credentials

CONSTANTS n1, n2

MCCredentials ==
    { [node |-> n1, fingerprint |-> "f1", token_id |-> "t1"],
      [node |-> n1, fingerprint |-> "f1", token_id |-> NoTokenId],
      [node |-> n1, fingerprint |-> "f2", token_id |-> "t1"],
      [node |-> n2, fingerprint |-> "f3", token_id |-> NoTokenId] }

=============================================================================
