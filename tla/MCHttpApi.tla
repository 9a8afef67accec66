----------------------------- MODULE MCHttpApi ------------------------------
(***************************************************************************)
(* Small instances of HttpApi for TLC, over the accounts of MCLedger.      *)
(***************************************************************************)
EXTENDS HttpApi, MCLedger

W(route, key, src, dst, orig, amount) ==
    [route |-> route, key |-> key, json |-> TRUE, src |-> src, dst |-> dst,
     orig |-> orig, amount |-> amount]

\* A transfer, a deposit under its key, transfers back that are always and only
\* sometimes funded, reversals of what they post, and one request for every
\* check of the handlers and of the service's preamble.
MCWire ==
    {W("transfer", "k1", 1, 2, None, 2), W("deposit", "k1", None, 3, None, 1),
     W("transfer", "k2", 2, 1, None, 1), W("transfer", "k3", 2, 1, None, 3),
     W("transfer", "k2", 1, 1, None, 1),
     W("transfer", None, 1, 2, None, 2), W("transfer", "k2", None, 2, None, 1),
     W("transfer", "k2", 1, None, None, 1), W("deposit", "k2", None, 1, None, None),
     W("deposit", "k2", None, None, None, 0), W("reverse", "k3", None, None, None, 0),
     [W("transfer", "k2", 1, 2, None, 1) EXCEPT !.json = FALSE]}
      \cup {W("reverse", k, None, None, r, 0) : r \in Request, k \in {"k2", "k3"}}

MCCalls == {ToCall(w) : w \in {w \in MCWire : DecodeError(w) = None}}
=============================================================================
