------------------------------- MODULE MCPush -------------------------------
(* Small instances of Push for TLC. *)
EXTENDS Push, TLC

CONSTANTS u1, u2, s1, s2, w1, w2

\* Two accounts that share a device.
TwoAccounts == s1 :> u1 @@ s2 :> u2

\* One session of one account.
OneSession == s1 :> u1
=============================================================================
