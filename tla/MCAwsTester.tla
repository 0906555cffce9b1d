---------------------------- MODULE MCAwsTester -----------------------------
(* Two hosts on one cluster: one for every kind of test, one for ecs only.  *)
EXTENDS AwsTester

CONSTANTS h1, h2, s1, s2

TwoHosts == {h1, h2}
TwoNames == {s1, s2}
(* regular ends as assume-role does; session-creds is assume-role's steps    *)
(* and env-creds' end.                                                      *)
MCKinds == [h \in TwoHosts |-> IF h = h1 THEN
    {"assume-role", "env-creds", "ec2", "ecs", "web-identity", "eks"} ELSE {"ecs"}]
=============================================================================
