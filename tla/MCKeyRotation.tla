---------------------------- MODULE MCKeyRotation ----------------------------
(* Small pools and few requests for TLC; each .cfg names the values it uses. *)
EXTENDS KeyRotation

EqualWeights == [a \in Accounts |-> 1]
UnequalWeights == [a \in Accounts |-> IF a = 1 THEN 2 ELSE 1]

NoSessions == [r \in Requests |-> NoSession]
OneSession == [r \in Requests |-> "s"]

FinalOrRotating == AllAnswers \ {"empty", "lost", "cut", "misread"}
Accepted == {"ok", "bad", "payment"}
OkOrRepeated == {"ok", "lost", "cut", "misread"}
==============================================================================
