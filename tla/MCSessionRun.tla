----------------------------- MODULE MCSessionRun -----------------------------
(* Instances of SessionRun for TLC: the events each of them lets happen.      *)
EXTENDS SessionRun

SaveEvents == {"enforce", "timeout", "kill", "defer"}
CallEvents == {"enforce", "control", "steer", "team", "reject", "overflow", "error",
               "cancel", "revoke", "defer"}
RetryEvents == {"enforce"}

=============================================================================
