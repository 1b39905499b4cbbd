----------------------------- MODULE MCGovernance -----------------------------
(***************************************************************************)
(* Governance of three processes -- an ordinary one, a protected one and   *)
(* pid 1, which this configuration forgot to protect -- and three          *)
(* services: one that may be limited, one both allowed and protected, one  *)
(* neither.                                                                *)
(***************************************************************************)
EXTENDS Governance

CONSTANTS worker, sshd, init, app, both, other

MCPids == {worker, sshd, init}
MCProtectedPids == {sshd}
MCUnits == {app, both, other}
MCProtectedUnits == {both}
MCAllowedUnits == {app, both}

\* The protected process and pid 1 are flagged together, or neither is.
MCProcessFindings ==
  {f \in [MCPids -> SUBSET ProcessFlags] :
     <<f[sshd], f[init]>> \in {<<{}, {}>>, <<ProcessFlags, {"HighCpu"}>>}}
=============================================================================
