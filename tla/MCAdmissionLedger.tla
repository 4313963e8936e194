-------------------------- MODULE MCAdmissionLedger --------------------------
(* Small instances of AdmissionLedger for TLC. *)
EXTENDS AdmissionLedger, TLC

CONSTANTS c1, c2, c3, r1, r2, claude, codex

(* Claude and codex work of both kinds; claude has one slot, codex two.    *)
MCProviderOf ==
  [w \in Tools \cup Runs |-> IF w \in {c1, c3, r1} THEN claude ELSE codex]
MCProviderLimit == [p \in Providers |-> IF p = claude THEN 1 ELSE 2]
=============================================================================
