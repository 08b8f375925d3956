--------------------------- MODULE MCEffectLedger ---------------------------
(* One effect and one lease key that belongs to no effect, two owners, a   *)
(* two-valued wall clock that may run backwards, and takeovers up to the   *)
(* second epoch.                                                           *)
EXTENDS EffectLedger
=============================================================================
