-------------------------- MODULE MCLedgerPipeline --------------------------
(* Three ledgers: one where two accounts pay each other, one without         *)
(* transactions, one with a single participant.                              *)
EXTENDS LedgerPipeline

CONSTANTS a1, a2

MCAccounts == {a1, a2}
MCActivity == << <<a1, a2>>, <<>>, <<a1>> >>
=============================================================================
