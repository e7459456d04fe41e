-------------------------- MODULE MCLedgerProtocol --------------------------
(***************************************************************************)
(* Small instances of LedgerProtocol for TLC.                              *)
(***************************************************************************)
EXTENDS LedgerProtocol

MCInitBalance == [p \in Parties |-> IF p = Leader THEN 2 ELSE 1]
=============================================================================
