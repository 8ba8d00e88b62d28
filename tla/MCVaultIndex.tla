---------------------------- MODULE MCVaultIndex ----------------------------
(* Small instances of VaultIndex for TLC. *)
EXTENDS VaultIndex, TLC

CONSTANTS v1, blank   \* the vault that holds the notes, and an empty text

MCVaultOf == [n \in Notes |-> v1]

\* The other texts have the same size.
MCSizeOf == [t \in Texts |-> IF t = blank THEN 0 ELSE 1]

\* Requests are interchangeable.
MCSymmetry == Permutations(Searches)
=============================================================================
