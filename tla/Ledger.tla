------------------------------- MODULE Ledger -------------------------------
(***************************************************************************)
(* What the node promises about the blocks it has stored: a list that      *)
(* begins with the genesis block and only ever grows, one child of its     *)
(* last block at a time. PutBlock (db/badger.go) asks for this in its      *)
(* comment and checks the height only; Chain is shown to implement it.     *)
(***************************************************************************)
EXTENDS Naturals, Sequences

CONSTANTS Hash, Genesis, Parent

VARIABLE ledger

Init == ledger = <<Genesis>>

Extend(h) ==
  /\ Parent[h] = ledger[Len(ledger)]
  /\ ledger' = Append(ledger, h)

Next == \E h \in Hash \ {Genesis} : Extend(h)

Spec == Init /\ [][Next]_ledger
=============================================================================
