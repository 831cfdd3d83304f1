---------------------------- MODULE SnapshotHistory ----------------------------
(* What the registry promises of its snapshot history: an append-only chain   *)
(* in which every receipt names the root of the receipt published before it.  *)
(* This is the chain rcx-verify's verify_history walks: a prior link is good  *)
(* when previous_snapshot_hash equals the prior receipt's root.               *)
EXTENDS Naturals, Sequences

CONSTANTS
  Roots,      \* snapshot roots
  NoRoot      \* what the first receipt names

VARIABLE history

Link == [root : Roots, prev : Roots \cup {NoRoot}]

Tip(h) == IF h = <<>> THEN NoRoot ELSE h[Len(h)].root

\* A chain that was published before this service runs is taken as it is.
Init == history \in Seq(Link)

Publish ==
  /\ history' \in Seq(Link)
  /\ Len(history') = Len(history) + 1
  /\ \A i \in 1 .. Len(history) : history'[i] = history[i]
  /\ history'[Len(history) + 1].prev = Tip(history)

Spec == Init /\ [][Publish]_history
================================================================================
