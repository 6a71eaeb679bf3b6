----------------------------- MODULE MCNodeView -----------------------------
(* Values of NodeView's constants for TLC.                                  *)
EXTENDS NodeView

CONSTANTS h1, h2

\* The browser's clock behind the node's, and ahead of it.
ClockSkews == {-1, 1}

Row(h, size, miner) == [hash |-> h, size |-> size, miner |-> miner, deferred |-> FALSE]

\* A block without details, then with them; a successor; details that cannot be had.
SomeBatches ==
  {{Row(h1, FALSE, "pending")}, {Row(h1, TRUE, "resolved")},
   {Row(h1, TRUE, "resolved"), Row(h2, FALSE, "pending")},
   {Row(h1, FALSE, "pending"), Row(h2, FALSE, "unavailable")}}
=============================================================================
