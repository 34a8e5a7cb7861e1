----------------------------- MODULE MCLifecycle -----------------------------
(* TLC instances of Lifecycle.                                             *)
EXTENDS Lifecycle

CONSTANTS c1, c2

MCTwoClients == {c1, c2}

=============================================================================
