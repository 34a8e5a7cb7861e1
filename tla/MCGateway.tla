------------------------------ MODULE MCGateway ------------------------------
(* TLC instances of Gateway.                                               *)
EXTENDS Gateway, TLC

CONSTANTS c1, c2, c3, ip1, ip2

MCClients == {c1, c2, c3}
MCAddress == c1 :> ip1 @@ c2 :> ip1 @@ c3 :> ip2

\* The third client has an address to itself.  Its own troubles, or the others'.
MCWeathers ==
    {c1 :> {"silent"} @@ c2 :> {} @@ c3 :> {"bad", "reset"},
     c1 :> {} @@ c2 :> {} @@ c3 :> {"lost", "abandon"},
     c1 :> {"cut"} @@ c2 :> {"reset"} @@ c3 :> {},
     c1 :> {} @@ c2 :> {} @@ c3 :> {"leave", "cut"}}

=============================================================================
