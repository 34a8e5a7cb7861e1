----------------------------- MODULE MCCtrStream -----------------------------
(* TLC instances of CtrStream.                                             *)
EXTENDS CtrStream

MCSizes == {1, 3}

=============================================================================
