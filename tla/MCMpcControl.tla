---------------------------- MODULE MCMpcControl ----------------------------
(* No, some, much loss; an encoder that yields nothing, what it is set to, *)
(* a good deal more, or a burst.                                           *)
EXTENDS MpcControl

SomeReports == {<<0, 0>>, <<0, 130>>, <<0, 300>>, <<20, 90>>, <<200, 0>>}
=============================================================================
