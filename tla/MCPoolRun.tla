------------------------------ MODULE MCPoolRun ------------------------------
(* An instance of PoolRun for TLC: a root with one object of two families in *)
(* its boot-time layout, and enough ids that no create lacks one.            *)
EXTENDS PoolRun

CONSTANTS b1, n1, n2, n3, n4

Ords == {b1, n1, n2, n3, n4}

Two == [dpmcp |-> 1, dpbp |-> 2, dpcon |-> 0]
Bare == {<<"dpmcp", b1>>, <<"dpbp", b1>>}
Child == [dpmcp |-> 0, dpbp |-> 1, dpcon |-> 0]
Enough == [dpmcp |-> 4, dpbp |-> 6, dpcon |-> 0]
All == {"dpmcp", "dpbp", "dpcon"}
=============================================================================
