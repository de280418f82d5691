----------------------------- MODULE MCCryptoRun -----------------------------
EXTENDS CryptoRun

One == Derived(1)
Two == Derived(2)
OnePlain == Block({"HasCg"}, 1, <<5>>)

\* Two blocks in either order, one of them with another priority.
MCPlans == {<< >>, <<One>>, <<One, Two>>, <<Two, OnePlain>>}
MCOddities == {{8}}
=============================================================================
