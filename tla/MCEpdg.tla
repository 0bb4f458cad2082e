------------------------------- MODULE MCEpdg -------------------------------
EXTENDS Epdg, TLC
\* ikeSA objects, SPIs and workers are interchangeable.
Symmetry == Permutations(SA) \cup Permutations(SPI) \cup Permutations(Worker)

PlainAttach == {[handover |-> FALSE, esp |-> TRUE]}
\* A plain attach, or one with a handover indication and no ESP proposal.
EitherAttach == PlainAttach \cup {[handover |-> TRUE, esp |-> FALSE]}
=============================================================================
