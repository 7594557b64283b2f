------------------------------ MODULE MCNightly ------------------------------
\* Small instances of NightlyJob for TLC.
EXTENDS NightlyJob, TLC
Nights == {Fresh}
Same == Permutations(Clients)
=============================================================================
