--------------------------- MODULE MCBleConnection ---------------------------
EXTENDS BleConnection, TLC
Symmetry == Permutations(Task) \cup Permutations(Client)
=============================================================================
