----------------------------- MODULE MC_VirtioBlk -----------------------------
EXTENDS VirtioBlk
Bits == {0, 1}
=============================================================================
