---------------------------- MODULE MCProxying ----------------------------
EXTENDS Proxying, TLC

Symmetry == Permutations(Clients) \cup Permutations(Queues)
=============================================================================
