---------------------------- MODULE MCSessionHub ----------------------------
\* SessionHub on small instances.
EXTENDS SessionHub, TLC

\* Sockets and broadcasts are interchangeable (safety runs only).
HubSymmetry == Permutations(Sockets) \cup Permutations(Casts)
=============================================================================
