--------------------------- MODULE MCLoadBalance ---------------------------
EXTENDS LoadBalance, TLC

\* The requests are interchangeable, and so are the clients: no definition
\* tells them apart.
Symmetry == Permutations(Requests) \union Permutations(Clients)
=============================================================================
