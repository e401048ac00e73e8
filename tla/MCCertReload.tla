--------------------------- MODULE MCCertReload ---------------------------
EXTENDS CertReload

CONSTANT Renewed  \* an issue that no file holds at the start

\* The issues are interchangeable, and a file changes MaxWrites times: one issue
\* may be kept for the change.
MCInit == Init /\ \A n \in Names : disk[n] # Renewed
MCSpec == MCInit /\ [][Next]_vars /\ Fairness
=============================================================================
