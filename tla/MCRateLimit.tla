----------------------------- MODULE MCRateLimit -----------------------------
EXTENDS RateLimit

CONSTANT ip1

\* No request touches another address's bucket: one address is enough.
MCAddresses == {ip1}
=============================================================================
