--------------------------- MODULE MCMemoryCache ----------------------------
EXTENDS MemoryCache, TLC

CONSTANTS c1, c2, k1, k2

MCCallers == {c1, c2}
TwoKeys == {k1, k2}
Symmetric == Permutations(MCCallers)

\* One key, and all keys: invalidate_schema(id), clear_all().
TwoPatterns == {{k1}, TwoKeys}

Apart == [apart |-> TRUE, ttls |-> {1, 2}]
Overlapping == [apart |-> FALSE, ttls |-> {0, 1}]

BothUses == {Apart, Overlapping}
=============================================================================
