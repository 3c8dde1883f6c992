-------------------------- MODULE MCEntityMatcher ---------------------------
EXTENDS EntityMatcher

\* Two entries of the seed vocabulary; "account" is a synonym of "customer".
MCVocabulary == <<[name |-> "customer", synonyms |-> {"customer", "account"}],
                  [name |-> "order", synonyms |-> {"order", "vbeln"}]>>

MCNormal(name) == IF name = "Taxes" THEN "tax" ELSE name

MCSimilar == {<<"mail", "email">>, <<"email", "mail">>}

\* What a system may have: two names of one entity, one the vocabulary does not
\* know, twice with different fields.
Menu == {[name |-> "customer", fields |-> {"id", "mail"}],
         [name |-> "account", fields |-> {"owner", "total"}],
         [name |-> "vbeln", fields |-> {"id", "total", "tax"}],
         [name |-> "ledger", fields |-> {"total", "tax"}],
         [name |-> "ledger", fields |-> {"id", "email", "note"}]}

SeqsUpTo(n) == UNION {[1..k -> Menu] : k \in 0..n}

Of(system, seq) == [k \in 1..Len(seq) |->
    [system |-> system, name |-> seq[k].name, fields |-> seq[k].fields]]

\* A system of up to two tables between systems of at most one.
MCEstates == {Of("s1", a) \o Of("s2", b) \o Of("s3", c) \o Of("s4", d) :
                 a \in SeqsUpTo(1), b \in SeqsUpTo(2),
                 c \in SeqsUpTo(1), d \in SeqsUpTo(1)}

\* No declared entity, one that is in the vocabulary too, one that is not; a name
\* the vocabulary knows is declared in its normalized form.
KnownNormalized == {<<>>, <<[name |-> "customer", fields |-> {"id", "mail"}]>>,
                    <<[name |-> "Taxes", fields |-> {"tax", "rate", "note"}]>>}

ASSUME NamesAssumption == KnownNames
=============================================================================
