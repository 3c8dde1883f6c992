---------------------------- MODULE MCDiagnosis -----------------------------
(* Estates of up to five systems, two groups of one canonical name, and       *)
(* tables whose fields match exactly, nearly and not at all; or up to seven   *)
(* findings of each of the five most expensive kinds, which reach every       *)
(* verdict and every floor.                                                   *)
EXTENDS Diagnosis

Worst == {"schemaCritical", "systemBoth", "gapCritical", "gapBlocking",
          "checkCritical"}

TwoNamesakes == <<"customer", "customer">>

Normalized == [Id |-> "id", id |-> "id", client_id |-> "client_id",
               clients_id |-> "clients_id", name |-> "name"]
Ids == {"Id", "id", "client_id", "clients_id"}

\* SequenceMatcher's ratio of client_id and clients_id is 0.947.
Names == {"id", "client_id", "clients_id", "name"}
Ratios == [a \in Names |-> [b \in Names |->
              IF {a, b} = {"client_id", "clients_id"} THEN 94 ELSE 30]]

TypesAlike == {{"int", "bigint"}, {"varchar", "text"}}

F(name, type) == [name |-> name, type |-> type]
Plain   == <<F("id", "int"), F("name", "varchar")>>
Client  == <<F("client_id", "int"), F("name", "text")>>
Clients == <<F("clients_id", "text"), F("Id", "bigint")>>

System(type, stress, tables) == [type |-> type, stress |-> stress, tables |-> tables]

Systems == {System("other", "systemBoth", <<>>),
            System("CRM", "systemSlow", <<Plain>>),
            System("ERP", "untested", <<Client>>),
            System("other", "systemErrors", <<Clients, Client>>)}
=============================================================================
