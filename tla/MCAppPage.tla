------------------------------ MODULE MCAppPage ------------------------------
EXTENDS AppPage

MCFieldsOf == [s \in {"basics", "tokens"} |-> IF s = "basics" THEN {"name", "uri"} ELSE {"limit"}]
MCChoices == [f \in {"name", "uri", "limit"} |-> IF f = "limit" THEN {1, BadLimit} ELSE {1, 2}]
=============================================================================
