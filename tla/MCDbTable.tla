----------------------------- MODULE MCDbTable ------------------------------
(* DbTable for TLC: records that are a key and nothing else.                *)
EXTENDS DbTable

KeyOnly == {"key"}
KeyQuery == {{"key"}}
=============================================================================
