----------------------------- MODULE MCExporter -----------------------------
(* Exporter with callers that open and close connections. *)
EXTENDS Exporter

Calls == {[name |-> "inc_connections"], [name |-> "dec_connections"]}
Buckets == <<"le1">>
=============================================================================
