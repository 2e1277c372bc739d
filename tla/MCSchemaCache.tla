----------------------------- MODULE MCSchemaCache -----------------------------
(* Instances of SchemaCache: two processes, the second with a source directory *)
(* of its own ($PARSEX_SCHEMA_DIR) in front of the installed one.              *)
EXTENDS SchemaCache

CONSTANTS p1, p2, installed, user, r1, r2

TwoProcs == {p1, p2}
OneProc == {p1}
TwoDirs == {installed, user}
TwoPaths == [p \in TwoProcs |-> IF p = p2 THEN <<user, installed>> ELSE <<installed>>]
\* r1 imports xml.xsd; the user's directory has the import, or lacks it.
MCStocks == {[d \in TwoDirs |-> IF d = user THEN u ELSE {r1, Sidecar}] :
                u \in {{r1, Sidecar}, {r1, r2}}}
FullStock == {[d \in TwoDirs |-> {r1, r2, Sidecar}]}
OnePath == [p \in OneProc |-> <<user, installed>>]
================================================================================
