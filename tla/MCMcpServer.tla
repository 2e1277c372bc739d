------------------------------ MODULE MCMcpServer ------------------------------
(* An instance of McpServer: one template for each path through the loop.      *)
EXTENDS McpServer

Base == [shape |-> "json", first |-> "own", rpc |-> TRUE, id |-> TRUE, method |-> "server/discover",
         version |-> "supported", tool |-> "read", arguments |-> "valid", apply |-> FALSE, text |-> "UTF-8"]
Call == [Base EXCEPT !.method = "tools/call", !.version = "none"]
Unparsed(shape, first) == [Base EXCEPT !.shape = shape, !.first = first]

MCTemplates ==
    {Base, Call,
     [Base EXCEPT !.shape = "empty"],
     Unparsed("deep", "own"), Unparsed("deep", "other"), Unparsed("malformed", "other"),
     Unparsed("malformed", "garbled"), Unparsed("malformed", "none"),
     [Base EXCEPT !.rpc = FALSE],
     [Base EXCEPT !.id = FALSE],
     [Base EXCEPT !.id = FALSE, !.method = "notifications/cancelled"],
     [Base EXCEPT !.method = "notifications/progress"],
     [Base EXCEPT !.version = "other"],
     [Base EXCEPT !.method = "initialize"],
     [Call EXCEPT !.tool = "unknown"],
     [Call EXCEPT !.arguments = "not an object"],
     [Call EXCEPT !.arguments = "no match"],
     [Call EXCEPT !.tool = "write"],
     [Call EXCEPT !.tool = "write", !.apply = TRUE],
     [Call EXCEPT !.text = "garbled"],
     [Call EXCEPT !.tool = "write", !.apply = TRUE, !.text = "garbled"]}
================================================================================
