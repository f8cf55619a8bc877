------------------------------ MODULE MCReplica ------------------------------
(***************************************************************************)
(* Five exports.  An ingest replica is sent two of them, one over each     *)
(* transport: either three admissible records of one service, of which one *)
(* may be shed and one has no identifier, to a journal with room for two;  *)
(* or one record of each of two services, to a cache with room for one.  A *)
(* replica in every role is sent one of the others: the first loses a      *)
(* record to its depth, one to its content and one to its size, the second *)
(* is past a limit of the whole request.                                   *)
(***************************************************************************)
EXTENDS Replica

Log(uid, severity) ==
    [depth |-> 1, nodes |-> 1, bytes |-> 1, weight |-> 128, bounded |-> TRUE,
     uid |-> uid, evidence |-> uid,
     event |-> 10, observed |-> 10, content |-> TRUE, safe |-> TRUE,
     size |-> 1, severity |-> severity]

Batch(name, records) ==
    [wellFormed |-> TRUE, packed |-> 9,
     resources |-> <<[depth |-> 1, nodes |-> 1, bytes |-> 1, weight |-> 128,
                      bounded |-> TRUE, region |-> Absent,
                      name |-> name, environment |-> Absent,
                      scopes |-> <<[depth |-> 0, nodes |-> 0, bytes |-> 0,
                                    weight |-> 0, bounded |-> TRUE,
                                    records |-> records]>>]>>]

MCExports == {"mixed", "plain", "other", "filtered", "oversized"}
MCTransport == [x \in MCExports |-> IF x \in {"mixed", "other"} THEN "grpc" ELSE "http"]
MCSent == [x \in MCExports |->
    CASE x = "mixed" ->
           Batch("cart", <<[Log("a", "error") EXCEPT !.depth = 3],
                           Log("b", "info"), Log("c", "error")>>)
      [] x = "plain" ->
           Batch("cart", <<[Log(Absent, "warn") EXCEPT !.event = 0]>>)
      [] x = "other" ->
           Batch("shop", <<Log("i", "info")>>)
      [] x = "filtered" ->
           Batch("cart", <<[Log("d", "error") EXCEPT !.depth = 3],
                           [Log("e", "error") EXCEPT !.content = FALSE],
                           [Log("f", "error") EXCEPT !.size = 9],
                           Log("g", "error")>>)
      [] x = "oversized" ->
           Batch("shop", <<[Log("h", "error") EXCEPT !.nodes = MaxNodes]>>)]

MCServices == {"cart", "shop"}
MCDeclared == [s \in MCServices |-> IF s = "cart" THEN "v1" ELSE "none"]
MCRoles    == {"all", "ingest", "cloudwatch"}
MCOffered  == [r \in MCRoles |->
    CASE r = "ingest"     -> {{"mixed", "plain"}, {"plain", "other"}}
      [] r = "all"        -> {{"filtered"}, {"oversized"}}
      [] r = "cloudwatch" -> {{}}]
==============================================================================
