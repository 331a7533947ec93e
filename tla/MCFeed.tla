-------------------------------- MODULE MCFeed --------------------------------
(* The poller refreshes three coins in chunks of two; a request adds one of    *)
(* them, or a search reads it.                                                 *)
EXTENDS Feed

CONSTANTS poller, request

MCJobs ==
  [t \in Caller |->
     IF t = poller THEN {[does |-> "refresh", ids |-> {1, 2, 3}]}
     ELSE {[does |-> "ensure", ids |-> {1}], [does |-> "read", ids |-> {3}]}]
=============================================================================
