--------------------------- MODULE MCServeLifecycle --------------------------
(* The kinds of request for the instances of ServeLifecycle: one for every    *)
(* part of the chain that may answer, and the handlers that differ.           *)
EXTENDS ServeLifecycle

Kind(method, preflight, target) ==
    [method |-> method, preflight |-> preflight, target |-> target]

SomeKinds ==
    {Kind("GET", FALSE, "board"), Kind("GET", FALSE, "metrics"), Kind("GET", FALSE, "none"),
     Kind("POST", FALSE, "board"), Kind("OPTIONS", TRUE, "board")}
=============================================================================
