----------------------------- MODULE MCHttpServer -----------------------------
(***************************************************************************)
(* HttpServer on small sets of endpoints, clients and requests.            *)
(***************************************************************************)
EXTENDS HttpServer

\* A request that each app handles, with and without keep-alive.
MCRequest ==
    {[app |-> "summary", keep |-> TRUE], [app |-> "none", keep |-> FALSE],
     [app |-> "detail", keep |-> TRUE]}
=============================================================================
