-------------------------- MODULE MCApiGateway --------------------------
(* Constants of ApiGateway for TLC.                                         *)
EXTENDS ApiGateway

\* Request 1 is for anything, request 2 competes with it for the limiters.
Assigned == [r \in Requests |-> IF r = 1 THEN AllRoutes ELSE Searches]
=============================================================================
