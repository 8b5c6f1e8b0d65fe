------------------------------ MODULE MCAutobump ------------------------------
(* Autobump with a small list of dependencies: keepalived, which has a     *)
(* package of its own, and two of the haproxy package.                     *)
EXTENDS Autobump

Packages == <<"keepalived", "haproxy", "haproxy">>
=============================================================================
