------------------------------ MODULE MCPdpBump ------------------------------
(***************************************************************************)
(* Instances of PdpBump for TLC.                                           *)
(***************************************************************************)
EXTENDS PdpBump

MCGoModules == <<"ent", "pgx", "ent/example", "pgx/example">>

\* No entry; one for every PDP; one for either pin; one for both.
MCLedgers == {{}, {{}}, {{1}}, {{2}}, {{1, 2}}, {{1}, {2}}}
=============================================================================
