---------------------------- MODULE MCServiceSet ----------------------------
(***************************************************************************)
(* The invariants proved for every service graph (ServiceTypes), checked   *)
(* on the setups of MCSetups that have the services a, b and c.            *)
(***************************************************************************)
EXTENDS ServiceTypes

CONSTANTS Use, Ordered
VARIABLE setup

Setups == INSTANCE MCSetups

MCServices == {"a", "b", "c"}
MCRecords == <<"a", "b", "c">>
MCLinks == [from : MCServices, to : MCServices,
            type : {"REGULAR", "SOFT", "WAITS_FOR", "MILESTONE", "BEFORE", "AFTER"}]
MCGraph == [depends_on |-> [s \in MCServices |-> <<>>], dependents |-> [s \in MCServices |-> <<>>]]
Each(x) == [s \in MCServices |-> x]
MCTypes == Each("INTERNAL")
MCOptions == Each({})
MCChain == Each("none")

SetupSpec == Setups!Spec
=============================================================================
