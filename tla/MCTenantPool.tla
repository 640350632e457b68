---------------------------- MODULE MCTenantPool ----------------------------
(* A small instance of TenantPool.                                           *)
EXTENDS TenantPool, TLC

CONSTANTS a1, a2

EndpointSubset(ready, not_ready, matches) ==
  [addresses |-> ready, not_ready |-> not_ready, port_matches |-> matches]

\* A pod that is ready and one that is not, which another subset lists without
\* the target port; and both ready, in two subsets.
SmallObjects == {
  <<EndpointSubset(<<a1>>, <<a2>>, TRUE), EndpointSubset(<<a2>>, <<>>, FALSE)>>,
  <<EndpointSubset(<<a2>>, <<>>, TRUE), EndpointSubset(<<a1>>, <<>>, TRUE)>>}

BothAddresses == <<a1, a2>>
=============================================================================
