------------------------------- MODULE MCDns --------------------------------
EXTENDS Dns

CONSTANTS n1, n2, n3

MCHostnames == {n1, n2, n3}

\* n2 and n3 differ only in what answers say of them: n1 is never an alias of n3.
MCAliases == (MCHostnames \X MCHostnames) \ {<<n1, n3>>}
=============================================================================
