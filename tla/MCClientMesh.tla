--------------------------- MODULE MCClientMesh ---------------------------
(* Two clients, one of them with a key.                                    *)
EXTENDS ClientMesh

CONSTANTS n1, n2

B(apps, l, g, t) == [apps |-> apps, losses |-> l, gets |-> g, teardown |-> t]

MCBudgets == {B({}, 1, 0, FALSE), B({n1, n2}, 0, 1, TRUE)}

=============================================================================
