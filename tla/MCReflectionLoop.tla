--------------------------- MODULE MCReflectionLoop ---------------------------
(* Instance of ReflectionLoop for TLC: a ledger with two versions and their record. *)
EXTENDS ReflectionLoop

V(t) == [rollback |-> FALSE, at |-> t]
MCPlaybooks == <<[version |-> V(-3), rules |-> V(-3), parent |-> NoVersion, retired |-> TRUE],
                 [version |-> V(-2), rules |-> V(-2), parent |-> V(-3), retired |-> FALSE]>>
MCOutcomes == {[id |-> 1, at |-> -2, version |-> V(-3), win |-> TRUE, band |-> 1],
               [id |-> 2, at |-> -1, version |-> V(-2), win |-> TRUE, band |-> 1]}
MCBands == {1, 2}
==============================================================================
