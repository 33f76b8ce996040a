------------------------------ MODULE MCAccess -----------------------------
(* One account in at most one group; a group of the same name at the       *)
(* identity provider; a rule that makes an unsafe name of the identity.    *)
EXTENDS Access
CONSTANTS u1, g1, alice, dots, eng, adm, star, r1, aliceHome, etc, srv, userHome

MCHome   == [n \in Name |-> IF n = alice THEN aliceHome ELSE etc]
MCInside == [p \in Path |-> {p}]

Give(t, g, p) == [type |-> t, group |-> g, path |-> p]
Edits == {Give("idp", star, userHome), Give("unix", eng, srv),
          Give("unix", star, srv), [suffix |-> 5, name |-> dots], [suffix |-> 0, name |-> alice]}
=============================================================================
