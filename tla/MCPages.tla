------------------------------ MODULE MCPages ------------------------------
(***************************************************************************)
(* A customer without and with a key, an administrator with one, both with *)
(* a key also as a saved name leaves them, and a pasted key.               *)
(***************************************************************************)
EXTENDS Pages
CONSTANTS ann, root, key
MCUsers    == {ann, root}
MCRole     == [u \in MCUsers |-> IF u = root THEN "admin" ELSE "customer"]
Stored(u, i, k) == [user |-> u, id |-> i, hasKey |-> k]
MCSessions == {NoSession, Stored(ann, ann, FALSE), Stored(ann, ann, TRUE),
               Stored(ann, Undefined, TRUE), Stored(root, root, TRUE),
               Stored(root, Undefined, TRUE)}
MCTotal    == [a \in MCUsers \union Keys \union {"admin"} |->
                 [k \in Kinds |-> IF k = AllKinds /\ a \notin Keys THEN 2 ELSE 1]]
MCEntered  == {NoLimits,
               [shots |-> 0, maxDepth |-> -1, errorBound |-> 150, timeout |-> 700]}
=============================================================================
