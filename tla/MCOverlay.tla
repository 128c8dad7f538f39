------------------------------ MODULE MCOverlay ------------------------------
(***************************************************************************)
(* Model values for Overlay: two lower layers and the operation mixes the *)
(* runs use.                                                               *)
(***************************************************************************)
EXTENDS Overlay

Node(t, a) == [type |-> t, attr |-> a]

\* Lower content has attribute 1; setattr writes only 0 (SetAttrs), so an
\* entry that shows 1 again after a setattr shows reverted lower content.

\* Lower layer with no nested content: an empty directory a and a file b.
LowerFlat ==
    [q \in Paths |-> IF q = <<>> THEN Node("dir", 0)
                     ELSE IF q = <<"a">> THEN Node("dir", 1)
                     ELSE IF q = <<"b">> THEN Node("file", 1)
                     ELSE None]

\* Lower layer with a directory a holding a file a/b, and a file b.
LowerNested ==
    [q \in Paths |-> IF q = <<>> THEN Node("dir", 0)
                     ELSE IF q = <<"a">> THEN Node("dir", 1)
                     ELSE IF q = <<"a", "b">> THEN Node("file", 1)
                     ELSE IF q = <<"b">> THEN Node("file", 1)
                     ELSE None]

OpsAll == {"create", "mkdir", "mknod", "bind", "unlink", "rmdir", "rename",
           "setattr", "open", "evict"}
OpsNoRenameRmdir == OpsAll \ {"rename", "rmdir"}
\* The operations that restructure the namespace, and setattr, which a
\* caller may always issue (on the root at least).
OpsStructural == {"unlink", "rmdir", "rename", "setattr"}
OpsUnlinkRename == {"unlink", "rename"}
OpsSetattrUnlink == {"setattr", "unlink"}
====
