--------------------------- MODULE MCOverlayXattr ---------------------------
(***************************************************************************)
(* Model values for OverlayXattr: a lower directory carrying one user      *)
(* attribute and one whiteout inherited from a lower overlay.              *)
(***************************************************************************)
EXTENDS OverlayXattr

UserX == <<"user.", "k">>

MCLowerXattrs == {UserX, XattrOverlayWhiteout("b")}

MCQueries == {UserX, XattrOverlayPrefix, XattrOverlayWhiteout("a"),
              XattrOverlayWhiteout("b")}
====
