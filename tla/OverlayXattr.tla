---------------------------- MODULE OverlayXattr ----------------------------
(***************************************************************************)
(* Extended attributes of one overlay directory entry (overlayGetxattr,   *)
(* overlayListxattr, overlayCreateWhiteout in src/unnamed/part_001).  The  *)
(* overlay keeps its whiteouts as attributes "trusted.overlay.whiteout.n"  *)
(* of the upper directory and must hide every attribute of its reserved    *)
(* namespace from callers (spec.md sections 4.4 and 7).                    *)
(*                                                                         *)
(* An attribute name is a sequence of tokens: "trusted.overlay.whiteout.a" *)
(* is <<"trusted.", "overlay.", "whiteout.", "a">>; the string prefix      *)
(* relation of names is the prefix relation of these sequences.            *)
(***************************************************************************)
EXTENDS Sequences, SequencesExt

CONSTANTS
    Names,        \* names of children that can be whited out
    LowerXattrs,  \* attribute names of the lower directory
    Queries,      \* attribute names callers ask Getxattr for
    None          \* model value: no upper Inode yet

\* XattrOverlayPrefix and XattrOverlayWhiteout(name) (fs/inode_overlay.go).
XattrOverlayPrefix == <<"trusted.", "overlay.">>
XattrOverlayWhiteout(n) == XattrOverlayPrefix \o <<"whiteout.", n>>

\* strings.HasPrefix(s, prefix).
HasPrefix(s, prefix) == IsPrefix(prefix, s)

\* An attribute of the overlay's own namespace.
Reserved(x) == HasPrefix(x, XattrOverlayPrefix)

VARIABLES
    upper,    \* None, or the attribute names of the upper directory
    result    \* what the last Getxattr or Listxattr returned to its caller

vars == <<upper, result>>

\* The attributes the entry reads: the upper's when it has one.
Current == IF upper = None THEN LowerXattrs ELSE upper

\* The filter of overlayGetxattr and overlayListxattr.
Hidden(x) == HasPrefix(XattrOverlayPrefix, x)

Init ==
    /\ upper = None
    /\ result = [op |-> "none"]

\* copyUp of the directory (fs/copy_up.go, not in this repository) copies
\* the lower attributes to the new upper directory.
CopyUp ==
    /\ upper = None
    /\ upper' = LowerXattrs
    /\ UNCHANGED result

\* overlayCreateWhiteout(parent.upper, n), after a remove or rename of n.
CreateWhiteout(n) ==
    /\ upper # None
    /\ upper' = upper \cup {XattrOverlayWhiteout(n)}
    /\ UNCHANGED result

\* overlayGetxattr(o, x): ENODATA for a hidden name, else the value from
\* the upper (or lower) Inode, ENODATA where it has none.
Getxattr(x) ==
    /\ result' = [op |-> "get", name |-> x,
                  found |-> ~Hidden(x) /\ x \in Current]
    /\ UNCHANGED upper

\* overlayListxattr(o): the names of the upper (or lower) Inode, less the
\* hidden ones.
Listxattr ==
    /\ result' = [op |-> "list", names |-> {x \in Current : ~Hidden(x)}]
    /\ UNCHANGED upper

Next ==
    \/ CopyUp
    \/ \E n \in Names : CreateWhiteout(n)
    \/ \E x \in Queries : Getxattr(x)
    \/ Listxattr

Spec == Init /\ [][Next]_vars

\* No Getxattr or Listxattr call returns an attribute of the reserved
\* namespace, whiteouts included (spec.md section 7: retrieval of such a
\* name fails with "no such attribute" for upper and lower entries alike).
NoReservedLeak ==
    /\ result.op = "get" => ~(result.found /\ Reserved(result.name))
    /\ result.op = "list" => \A x \in result.names : ~Reserved(x)

====
