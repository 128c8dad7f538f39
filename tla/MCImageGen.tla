----------------------------- MODULE MCImageGen -----------------------------
(* Trees of depth 3 over two names.  The top level holds files of one or   *)
(* of a full page of bytes, symlinks and directories; the second level     *)
(* page-sized files and directories; the third one-byte files.  So a       *)
(* directory can hold a subdirectory that holds a file.                    *)
EXTENDS ImageGen

MCNameSeq == <<"a", "b">>

File(s) == [type |-> "file", size |-> s]
Dir(kids) == [type |-> "dir", size |-> 0, kids |-> kids]
Level3 == {File(1), None}
Level2 == {File(4), None} \cup {Dir(k) : k \in [Names -> Level3]}
Level1 == {File(1), File(4), [type |-> "symlink", size |-> 1], None}
          \cup {Dir(k) : k \in [Names -> Level2]}

\* The entry at path p of a nested tree, without its children.
RECURSIVE EntryAt(_, _)
EntryAt(node, p) ==
    IF p = <<>>
    THEN IF node = None THEN None ELSE [type |-> node.type, size |-> node.size]
    ELSE IF node = None \/ node.type # "dir" THEN None
    ELSE EntryAt(node.kids[Head(p)], Tail(p))

MCTrees == {[p \in Paths |-> EntryAt(Dir(k), p)] : k \in [Names -> Level1]}
====
