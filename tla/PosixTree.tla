------------------------------ MODULE PosixTree ------------------------------
(***************************************************************************)
(* What the overlay promises its caller (spec.md sections 1 and 4.3): one  *)
(* ordinary directory tree, which create, mkdir, remove, rename and        *)
(* setattr change as on any POSIX filesystem.  Copy-up, whiteouts and the  *)
(* Dirent cache are invisible at this level: they are stuttering steps.    *)
(***************************************************************************)
EXTENDS Naturals, Sequences
LOCAL INSTANCE SequencesExt

CONSTANTS Names, MaxDepth, Attrs, None, InitTree, NewAttr

VARIABLE tree    \* [Paths -> [type, attr] \cup {None}]

Paths == UNION {[1..k -> Names] : k \in 0..MaxDepth}
Root == <<>>
Parent(p) == SubSeq(p, 1, Len(p) - 1)
Below(p, q) == IsPrefix(p, q)

\* Each step is an operator of the tree before (t) and after (u) it, so
\* that a refinement mapping substituted for tree is evaluated once a step.
\* The first conjuncts of a step only restate what it does at the paths it
\* names; they let a checker discard the wrong paths before building u.
IsDir(t, p) == t[p] # None /\ t[p].type = "dir"
EmptyDir(t, p) == \A q \in Paths : Len(q) = Len(p) + 1 /\ Below(p, q) => t[q] = None

Init == tree = InitTree

Create(t, u, p, k) ==
    /\ t[p] = None /\ u[p] # None /\ p # Root /\ IsDir(t, Parent(p))
    /\ u = [t EXCEPT ![p] = [type |-> k, attr |-> NewAttr]]

Unlink(t, u, p) ==
    /\ t[p] # None /\ u[p] = None /\ p # Root
    /\ IsDir(t, p) => EmptyDir(t, p)
    /\ u = [t EXCEPT ![p] = None]

\* rename(2): a directory replaces only an empty directory, a file only a
\* file; the subtree moves with its root.
Rename(t, u, s, d) ==
    /\ t[s] # None /\ u[s] = None /\ u[d] = t[s]
    /\ s # Root /\ d # Root /\ s # d /\ ~Below(s, d) /\ IsDir(t, Parent(d))
    /\ t[d] # None => /\ t[d].type = t[s].type
                      /\ IsDir(t, d) => EmptyDir(t, d)
    /\ u = [q \in Paths |->
              IF Below(d, q)
              THEN LET r == s \o SubSeq(q, Len(d) + 1, Len(q))
                   IN  IF r \in Paths THEN t[r] ELSE None
              ELSE IF Below(s, q) THEN None ELSE t[q]]

SetAttr(t, u, p, v) ==
    /\ t[p] # None /\ u[p] = [t[p] EXCEPT !.attr = v]
    /\ u = [t EXCEPT ![p].attr = v]

\* Every step but a stuttering one changes the path it names (a rename its
\* source), so p ranges over the paths where t and u differ.
Step(t, u) ==
    \E p \in {q \in Paths : t[q] # u[q]} :
        \/ \E k \in {"dir", "file"} : Create(t, u, p, k)
        \/ Unlink(t, u, p)
        \/ \E q \in Paths : Rename(t, u, p, q)
        \/ \E v \in Attrs : SetAttr(t, u, p, v)

Next == Step(tree, tree')

Spec == Init /\ [][Next]_tree

====
