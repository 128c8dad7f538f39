------------------------------- MODULE Overlay -------------------------------
(***************************************************************************)
(* The overlay engine of the sentry's fs package (src/unnamed/part_001,    *)
(* fs/overlay.go and fs/mount_overlay.go): a writable upper layer merged   *)
(* over a read-only lower layer, with copy-up before every mutation and    *)
(* whiteout extended attributes for deletions.                             *)
(*                                                                         *)
(* Structural operations run under the tree-wide renameMu and copy-ups     *)
(* under the entry's copyMu, so at this level of detail every operation    *)
(* is one atomic step; the interleaving of their inner steps is not       *)
(* modelled.  Every failure point of an operation is a disjunct that       *)
(* commits what was done before it.                                        *)
(*                                                                         *)
(* State: the upper layer's namespace and the Dirent cache of overlay     *)
(* entries.  The lower layer is the constant Lower.                        *)
(***************************************************************************)
EXTENDS Naturals, Sequences, SequencesExt

CONSTANTS
    Names,      \* names of directory entries
    MaxDepth,   \* bound on path length
    Attrs,      \* abstract unstable attributes and contents of a node
    SetAttrs,   \* the attributes the caller's setattr calls write
    Lower,      \* the lower layer: [Paths -> [type, attr] \cup {None}]
    None,       \* model value: no node, no entry, no lower inode
    Faults,     \* the backing filesystem calls that may fail: a subset of
                \* {"copyup", "upper", "xattr"} (copy-up, the delegated
                \* upper call, the whiteout Setxattr after it)
    Ops         \* the operations the VFS caller issues ("evict": the Dirent
                \* cache may drop unreferenced Dirents)

Types == {"dir", "file"}
Paths == UNION {[1..k -> Names] : k \in 0..MaxDepth}
Root == <<>>
Parent(p) == SubSeq(p, 1, Len(p) - 1)
Name(p) == p[Len(p)]
Below(p, q) == IsPrefix(p, q)        \* q is p or lies in p's subtree
PathsOfLen == [k \in 0..MaxDepth |-> {p \in Paths : Len(p) = k}]

LowerNode == [type : Types, attr : Attrs]
\* An upper inode; wh is the set of names with a whiteout xattr on it.
UpperNode == [type : Types, attr : Attrs, wh : SUBSET Names]
\* overlayEntry with the overlay Inode's StableAttr.Type; upper is whether
\* the entry holds an upper Inode, lower is the lower Inode's path.
Entry == [type : Types, upper : BOOLEAN, lower : Paths \cup {None},
          lowerExists : BOOLEAN]

ASSUME Lower \in [Paths -> LowerNode \cup {None}]
ASSUME SetAttrs \subseteq Attrs
ASSUME Lower[Root] # None /\ Lower[Root].type = "dir"

VARIABLES
    upper,    \* [Paths -> UpperNode \cup {None}]: the upper layer
    cache     \* [Paths -> Entry \cup {None}]: cached overlay Dirents

vars == <<upper, cache>>

UpperAt(up, q) == IF q \in Paths THEN up[q] ELSE None
LowerAt(q) == IF q \in Paths THEN Lower[q] ELSE None
Wh(up, p) == IF up[p] = None THEN {} ELSE up[p].wh

(***************************************************************************)
(* overlayLookup(parent, name): the entry for p \o <<n>> merged from the   *)
(* parent entry E at p, or None for a negative Dirent or ENOENT.           *)
(***************************************************************************)
LookupResult(up, E, p, n) ==
    LET c  == Append(p, n)
        u  == IF E.upper THEN UpperAt(up, c) ELSE None
        wh == E.upper /\ n \in Wh(up, p)
        l  == IF ~wh /\ E.lower # None THEN LowerAt(Append(E.lower, n)) ELSE None
        keep == l # None /\ (u = None \/ u.type = l.type)
    IN  IF u = None /\ ~keep THEN None
        ELSE [type        |-> IF u # None THEN u.type ELSE l.type,
              upper       |-> u # None,
              lower       |-> IF keep /\ (u = None \/ u.type = "dir")
                              THEN Append(E.lower, n) ELSE None,
              lowerExists |-> keep]

\* The attributes an entry presents: the upper's if present, else the lower's.
EAttr(up, E, p) == IF E.upper THEN (IF up[p] = None THEN None ELSE up[p].attr)
               ELSE Lower[E.lower].attr

RootEntry == [type |-> "dir", upper |-> TRUE, lower |-> Root, lowerExists |-> TRUE]

\* The entries a fresh walk from the root reaches at the paths of length at
\* most k (None where the walk ends), built one level at a time.
RECURSIVE FreshUpTo(_, _)
FreshUpTo(up, k) ==
    IF k = 0 THEN [p \in {Root} |-> RootEntry]
    ELSE LET f == FreshUpTo(up, k - 1)
         IN  f @@ [p \in PathsOfLen[k] |->
                     LET pe == f[Parent(p)]
                     IN  IF pe = None \/ pe.type # "dir" THEN None
                         ELSE LookupResult(up, pe, Parent(p), Name(p))]

\* The merged namespace a new observer of the overlay sees over upper layer up.
ViewOf(up) == LET f == FreshUpTo(up, MaxDepth) IN
              [p \in Paths |-> IF f[p] = None THEN None
                               ELSE [type |-> f[p].type, attr |-> EAttr(up, f[p], p)]]
View == ViewOf(upper)

(***************************************************************************)
(* Copy-up (fs/copy_up.go, not in this repository): an operation works on  *)
(* a state record st = [upper, cache].  CopyUpStep copies one entry up, a  *)
(* no-op when it already has an upper; CopyUpPrefix(st, p, k) copies up    *)
(* the first k ancestors of p, root first, p itself being the last.        *)
(***************************************************************************)
Cur == [upper |-> upper, cache |-> cache]

\* The parent's entry holds an upper directory that has been unlinked (left
\* by a failed remove): creating the copy in it fails with ENOENT.
ParentUnlinked(st, q) ==
    q # Root /\ st.cache[Parent(q)].upper /\ st.upper[Parent(q)] = None
NewAttr == 0

CopyUpStep(st, q) ==
    LET E == st.cache[q] IN
    IF E.upper \/ ParentUnlinked(st, q) THEN st
    ELSE [upper |-> [st.upper EXCEPT ![q] =
                       [type |-> E.type, attr |-> Lower[E.lower].attr, wh |-> {}]],
          cache |-> [st.cache EXCEPT ![q].upper = TRUE]]

CopyUpPrefixMutant(st, p, k) ==
    IF k = 0 THEN st ELSE CopyUpStep(st, SubSeq(p, 1, k - 1))

RECURSIVE CopyUpPrefix(_, _, _)
CopyUpPrefix(st, p, k) ==
    IF k = 0 THEN st
    ELSE CopyUpStep(CopyUpPrefix(st, p, k - 1), SubSeq(p, 1, k - 1))

CopyUp(st, p) == CopyUpPrefix(st, p, Len(p) + 1)

\* The states a copy-up of p that fails part way may leave.
FailedCopyUps(st, p) == {CopyUpPrefix(st, p, k) : k \in 0..Len(p)}

Commit(st) == upper' = st.upper /\ cache' = st.cache

\* A copy-up from st that fails part way, and an upper-layer call that fails
\* after the copy-ups that left st: each commits what was done before it.
CopyUpFails(st, p) == "copyup" \in Faults /\ \E f \in FailedCopyUps(st, p) : Commit(f)
UpperFails(st) == "upper" \in Faults /\ Commit(st)

IsCachedDir(p) == cache[p] # None /\ cache[p].type = "dir" /\ Len(p) < MaxDepth

(***************************************************************************)
(* Helpers of the operations, each the piece of a handler a bug would      *)
(* change.  The operators named ...Mutant are plausible bugs used to show  *)
(* that the properties below can fail; no action uses them.                *)
(***************************************************************************)

\* Drops the Dirents of c and of its subtree, as Dirent.Remove unlinks them.
DropCached(st, c) == [q \in Paths |-> IF Below(c, q) THEN None ELSE st.cache[q]]

\* overlayRemove after the upper removal: the whiteout for a lower copy.
RemovedUpperMutant(st, p, n, E) ==
    LET u == [st.upper EXCEPT ![Append(p, n)] = None]
    IN  IF E.lowerExists /\ ~E.upper THEN [u EXCEPT ![p].wh = @ \cup {n}] ELSE u
RemovedUpper(st, p, n, E) ==
    LET u == [st.upper EXCEPT ![Append(p, n)] = None]
    IN  IF E.lowerExists THEN [u EXCEPT ![p].wh = @ \cup {n}] ELSE u

\* Moves f's subtree at s to d, replacing what was at d (a rename).
MoveSubtree(f, s, d) ==
    [q \in Paths |->
        IF Below(d, q)
        THEN LET r == s \o SubSeq(q, Len(d) + 1, Len(q))
             IN  IF r \in Paths THEN f[r] ELSE None
        ELSE IF Below(s, q) THEN None ELSE f[q]]

\* The Dirent cache after a successful rename: renamed's Dirents move.
RenameCacheMutant(st, s, d) == [st.cache EXCEPT ![d] = st.cache[s], ![s] = None]
RenameCache(st, s, d) == MoveSubtree(st.cache, s, d)

\* overlayRename's emptiness check: readdirOne of the replaced directory.
MergedNonEmpty(R, d) ==
    R # None /\ R.type = "dir" /\ Len(d) < MaxDepth
    /\ \E m \in Names : LookupResult(upper, R, d, m) # None

\* The upper backing filesystem refuses to remove or replace a directory
\* that has children in the upper layer.
UpperEmptyDir(u, q) ==
    IF Len(q) = MaxDepth THEN TRUE ELSE \A m \in Names : u[Append(q, m)] = None

\* The depth bound: a rename never moves anything below MaxDepth.
Fits(s, d) ==
    IF Len(d) <= Len(s) THEN TRUE
    ELSE LET v == View IN
         \A q \in Paths : Below(s, q) /\ (upper[q] # None \/ cache[q] # None \/ v[q] # None)
                         => Len(q) - Len(s) + Len(d) <= MaxDepth

(***************************************************************************)
(* Operations.  p is a cached directory, c == p \o <<n>> the child.        *)
(***************************************************************************)

\* Dirent.walk -> overlayLookup: caches the merged entry.  Negative and
\* ENOENT results and lookup errors cache nothing and change no state.
Lookup(p, n) ==
    LET R == LookupResult(upper, cache[p], p, n) IN
    /\ IsCachedDir(p)
    /\ cache[Append(p, n)] = None
    /\ R # None
    /\ cache' = [cache EXCEPT ![Append(p, n)] = R]
    /\ UNCHANGED upper

\* The Dirent cache drops an unreferenced leaf Dirent (MountSource.Keep).
Evict(p) ==
    /\ "evict" \in Ops
    /\ p # Root /\ cache[p] # None
    /\ Len(p) < MaxDepth => \A m \in Names : cache[Append(p, m)] = None
    /\ cache' = [cache EXCEPT ![p] = None]
    /\ UNCHANGED upper

\* overlayCreate: copy up the parent, create the file in the upper layer,
\* wrap it in a new entry (lower = nil, lowerExists = false).  On failure
\* of the entry the upper file is cleaned up again.
CreateFile(p, n) ==
    LET c == Append(p, n)  st == CopyUp(Cur, p) IN
    /\ "create" \in Ops
    /\ IsCachedDir(p) /\ cache[c] = None /\ LookupResult(upper, cache[p], p, n) = None
    /\ \/ /\ st.upper[p] # None
          /\ upper' = [st.upper EXCEPT ![c] = [type |-> "file", attr |-> NewAttr, wh |-> {}]]
          /\ cache' = [st.cache EXCEPT ![c] = [type |-> "file", upper |-> TRUE,
                                               lower |-> None, lowerExists |-> FALSE]]
       \/ st.upper[p] = None /\ Commit(st)       \* ENOENT: upper unlinked
       \/ CopyUpFails(Cur, p)
       \/ UpperFails(st)

\* overlayCreateDirectory (t = "dir") and overlayCreateLink (t = "file"):
\* copy up the parent, then create in the upper layer; the new node is
\* looked up later.
MakeNode(p, n, t) ==
    LET c == Append(p, n)  st == CopyUp(Cur, p) IN
    /\ IF t = "dir" THEN "mkdir" \in Ops ELSE "mknod" \in Ops
    /\ IsCachedDir(p) /\ cache[c] = None /\ LookupResult(upper, cache[p], p, n) = None
    /\ \/ /\ st.upper[p] # None
          /\ upper' = [st.upper EXCEPT ![c] = [type |-> t, attr |-> NewAttr, wh |-> {}]]
          /\ cache' = st.cache
       \/ st.upper[p] = None /\ Commit(st)       \* ENOENT: upper unlinked
       \/ CopyUpFails(Cur, p)
       \/ UpperFails(st)

\* overlayCreateFifo: the same steps as overlayCreateLink.
CreateFifo(p, n) == MakeNode(p, n, "file")

\* overlayBind: only when the parent already has an upper (EOPNOTSUPP and
\* a failed upper Bind change nothing); never copies up.
Bind(p, n) ==
    LET c == Append(p, n) IN
    /\ "bind" \in Ops
    /\ IsCachedDir(p) /\ cache[c] = None /\ LookupResult(upper, cache[p], p, n) = None
    /\ cache[p].upper /\ upper[p] # None
    /\ upper' = [upper EXCEPT ![c] = [type |-> "file", attr |-> NewAttr, wh |-> {}]]
    /\ cache' = [cache EXCEPT ![c] = [type |-> "file", upper |-> TRUE,
                                      lower |-> None, lowerExists |-> FALSE]]

\* overlayRemove, reached from Dirent.Remove (unlink) or
\* Dirent.RemoveDirectory (rmdir) with the child's Dirent c: copy up the
\* parent, remove the child's upper if it has one, then whiteout the name if
\* a lower copy existed.  On success the Dirent layer unlinks c.
OverlayRemove(p, n) ==
    LET c  == Append(p, n)
        st == CopyUp(Cur, p)
        E  == st.cache[c]
        upperOk == /\ st.upper[p] # None
                   /\ ~E.upper \/ (st.upper[c] # None /\ st.upper[c].type = E.type
                                  /\ (E.type = "file" \/ UpperEmptyDir(st.upper, c)))
    IN
    /\ IsCachedDir(p) /\ cache[c] # None
    /\ IF cache[c].type = "dir" THEN "rmdir" \in Ops ELSE "unlink" \in Ops
    /\ \/ /\ upperOk
          /\ upper' = RemovedUpper(st, p, n, E)
          /\ cache' = DropCached(st, c)
       \/ /\ ~upperOk        \* ENOTEMPTY, or ENOENT for an unlinked upper
          /\ Commit(st)
       \/ CopyUpFails(Cur, p)
       \/ E.upper /\ UpperFails(st)                       \* upper Remove fails
       \/ /\ "xattr" \in Faults                           \* Setxattr fails
          /\ upperOk /\ E.upper /\ E.lowerExists
          /\ upper' = [st.upper EXCEPT ![c] = None]
          /\ cache' = st.cache

\* Dirent.Rename -> overlayRename(oldParent op, renamed s, newParent np,
\* newName nn).  The VFS has walked the destination (R) and checked the
\* types; overlayRename looks it up again and refuses a non-empty merged
\* directory before any copy-up, then copies up renamed and newParent,
\* renames in the upper layer and whiteouts the old name if renamed had a
\* lower copy.  On success the Dirent layer moves renamed's Dirents.
Rename(op, n, np, nn) ==
    LET s  == Append(op, n)
        d  == Append(np, nn)
        R  == LookupResult(upper, cache[np], np, nn)
        st1 == CopyUp(Cur, s)
        st2 == CopyUp(st1, np)
        E  == st2.cache[s]
        moved == MoveSubtree(st2.upper, s, d)
        renameOk == /\ st2.upper[op] # None /\ st2.upper[np] # None
                    /\ st2.upper[s] # None
                    /\ IF st2.upper[d] = None THEN TRUE
                       ELSE /\ st2.upper[d].type = st2.upper[s].type
                            /\ st2.upper[d].type = "dir" => UpperEmptyDir(st2.upper, d)
    IN
    /\ "rename" \in Ops
    /\ IsCachedDir(op) /\ cache[s] # None /\ IsCachedDir(np)
    /\ s # d /\ ~Below(s, np) /\ Fits(s, d)
    /\ R # None => ((R.type = "dir") = (cache[s].type = "dir"))
    /\ \/ /\ MergedNonEmpty(R, d)                      \* ENOTEMPTY
          /\ UNCHANGED vars
       \/ /\ ~MergedNonEmpty(R, d)
          /\ \/ /\ renameOk
                /\ upper' = IF E.lowerExists THEN [moved EXCEPT ![op].wh = @ \cup {n}]
                                             ELSE moved
                /\ cache' = RenameCache(st2, s, d)
             \/ /\ ~renameOk
                /\ Commit(st2)
             \/ CopyUpFails(Cur, s) \/ CopyUpFails(st1, np)
             \/ UpperFails(st2)                             \* upper Rename fails
             \/ /\ "xattr" \in Faults                       \* Setxattr fails: the
                /\ renameOk /\ E.lowerExists                 \* upper has moved, the
                /\ upper' = moved                            \* Dirents have not
                /\ cache' = st2.cache

\* overlaySetPermissions, overlaySetOwner, overlaySetTimestamps and
\* overlayTruncate: copyUp(d), then the same call on the upper Inode (which
\* changes nothing visible when that Inode has been unlinked).
SetAttr(p, v) ==
    LET st == CopyUp(Cur, p) IN
    /\ "setattr" \in Ops
    /\ cache[p] # None
    /\ \/ /\ upper' = IF st.upper[p] = None THEN st.upper
                      ELSE [st.upper EXCEPT ![p].attr = v]
          /\ cache' = st.cache
       \/ CopyUpFails(Cur, p)
       \/ UpperFails(st)

\* overlayGetFile with flags.Write: copyUp(d) before opening the upper.
OpenWrite(p) ==
    /\ "open" \in Ops
    /\ cache[p] # None /\ cache[p].type = "file"
    /\ \/ Commit(CopyUp(Cur, p))
       \/ CopyUpFails(Cur, p)

(***************************************************************************)
(* The overlay is mounted over Lower with an empty upper root directory;   *)
(* only the root Dirent is cached.                                         *)
(***************************************************************************)
Init ==
    /\ upper = [q \in Paths |-> IF q = Root
                                THEN [type |-> "dir", attr |-> Lower[Root].attr, wh |-> {}]
                                ELSE None]
    /\ cache = [q \in Paths |-> IF q = Root THEN RootEntry ELSE None]

Next ==
    \/ \E p \in Paths, n \in Names :
          \/ Lookup(p, n) \/ CreateFile(p, n) \/ Bind(p, n) \/ OverlayRemove(p, n)
          \/ CreateFifo(p, n) \/ \E t \in Types : MakeNode(p, n, t)
    \/ \E op, np \in Paths, n, nn \in Names : Rename(op, n, np, nn)
    \/ \E p \in Paths : Evict(p) \/ OpenWrite(p) \/ \E v \in SetAttrs : SetAttr(p, v)

Spec == Init /\ [][Next]_vars

(***************************************************************************)
(* Properties                                                              *)
(***************************************************************************)

\* Types, and the Dirent cache is a tree: a cached Dirent's parent is a
\* cached directory (a Dirent holds a reference on its parent).
TypeOK ==
    /\ upper \in [Paths -> UpperNode \cup {None}]
    /\ cache \in [Paths -> Entry \cup {None}]
    /\ \A q \in Paths \ {Root} :
          cache[q] # None => cache[Parent(q)] # None /\ cache[Parent(q)].type = "dir"

\* Every cached overlay Dirent agrees with what a fresh lookup of its path
\* returns: it exists, has the same type and attributes, and holds an
\* upper Inode exactly when the upper layer has the path.  This is what
\* overlayRemove relies on when it reads a cached child's upper and type.
\* The cached lowerExists is not compared: it is fixed at lookup and may
\* legitimately differ from a fresh lookup's later (see Rename).
EntryCoherence ==
    LET v == View IN
    \A p \in Paths : cache[p] # None =>
        /\ cache[p].upper = (upper[p] # None)
        /\ v[p] # None
        /\ v[p].type = cache[p].type
        /\ v[p].attr = EAttr(upper, cache[p], p)

\* The merged view implements an ordinary directory tree: every overlay
\* step is a create, remove, rename or setattr of PosixTree, or leaves the
\* view alone.  Refinement is Abs!Spec with tree' written ViewOf(upper')
\* (the view is a function of the upper layer, Lower being constant), each
\* view bound once by \E.
Abs == INSTANCE PosixTree WITH tree <- View, InitTree <- Lower, Attrs <- SetAttrs
Refinement ==
    /\ Abs!Init
    /\ [][\/ UNCHANGED upper
          \/ \E t \in {View}, u \in {ViewOf(upper')} : t = u \/ Abs!Step(t, u)]_vars

====
