------------------------------ MODULE ImageGen ------------------------------
(***************************************************************************)
(* The zar image generator: a walk of a directory tree that appends every  *)
(* file's bytes to the image, records a FileMetadata entry per file,       *)
(* directory and symlink, then writes the metadata (gob) and its location  *)
(* (a varint) at the end of the image.  Two versions are in the            *)
(* repository and the variable version records which one runs:           *)
(*   "zar"     : zarManager, fileWriter and readImage of src/unnamed/      *)
(*               part_004 (recurses into a directory where it meets it);   *)
(*   "manager" : ZarManager of src/imgGen/src/manager/manager.go (lists    *)
(*               symlinks, walks subdirectories after the files, builds a  *)
(*               filter of file paths and writes a second location).       *)
(* manager.go writes through the fileio/writer package, which is not in    *)
(* the repository; its Write, WriteInt64 and Count are those of part_004's *)
(* fileWriter, which this module uses for both versions.                   *)
(*                                                                         *)
(* The image is a sequence of records [kind, len, val]: "data" (a file's   *)
(* bytes, val its path), "pad", "gob" (val the encoded value) and          *)
(* "varint" (val the int64 written).  Contents are abstracted to lengths.  *)
(***************************************************************************)
EXTENDS Naturals, Sequences, SequencesExt, FiniteSets

CONSTANTS
    NameSeq,         \* the names a directory may hold, in ReadDir order
    MaxDepth,        \* deepest path of the walked tree
    Trees,           \* the directory trees the generator may be run on
    Versions,        \* the versions run: a subset of {"zar", "manager"}
    PageBoundary,    \* pageBoundary of part_004
    MaxVarintLen64,  \* binary.MaxVarintLen64: WriteInt64's buffer length
    WriteFaults,     \* whether the image file's writes may fail (disk full)
    None

Names == ToSet(NameSeq)
Paths == UNION {[1..k -> Names] : k \in 0..MaxDepth}
Name(p) == p[Len(p)]

\* Length of a gob encoding: grows with the entries of the value encoded.
GobLen(v) == 4 + 2 * Cardinality(DOMAIN v)

\* The bytes in the image, and img with a record of kind k, length n and
\* value v appended at its end; a record keeps its offset in "at".
Length(img) == IF img = <<>> THEN 0 ELSE Last(img).at + Last(img).len
Put(img, k, n, v) == Append(img, [kind |-> k, len |-> n, val |-> v, at |-> Length(img)])
Offset(img, i) == img[i].at

VARIABLES
    version,    \* the generator run: "zar" or "manager"
    tree,       \* the directory tree walked
    pageAlign,  \* the -pagealign flag
    calls,      \* the Include calls WalkDir has still to make, in order
    count,      \* writer.count: the bytes the writer believes it wrote
    image,      \* the records the image file holds, in order
    metadata,   \* z.metadata
    filter,     \* None, or the paths constructFilter added to the filter
    closed,     \* WriteHeader has closed the image
    read,       \* None, or what readImage decoded (ok FALSE: it failed)
    statistics, \* z.Statistics (manager only): the ImgStats counters
    kept,       \* None, or how many records reached the file before it failed
    sticky,     \* the bufio.Writer has met the write error (it keeps it)
    fatal       \* log.Fatalf has ended the generator

vars == <<version, tree, pageAlign, calls, count, image, metadata, filter, closed, read,
          statistics, kept, sticky, fatal>>
faultVars == <<kept, sticky, fatal>>

\* The records the image file holds: all of them, or those written before
\* the file's writes began to fail (what was still buffered is lost).
OnDisk == IF kept = None THEN image ELSE SubSeq(image, 1, kept)

\* The entries of directory p in ReadDir order.
Kids(t, p) ==
    SelectSeq([i \in 1..Len(NameSeq) |-> Append(p, NameSeq[i])],
              LAMBDA q : q \in Paths /\ t[q] # None)

IsDir(t, q) == t[q].type = "dir"
Begin(p) == <<[call |-> "begin", path |-> p]>>
End(p) == <<[call |-> "end", path |-> p]>>

\* zarManager.WalkDir (part_004): every entry that is not a directory is
\* included as a file (ReadFile follows a symlink); a directory is walked
\* where it is met.  The root is not marked.
RECURSIVE WalkDirZar(_, _, _)
WalkDirZar(t, p, root) ==
    LET kids == Kids(t, p)
        one(q) == IF IsDir(t, q) THEN WalkDirZar(t, q, FALSE)
                  ELSE <<[call |-> "file", path |-> q]>>
    IN  (IF root THEN <<>> ELSE Begin(p))
        \o FlattenSeq([i \in DOMAIN kids |-> one(kids[i])])
        \o (IF root THEN <<>> ELSE End(p))

\* Mutant: the ".." entry is emitted before the subdirectories are walked.
RECURSIVE WalkDirMutantEarlyEnd(_, _, _)
WalkDirMutantEarlyEnd(t, p, root) ==
    LET kids == Kids(t, p)
        files == SelectSeq(kids, LAMBDA q : ~IsDir(t, q))
        dirs == SelectSeq(kids, LAMBDA q : IsDir(t, q))
        call(q) == IF t[q].type = "symlink" THEN "symlink" ELSE "file"
    IN  (IF root THEN <<>> ELSE Begin(p))
        \o [i \in DOMAIN files |-> [call |-> call(files[i]), path |-> files[i]]]
        \o (IF root THEN <<>> ELSE End(p))
        \o FlattenSeq([i \in DOMAIN dirs |-> WalkDirMutantEarlyEnd(t, dirs[i], FALSE)])

\* ZarManager.WalkDir (manager.go): symlinks and files first, in ReadDir
\* order; the subdirectories are walked after them.
RECURSIVE WalkDir(_, _, _)
WalkDir(t, p, root) ==
    LET kids == Kids(t, p)
        files == SelectSeq(kids, LAMBDA q : ~IsDir(t, q))
        dirs == SelectSeq(kids, LAMBDA q : IsDir(t, q))
        call(q) == IF t[q].type = "symlink" THEN "symlink" ELSE "file"
    IN  (IF root THEN <<>> ELSE Begin(p))
        \o [i \in DOMAIN files |-> [call |-> call(files[i]), path |-> files[i]]]
        \o FlattenSeq([i \in DOMAIN dirs |-> WalkDir(t, dirs[i], FALSE)])
        \o (IF root THEN <<>> ELSE End(p))

Walk(t) == IF version = "zar" THEN WalkDirZar(t, <<>>, TRUE)
           ELSE WalkDir(t, <<>>, TRUE)

\* fileWriter.Write(data, pageAlign) of n bytes: the bytes, then the zero
\* padding to the next page boundary; returns the "real" end, before the
\* padding.
\* Mutant: the padding is the remainder instead of its complement.
PadMutant(n) == IF pageAlign THEN n % PageBoundary ELSE 0
Pad(n) == IF pageAlign THEN (PageBoundary - (n % PageBoundary)) % PageBoundary
          ELSE 0
\* Mutants: count misses the padding; the real end includes it.
WriteDataMutantCount(p, n) ==
    [img |-> LET d == Put(image, "data", n, p)
             IN  IF Pad(n) > 0 THEN Put(d, "pad", Pad(n), 0) ELSE d,
     count |-> count + n,
     realEnd |-> count + n]
WriteDataMutantEnd(p, n) ==
    [img |-> LET d == Put(image, "data", n, p)
             IN  IF Pad(n) > 0 THEN Put(d, "pad", Pad(n), 0) ELSE d,
     count |-> count + n + Pad(n),
     realEnd |-> count + n + Pad(n)]
WriteData(p, n) ==
    [img |-> LET d == Put(image, "data", n, p)
             IN  IF Pad(n) > 0 THEN Put(d, "pad", Pad(n), 0) ELSE d,
     count |-> count + n + Pad(n),
     realEnd |-> count + n]

\* fileType: RegularFile, Directory, Symlink.
FileTypes == {"file", "dir", "symlink"}

Meta(b, e, n, ty) == [begin |-> b, end |-> e, name |-> n, type |-> ty]

Init ==
    /\ version \in Versions
    /\ tree \in Trees
    /\ pageAlign \in BOOLEAN
    /\ calls = Walk(tree)
    /\ count = 0
    /\ image = <<>>
    /\ metadata = <<>>
    /\ filter = None
    /\ closed = FALSE
    /\ read = None
    /\ statistics = [NumFiles |-> 0, NumSymLinks |-> 0, NumDirs |-> 0]
    /\ kept = None
    /\ sticky = FALSE
    /\ fatal = FALSE

\* ImgStats.AddFile, AddSymLink and AddDir (stats.go).
AddFile(st) == [st EXCEPT !.NumFiles = @ + 1]
AddSymLink(st) == [st EXCEPT !.NumSymLinks = @ + 1]
AddDir(st) == [st EXCEPT !.NumDirs = @ + 1]

\* Only the manager's ZarManager keeps Statistics.
Tally(st) == statistics' = IF version = "manager" THEN st ELSE statistics

Calling(kind) == ~fatal /\ calls # <<>> /\ Head(calls).call = kind

\* IncludeFolderBegin(name): a Directory entry with Begin = End = -1.
IncludeFolderBegin ==
    /\ Calling("begin")
    /\ metadata' = Append(metadata, Meta(-1, -1, Name(Head(calls).path), "dir"))
    /\ calls' = Tail(calls)
    /\ Tally(AddDir(statistics))
    /\ UNCHANGED <<version, tree, pageAlign, count, image, filter, closed, read, faultVars>>

\* IncludeFolderEnd(): the ".." Directory entry that closes a directory.
IncludeFolderEnd ==
    /\ Calling("end")
    /\ metadata' = Append(metadata, Meta(-1, -1, "..", "dir"))
    /\ calls' = Tail(calls)
    /\ UNCHANGED <<version, tree, pageAlign, count, image, filter, closed, read, statistics,
                   faultVars>>

\* IncludeSymlink(name, link): a Symlink entry, no bytes written.
IncludeSymlink ==
    /\ Calling("symlink")
    /\ metadata' = Append(metadata, Meta(-1, -1, Name(Head(calls).path), "symlink"))
    /\ calls' = Tail(calls)
    /\ Tally(AddSymLink(statistics))
    /\ UNCHANGED <<version, tree, pageAlign, count, image, filter, closed, read, faultVars>>

\* The image file's writes begin to fail (the disk is full): what reached
\* the file stays there, and no later write reaches it.
DiskFull ==
    /\ WriteFaults /\ kept = None /\ ~closed /\ ~fatal
    /\ kept' = Len(image)
    /\ UNCHANGED <<version, tree, pageAlign, calls, count, image, metadata, filter, closed, read,
                   statistics, sticky, fatal>>

\* IncludeFile(fn, basedir): Write the content, then a RegularFile entry
\* from the old count to the real end.  The bufio.Writer returns the file's
\* write error from a Write that has to flush, and from every Write after
\* it; IncludeFile makes it fatal.
IncludeFile ==
    /\ Calling("file")
    /\ \E flushes \in BOOLEAN :
         IF kept # None /\ (sticky \/ flushes)
         THEN /\ fatal' = TRUE
              /\ sticky' = TRUE
              /\ UNCHANGED <<calls, count, image, metadata, statistics, kept>>
         ELSE /\ LET p == Head(calls).path
                     w == WriteData(p, tree[p].size)
                 IN  /\ image' = w.img
                     /\ count' = w.count
                     /\ metadata' = Append(metadata, Meta(count, w.realEnd, Name(p), "file"))
              /\ calls' = Tail(calls)
              /\ Tally(AddFile(statistics))
              /\ UNCHANGED faultVars
    /\ UNCHANGED <<version, tree, pageAlign, filter, closed, read>>

\* constructFilter (manager.go): a path string grown by "/name" at the
\* start of a directory, cut at its last "/" at "..", and path + "/" +
\* name added for every file and symlink.
\* Mutant: the ".." end marker is taken for a directory name.
FilterStepMutant(acc, m) ==
    CASE m.type \in {"file", "symlink"} ->
             [acc EXCEPT !.elems = @ \cup {Append(acc.path, m.name)}]
      [] OTHER -> [acc EXCEPT !.path = Append(@, m.name)]
FilterStep(acc, m) ==
    CASE m.type \in {"file", "symlink"} ->
             [acc EXCEPT !.elems = @ \cup {Append(acc.path, m.name)}]
      [] m.name = ".." -> [acc EXCEPT !.path = Front(@)]
      [] OTHER -> [acc EXCEPT !.path = Append(@, m.name)]
ConstructFilter(meta) ==
    FoldLeft(FilterStep, [path |-> <<>>, elems |-> {}], meta).elems

\* GenerateFilter (manager.go), once the walk is over: z.Filter.Initialize()
\* and constructFilter.  The filter is abstracted to the set of elements
\* added, so Initialize is taken to succeed; BloomFilter's own Initialize,
\* which GenerateFilter calls with NumElem never set, is the BloomFilter
\* module's.
GenerateFilter ==
    /\ version = "manager" /\ calls = <<>> /\ filter = None
    /\ ~fatal
    /\ filter' = ConstructFilter(metadata)
    /\ UNCHANGED <<version, tree, pageAlign, calls, count, image, metadata, closed, read, statistics,
                   faultVars>>

\* gob.Encoder.Encode(v) on the buffered writer, and the bytes of
\* fileWriter.WriteInt64(v): Write of the MaxVarintLen64-byte buffer, which
\* adds its length to count, then count += n once more.
PutGob(img, v) == Put(img, "gob", GobLen(v), v)
PutVarint(img, v) == Put(img, "varint", MaxVarintLen64, v)
Int64Count(c) == c + MaxVarintLen64 + MaxVarintLen64

\* WriteHeader: headerLoc = count; the metadata gob goes to the buffered
\* writer directly, without count; then WriteInt64(headerLoc).  The manager
\* then writes the FilterMetadata gob and WriteInt64(filterLoc), filterLoc
\* read from count; Close flushes.  The errors of Encode, WriteInt64 and
\* Flush are dropped; only f.Close's is fatal, and f.Close may report the
\* write error of a failing file.
WriteHeader ==
    /\ calls = <<>> /\ ~closed /\ ~fatal
    /\ version = "manager" => filter # None
    /\ LET headerLoc == count
           filterLoc == Int64Count(count)
           fm == [Active |-> TRUE, Name |-> "BloomFilter", Filter |-> filter]
       IN  IF version = "zar"
           THEN /\ image' = PutVarint(PutGob(image, metadata), headerLoc)
                /\ count' = Int64Count(count)
           ELSE /\ image' = PutVarint(PutGob(PutVarint(PutGob(image, metadata),
                                                          headerLoc), fm), filterLoc)
                /\ count' = Int64Count(filterLoc)
    /\ closed' = TRUE
    /\ sticky' = (kept # None)
    /\ fatal' \in IF kept # None THEN BOOLEAN ELSE {FALSE}
    /\ UNCHANGED <<version, tree, pageAlign, calls, metadata, filter, read, statistics, kept>>

\* The bytes [b, e) of the image: one whole record, or a "mixed" one.
Slice(img, b, e) ==
    IF \E i \in DOMAIN img : Offset(img, i) = b /\ img[i].len = e - b
    THEN LET i == CHOOSE i \in DOMAIN img : Offset(img, i) = b /\ img[i].len = e - b
         IN  img[i]
    ELSE [kind |-> "mixed", len |-> e - b, val |-> 0, at |-> b]

\* readImage (part_004) of the file: the last MaxVarintLen64 bytes give
\* headerLoc; the gob at headerLoc is decoded (a failure is fatal); each
\* entry whose Begin is not -1 is read back as mmap[Begin:End].  Bytes that
\* are not a header location are taken to fail to decode.
ReadImage ==
    /\ version = "zar" /\ closed /\ read = None
    /\ LET disk == OnDisk
           n == IF disk # <<>> /\ Last(disk).kind = "varint" THEN Last(disk).val ELSE -1
           at == {i \in DOMAIN disk : Offset(disk, i) = n /\ disk[i].kind = "gob"}
       IN  read' = IF at = {} THEN [ok |-> FALSE]
                   ELSE LET meta == disk[CHOOSE i \in at : TRUE].val
                        IN  [ok |-> TRUE, meta |-> meta,
                             files |-> [k \in {j \in DOMAIN meta : meta[j].begin # -1} |->
                                          Slice(disk, meta[k].begin, meta[k].end)]]
    /\ UNCHANGED <<version, tree, pageAlign, calls, count, image, metadata, filter, closed,
                   statistics, faultVars>>

Next ==
    \/ IncludeFolderBegin
    \/ IncludeFolderEnd
    \/ IncludeSymlink
    \/ IncludeFile
    \/ DiskFull
    \/ GenerateFilter
    \/ WriteHeader
    \/ ReadImage

Spec == Init /\ [][Next]_vars

-----------------------------------------------------------------------------

TypeOK ==
    /\ version \in Versions
    /\ pageAlign \in BOOLEAN
    /\ count \in Nat
    /\ \A i \in DOMAIN image :
          image[i].kind \in {"data", "pad", "gob", "varint"}
    /\ \A i \in DOMAIN metadata :
          metadata[i].type \in FileTypes
    /\ filter = None \/ filter \subseteq Paths
    /\ closed \in BOOLEAN
    /\ kept = None \/ kept \in 0..Len(image)
    /\ sticky \in BOOLEAN
    /\ fatal \in BOOLEAN

\* WriteHeader's promise ("the location of the beginning of the header is
\* written at the very end as an int64"), for the header: the first varint
\* of the image holds the offset of the metadata gob written just before
\* it.  It needs writer.count to equal the bytes the files and their
\* padding took, whatever their sizes and -pagealign.
HeaderLocationCorrect ==
    \A i \in DOMAIN image :
        (image[i].kind = "varint" /\ \A j \in 1..(i - 1) : image[j].kind # "varint") =>
            /\ i > 1 /\ image[i - 1].kind = "gob" /\ image[i - 1].val = metadata
            /\ image[i].val = Offset(image, i - 1)

\* The same for every location the image holds: every varint holds the
\* offset of the gob written just before it (the manager's filterLoc too).
LocationsCorrect ==
    \A i \in DOMAIN image :
        image[i].kind = "varint" =>
            /\ i > 1 /\ image[i - 1].kind = "gob"
            /\ image[i].val = Offset(image, i - 1)

\* readImage gives back what the writer was given: an image the file holds
\* whole is decoded, and whatever it decodes is the metadata that
\* IncludeFolderBegin/End and IncludeFile built, every file's
\* mmap[Begin:End] being exactly the bytes IncludeFile wrote for that name,
\* without the page padding.  A truncated image may fail to decode.
ReadBack ==
    read # None =>
        /\ OnDisk = image => read.ok
        /\ read.ok => read.meta = metadata
        /\ read.ok =>
           \A k \in DOMAIN read.files :
              /\ read.files[k].kind = "data"
              /\ Name(read.files[k].val) = metadata[k].name
              /\ read.files[k].len = tree[read.files[k].val].size

\* With -pagealign every file's bytes start at a page boundary.
Aligned ==
    pageAlign =>
        \A i \in DOMAIN image :
            image[i].kind = "data" => Offset(image, i) % PageBoundary = 0

\* constructFilter, run over the metadata WalkDir produced, adds exactly the
\* path of every regular file and symlink of the walked tree.
FilterHasEveryFile ==
    filter # None =>
        filter = {p \in Paths : tree[p] # None /\ tree[p].type \in {"file", "symlink"}}

\* ImgStats as stats.go documents it: once the manager's walk is over,
\* NumFiles is the number of files "(Include symbolic links)", NumSymLinks
\* the number of symlinks and NumDirs the number of directories below the
\* root.  TestFilterConstruction expects NumFiles 2 for a tree of one
\* regular file and one symlink.
StatsMatchTree ==
    version = "manager" /\ calls = <<>> =>
        LET Kind(ty) == Cardinality({p \in Paths \ {<<>>} : tree[p] # None /\ tree[p].type = ty})
        IN  statistics = [NumFiles |-> Kind("file") + Kind("symlink"),
                          NumSymLinks |-> Kind("symlink"), NumDirs |-> Kind("dir")]

\* WriteHeader's promise ("the location of the beginning of the header is
\* written at the very end"): when the generator returns without
\* log.Fatalf, the image file holds every record it wrote, the header
\* location last.
CompleteOnSuccess ==
    closed /\ ~fatal => OnDisk = image

====
