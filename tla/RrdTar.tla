------------------------------- MODULE RrdTar -------------------------------
(***************************************************************************)
(* rrd_archive_create(): the gzipped tar file of an output directory.      *)
(* Commands of the report that run in the background may still write into  *)
(* the directory while it is archived, so files change size between        *)
(* lstat(), which fills the header, and read(), which fills the body.      *)
(*                                                                         *)
(* The file is a sequence of bytes in blocks of Block (512 in the code); a *)
(* byte is one of a header, one of a file, known by its place, or zero.  A *)
(* name counts only by its length.  gzwrite() fails for good once it has   *)
(* failed; what is flushed by gzclose() can be lost without notice.        *)
(***************************************************************************)
EXTENDS Integers, Sequences, FiniteSets, SequencesExt

CONSTANTS
  Root,        \* the source directory
  Children,    \* the entries of each directory, symbolic links and devices too
  RegFile,     \* the regular files among them
  NameLens,    \* bound: the lengths their names may have in the archive
  Block,       \* bytes in a block (512)
  NameField,   \* bytes of the name field of a header (100)
  MaxName,     \* the longest name a header takes (255)
  DirSize,     \* what lstat() says of the size of a directory
  MaxSize,     \* bound: bytes in a file
  MaxChange    \* bound: changes to files during one archive

Dir == DOMAIN Children
Entry == UNION {Children[d] : d \in Dir}

\* A tree: an entry is in one directory, and all can be reached from the root.
ASSUME TarAssumption ==
  /\ Root \in Dir /\ Root \notin Entry
  /\ \A d, e \in Dir : d # e => Children[d] \intersect Children[e] = {}
  /\ \A S \in SUBSET (Dir \union Entry) :
       Root \in S /\ (\A d \in S \intersect Dir : Children[d] \subseteq S) => S = Dir \union Entry
  /\ RegFile \subseteq Entry \ Dir
  /\ NameLens \subseteq [Entry \union {Root} -> Nat]
  /\ Block \in Nat \ {0} /\ NameField \in Nat /\ MaxName \in Nat
  /\ DirSize \in Nat /\ MaxSize \in Nat /\ MaxChange \in Nat

VARIABLES
  tarStep,    \* what archive_path_recursive() does next
  stack,      \* its calls: the directory of each and the entries still to come
  nameLen,    \* the length of the name of each entry
  size,       \* the size of every file now
  changes,    \* changes made to files
  file,       \* the file whose body is being written
  statted,    \* st_size of every file lstat() was called on
  off,        \* bytes of the current file read
  stream,     \* what was given to gzwrite()
  onDisk,     \* what reached the file, once it is closed
  disturbed,  \* history: what happened that the caller is not told of
  rc, tarResult

tarVars == <<tarStep, stack, nameLen, size, changes, file, statted, off, stream, onDisk, disturbed,
             rc, tarResult>>
fsVars == <<nameLen, size, changes>>

Zeros(n) == [k \in 1..n |-> <<"zero">>]
HeaderBytes(h) == [k \in 1..Block |-> <<"header", h, k>>]
FileBytes(f, a, b) == [k \in 1..(b - a) |-> <<"file", f, a + k>>]

\* The bytes that fill the last block of n bytes.
Padding(n) == (Block - (n % Block)) % Block

TarInit ==
  /\ tarStep = "open" /\ stack = <<>>
  /\ nameLen \in NameLens
  /\ size \in [RegFile -> 0..MaxSize] /\ changes = 0
  /\ file = (CHOOSE f \in RegFile : TRUE)
  /\ statted = [f \in RegFile |-> 0] /\ off = 0
  /\ stream = <<>> /\ onDisk = <<>> /\ disturbed = {}
  /\ rc = 0 /\ tarResult = "none"
-----------------------------------------------------------------------------
\* The other writers of the directory: a file becomes longer, or empty.
ChangeFile(f) ==
  /\ tarStep \notin {"open", "closed"}
  /\ changes < MaxChange
  /\ changes' = changes + 1
  /\ \/ size[f] < MaxSize /\ size' = [size EXCEPT ![f] = @ + 1]
     \/ size[f] > 0 /\ size' = [size EXCEPT ![f] = 0]
  /\ UNCHANGED <<tarStep, stack, nameLen, file, statted, off, stream, onDisk, disturbed, rc,
                 tarResult>>

\* The name an entry has in its header: a longer one than the field loses
\* characters, and at the boundary the last one.
HeaderName(e) == IF nameLen[e] < NameField THEN <<"whole", e>> ELSE <<"cut", e>>
Header(e, type, n) == [name |-> HeaderName(e), type |-> type, size |-> n]

\* write_tar_header(): refuses only a name no header takes.
WriteHeader(e, type, n) ==
  /\ nameLen[e] <= MaxName
  /\ stream' = stream \o HeaderBytes(Header(e, type, n))

CutNames(e) == IF nameLen[e] < NameField THEN {} ELSE {"name"}

\* gzopen() and lstat() of the source succeed; the contents of the directory
\* are archived, its own name is not.
OpenArchive ==
  /\ tarStep = "open"
  /\ stack' = <<[dir |-> Root, todo |-> Children[Root]]>>
  /\ tarStep' = "scan"
  /\ UNCHANGED <<fsVars, file, statted, off, stream, onDisk, disturbed, rc, tarResult>>

OpenArchiveFails ==
  /\ tarStep = "open"
  /\ tarStep' = "closed" /\ tarResult' = "-2"
  /\ UNCHANGED <<stack, fsVars, file, statted, off, stream, onDisk, disturbed, rc>>

Todo == stack[Len(stack)].todo

\* The calls after readdir() returned e.
Visited(e) == [stack EXCEPT ![Len(stack)].todo = @ \ {e}]

\* A directory: its header, then its own entries.
EnterDir(e) ==
  /\ tarStep = "scan" /\ stack # <<>> /\ e \in Todo \intersect Dir
  /\ WriteHeader(e, "5", 0)
  /\ stack' = Append(Visited(e), [dir |-> e, todo |-> Children[e]])
  /\ disturbed' = disturbed \union CutNames(e)
  /\ UNCHANGED <<tarStep, fsVars, file, statted, off, onDisk, rc, tarResult>>

\* opendir() fails: the directory is taken for a file, and gets a file's
\* header with the size lstat() gives, but no body.
OpendirFails ==
  /\ tarStep = "scan" /\ stack # <<>>
  /\ LET d == stack[Len(stack)].dir
     IN /\ Todo = Children[d]
        /\ WriteHeader(d, "0", DirSize)
  /\ stack' = Front(stack)
  /\ disturbed' = disturbed \union {"opendir"}
  /\ UNCHANGED <<tarStep, fsVars, file, statted, off, onDisk, rc, tarResult>>

\* A regular file: its header, with the size it has now.
StartFile(e) ==
  /\ tarStep = "scan" /\ stack # <<>> /\ e \in Todo \intersect RegFile
  /\ WriteHeader(e, "0", size[e])
  /\ file' = e /\ statted' = [statted EXCEPT ![e] = size[e]] /\ off' = 0
  /\ stack' = Visited(e)
  /\ disturbed' = disturbed \union CutNames(e)
  /\ tarStep' = "body"
  /\ UNCHANGED <<fsVars, onDisk, rc, tarResult>>

SkipSpecial(e) ==
  /\ tarStep = "scan" /\ stack # <<>> /\ e \in Todo \ (Dir \union RegFile)
  /\ stack' = Visited(e)
  /\ UNCHANGED <<tarStep, fsVars, file, statted, off, stream, onDisk, disturbed, rc, tarResult>>

\* One read() of the loop; it goes on until the end of the file, wherever
\* that is by then.
ReadChunk ==
  /\ tarStep = "body" /\ off < size[file]
  /\ stream' = stream \o FileBytes(file, off, size[file])
  /\ off' = size[file]
  /\ UNCHANGED <<tarStep, stack, fsVars, file, statted, onDisk, disturbed, rc, tarResult>>

\* Mutant: the last block of a body is not filled.
PadFileNot ==
  /\ tarStep = "body" /\ off >= size[file]
  /\ disturbed' = disturbed \union (IF off = statted[file] THEN {} ELSE {"size"})
  /\ tarStep' = "scan"
  /\ UNCHANGED <<stack, fsVars, file, statted, off, stream, onDisk, rc, tarResult>>

\* End of file: the padding is that of the size in the header.
PadFile ==
  /\ tarStep = "body" /\ off >= size[file]
  /\ stream' = stream \o Zeros(Padding(statted[file]))
  /\ disturbed' = disturbed \union (IF off = statted[file] THEN {} ELSE {"size"})
  /\ tarStep' = "scan"
  /\ UNCHANGED <<stack, fsVars, file, statted, off, onDisk, rc, tarResult>>

LeaveDir ==
  /\ tarStep = "scan" /\ stack # <<>> /\ Todo = {}
  /\ stack' = Front(stack)
  /\ UNCHANGED <<tarStep, fsVars, file, statted, off, stream, onDisk, disturbed, rc, tarResult>>

\* Mutant: an archive that failed is ended like a good one.
WalkFailsEnded ==
  /\ tarStep = "body" \/ (tarStep = "scan" /\ stack # <<>>)
  /\ rc' = -1
  /\ stream' = stream \o Zeros(2 * Block)
  /\ tarStep' = "close"
  /\ UNCHANGED <<stack, fsVars, file, statted, off, onDisk, disturbed, tarResult>>

\* lstat(), open(), read(), malloc() or gzwrite() fails, or a name is too
\* long: all calls return -1 and the end of the archive is not written.
WalkFails ==
  /\ tarStep = "body" \/ (tarStep = "scan" /\ stack # <<>>)
  /\ rc' = -1
  /\ tarStep' = "close"
  /\ UNCHANGED <<stack, fsVars, file, statted, off, stream, onDisk, disturbed, tarResult>>

\* The two zero blocks, or as many as gzwrite() takes.
EndArchive(n) ==
  /\ tarStep = "scan" /\ stack = <<>>
  /\ stream' = stream \o Zeros(n * Block)
  /\ rc' = IF n = 2 THEN 0 ELSE -1
  /\ tarStep' = "close"
  /\ UNCHANGED <<stack, fsVars, file, statted, off, onDisk, disturbed, tarResult>>

\* gzclose(), whose result is ignored, writes what is left of the stream.
\* The file is looked at only for being empty, which it is if not even the
\* header gzip puts before the stream got there.
CloseArchive(n) ==
  /\ tarStep = "close"
  /\ onDisk' = SubSeq(stream, 1, n)
  /\ disturbed' = disturbed \union (IF n = Len(stream) THEN {} ELSE {"flush"})
  /\ tarResult' \in {IF rc = 0 THEN "0" ELSE "-2"} \union (IF n = 0 THEN {"-3"} ELSE {})
  /\ tarStep' = "closed"
  /\ UNCHANGED <<stack, fsVars, file, statted, off, stream, rc>>

TarNext ==
  \/ \E f \in RegFile : ChangeFile(f)
  \/ OpenArchive \/ OpenArchiveFails
  \/ \E e \in Entry : EnterDir(e) \/ StartFile(e) \/ SkipSpecial(e)
  \/ OpendirFails \/ ReadChunk \/ PadFile \/ LeaveDir \/ WalkFails
  \/ \E n \in 0..2 : EndArchive(n)
  \/ \E n \in {0, Len(stream) \div 2, Len(stream)} : CloseArchive(n)

TarSpec == TarInit /\ [][TarNext]_tarVars
-----------------------------------------------------------------------------
(***************************************************************************)
(* What a reader of the format makes of the file.                          *)
(***************************************************************************)
BlockAt(s, p) == SubSeq(s, p + 1, p + Block)
IsHeader(b) == b[1][1] = "header" /\ b = HeaderBytes(b[1][2])
HeaderAt(s, p) == p + Block <= Len(s) /\ IsHeader(BlockAt(s, p))

\* The entry whose header is at p, and the place behind it.
ItemAt(s, p) ==
  LET h == BlockAt(s, p)[1][2]
  IN [name |-> h.name, type |-> h.type, body |-> SubSeq(s, p + Block + 1, p + Block + h.size)]
NextAt(s, p) ==
  LET h == BlockAt(s, p)[1][2] IN p + Block + h.size + Padding(h.size)

EndAt(s, p) ==
  p + 2 * Block <= Len(s) /\ SubSeq(s, p + 1, p + 2 * Block) = Zeros(2 * Block)

\* The entries of s with their bodies, then "end"; "torn" where the file
\* stops or is no archive.
Extract(s) ==
  LET from[p \in 0..Len(s)] ==
        IF HeaderAt(s, p) /\ NextAt(s, p) <= Len(s) THEN <<ItemAt(s, p)>> \o from[NextAt(s, p)]
        ELSE IF EndAt(s, p) THEN <<"end">>
        ELSE <<"torn">>
  IN from[0]

Complete(s) == Last(Extract(s)) = "end"

\* What was in the directory, as the commands left it.
Expected ==
  {[name |-> <<"whole", f>>, type |-> "0", body |-> FileBytes(f, 0, statted[f])] : f \in RegFile}
  \union {[name |-> <<"whole", d>>, type |-> "5", body |-> <<>>] : d \in Dir \ {Root}}

\* An archive rrd_archive_create() calls good gives every file and directory
\* back, once, unless a file changed its size while it was archived, a name
\* did not fit its field, a directory could not be opened or closing the file
\* lost data: four things the result 0 does not rule out.
GoodArchiveRestores ==
  tarResult = "0" /\ disturbed = {} =>
    LET x == Extract(onDisk)
    IN /\ Last(x) = "end"
       /\ ToSet(Front(x)) = Expected
       /\ Len(x) = Cardinality(Expected) + 1

\* The other way round: what rrd_archive_create() calls a failure never reads
\* as a complete archive, so a leftover of it cannot be taken for a report.
FailedArchiveTorn == tarResult \in {"-2", "-3"} => ~Complete(onDisk)
=============================================================================
