---------------------------- MODULE WorkItemFiles ----------------------------
(***************************************************************************)
(* The folder explorer of the dashboard: the tree of a work item as it     *)
(* stands on disk, the two files it flags, and the reading of one file of  *)
(* it while the runner keeps writing.  Source:                             *)
(* src/dashboard/read-model/explorer.ts.                                   *)
(*                                                                         *)
(* A path is a sequence of names from a root.  Two roots exist: the work   *)
(* item, and the run directory when it was moved out of it.  A size is one *)
(* of "small", "text" (past the cap of a text), "image" (past the cap of   *)
(* an image shown in the page) and "huge" (past every cap).  What a name   *)
(* tells - its rank in the listing, its extension, a leading dot - is      *)
(* given by constants.                                                     *)
(***************************************************************************)
EXTENDS Naturals, Sequences, FiniteSets, SequencesExt

CONSTANTS Nodes,        \* the entries that may exist: [path, kind, target]
          NameOrder,    \* every name, in the order of localeCompare
          DotNames, Images,
          MaxEntries, MaxDepth, MaxChanges,
          RunPlaces,    \* where the run directory may be
          Stops         \* what a run may have ended on

ExplorerAssumption ==
  /\ MaxEntries \in Nat /\ MaxDepth \in Nat /\ MaxChanges \in Nat
  /\ \A n \in Nodes : n.kind \in {"dir", "file", "link"}

VARIABLES disk, size, run, tree, answer, changes

vars == <<disk, size, run, tree, answer, changes>>

None == <<>>
Item == <<"item">>
RunPrefix == <<"run">>
Sizes == {"small", "text", "image", "huge"}
Artifacts == <<"artifacts">>

At(path) == {n \in disk : n.path = path}
IsFile(path) == \E n \in At(path) : n.kind = "file"
Exists(path) == path \in {Item, run.dir} \/ At(path) # {}

(***************************************************************************)
(* Paths.                                                                  *)
(***************************************************************************)
IsPathWithin(root, path) == IsPrefix(root, path)
RunDirOutside == ~IsPathWithin(Item, run.dir)
Rest(root, path) == SubSeq(path, Len(root) + 1, Len(path))

\* The path a node has in the tree: under its root, with the prefix that
\* names the second root.
SlipTreePath(root, path, prefix) == Rest(root, path)
TreePath(root, path, prefix) == prefix \o Rest(root, path)

IsSafeRelativePath(path) == path # <<>> /\ \A i \in DOMAIN path : path[i] # ".."

\* The real path behind a path: one link on the way is followed.
LinksOn(path) == {n \in disk : n.kind = "link" /\ IsPathWithin(n.path, path)}
RealPath(path) ==
  IF LinksOn(path) = {} THEN path
  ELSE LET link == CHOOSE n \in LinksOn(path) : \A m \in LinksOn(path) : Len(n.path) <= Len(m.path)
       IN  link.target \o Rest(link.path, path)

(***************************************************************************)
(* The walk: sections in reading order, then directories, then names; dot  *)
(* entries and links are skipped whole; a budget bounds the listing.       *)
(***************************************************************************)
SectionOrder == <<"artifacts", "reports", "decisions", "runs">>
Position(seq, x) == IF \E i \in DOMAIN seq : seq[i] = x THEN CHOOSE i \in DOMAIN seq : seq[i] = x ELSE Len(seq) + 1
SlipSectionRank(name) == IF name \in ToSet(SectionOrder) THEN Position(SectionOrder, name) ELSE 0
SectionRank(name) == Position(SectionOrder, name)

Children(dir) ==
  {n \in disk : /\ Len(n.path) = Len(dir) + 1 /\ IsPathWithin(dir, n.path)
                /\ n.kind # "link" /\ Last(n.path) \notin DotNames}

Before(a, b, depth) ==
  LET rank(n) == IF depth = 0 THEN SectionRank(Last(n.path)) ELSE 0
      kind(n) == IF n.kind = "dir" THEN 0 ELSE 1
      name(n) == Position(NameOrder, Last(n.path))
  IN  \/ rank(a) < rank(b)
      \/ rank(a) = rank(b) /\ kind(a) < kind(b)
      \/ rank(a) = rank(b) /\ kind(a) = kind(b) /\ name(a) < name(b)

RECURSIVE Walk(_, _, _)
\* [files, left]: the paths listed and the budget left.
Walk(dir, depth, left) ==
  IF depth > MaxDepth \/ left = 0 THEN [files |-> <<>>, left |-> left]
  ELSE FoldLeft(
    LAMBDA acc, n :
      IF acc.left = 0 THEN acc
      ELSE IF n.kind = "file" THEN [files |-> Append(acc.files, n.path), left |-> acc.left - 1]
      ELSE LET below == Walk(n.path, depth + 1, acc.left - 1)
           IN  [files |-> acc.files \o below.files, left |-> below.left],
    [files |-> <<>>, left |-> left],
    SetToSortSeq(Children(dir), LAMBDA a, b : Before(a, b, depth)))

(***************************************************************************)
(* The tree and its two flags.                                             *)
(***************************************************************************)
\* The artifact the pending gate is about: recorded by the stop, else locked
\* by the decision, else found by the naming the gates follow.
ByName(subject, extensions) ==
  LET found == SelectSeq(extensions, LAMBDA e : IsFile(Item \o Artifacts \o <<subject \o e>>))
  IN  IF found = <<>> THEN None ELSE Artifacts \o <<subject \o found[1]>>

GateArtifactPath(stop) ==
  IF stop.recorded # None /\ IsFile(Item \o stop.recorded) THEN stop.recorded
  ELSE IF stop.subject = "" THEN None
  ELSE IF stop.decision # None /\ IsFile(Item \o stop.decision) THEN stop.decision
  ELSE ByName(stop.subject, <<".md", ".json">>)

\* Where the tree shows the snapshot of the run.
SlipRunTreePath(inRun) == TreePath(Item, run.dir, <<>>) \o inRun
RunTreePath(inRun) == IF RunDirOutside THEN RunPrefix \o inRun ELSE TreePath(Item, run.dir, <<>>) \o inRun

Listed ==
  LET inItem == Walk(Item, 0, MaxEntries)
      inRun == IF RunDirOutside THEN Walk(run.dir, 1, inItem.left) ELSE [files |-> <<>>, left |-> 0]
  IN  {[path |-> TreePath(Item, f, <<>>), real |-> f] : f \in ToSet(inItem.files)}
      \cup {[path |-> TreePath(run.dir, f, RunPrefix), real |-> f] : f \in ToSet(inRun.files)}

SlipFindFile(files, path) == IF files # {} THEN path ELSE None
FindFile(files, path) == IF \E f \in files : f.path = path THEN path ELSE None

ReadTree ==
  LET files == Listed
      gate == IF run.status = "stopped" THEN FindFile(files, GateArtifactPath(run.stop)) ELSE None
      fallback == IF run.status = "failed" THEN FindFile(files, RunTreePath(<<"state.json">>)) ELSE None
  IN  [files |-> files, gate |-> gate, default |-> IF gate # None THEN gate ELSE fallback,
       dir |-> run.dir, status |-> run.status, stop |-> run.stop]

(***************************************************************************)
(* Reading one file by the path the tree gave.                             *)
(***************************************************************************)
Refused(status) == [status |-> status, real |-> None]

SlipInside(root, real) == TRUE
Inside(root, real) == IsPathWithin(RealPath(root), real)

Locate(path) ==
  LET underRun == RunDirOutside /\ path # <<>> /\ path[1] = RunPrefix[1]
      root == IF underRun THEN run.dir ELSE Item
      candidate == root \o (IF underRun THEN Tail(path) ELSE path)
      real == RealPath(candidate)
  IN  IF ~IsSafeRelativePath(path) THEN Refused("denied")
      ELSE IF ~Exists(real) THEN Refused("not-found")
      ELSE IF ~Inside(root, real) THEN Refused("denied")
      ELSE IF ~IsFile(real) THEN Refused("not-found")
      ELSE [status |-> "ok", real |-> real]

IsImage(path) == Last(path) \in Images
TooLarge(path, bytes) == bytes = "huge" \/ bytes = "image" \/ (bytes = "text" /\ ~IsImage(path))

\* The whole file inline, or the path to open it on the disk.
ReadFile(path) ==
  LET at == Locate(path)
  IN  IF at.status # "ok" THEN at
      ELSE IF TooLarge(at.real, size[at.real]) THEN [at EXCEPT !.status = "too-large"] ELSE at

\* The bytes of an image, whose cap is higher.
ReadImage(path) ==
  LET at == Locate(path)
  IN  IF at.status # "ok" THEN at
      ELSE IF ~IsImage(at.real) \/ size[at.real] = "huge" THEN Refused("denied") ELSE at

(***************************************************************************)
(* A reader, and a runner that writes meanwhile.                           *)
(***************************************************************************)
Whole(nodes) == \A n \in nodes : Len(n.path) > 2 =>
  \E m \in nodes : m.kind = "dir" /\ m.path = SubSeq(n.path, 1, Len(n.path) - 1)

NoTree == [files |-> {}, gate |-> None, default |-> None, dir |-> None, status |-> "none", stop |-> [recorded |-> None, decision |-> None, subject |-> ""]]
NoAnswer == [asked |-> None, status |-> "none", real |-> None, of |-> None]

Init ==
  /\ disk \in {nodes \in SUBSET Nodes : Whole(nodes)}
  /\ size = [n \in {m.path : m \in Nodes} |-> "small"]
  /\ run \in [dir : RunPlaces, status : {"running", "stopped", "failed"}, stop : Stops]
  /\ tree = NoTree /\ answer = NoAnswer /\ changes = 0

Change == changes < MaxChanges /\ changes' = changes + 1

Unlink(n) ==
  /\ Change /\ n \in disk
  /\ disk' = {m \in disk : ~IsPathWithin(n.path, m.path)}
  /\ UNCHANGED <<size, run, tree, answer>>

Create(n) ==
  /\ Change /\ n \notin disk /\ Whole(disk \cup {n})
  /\ disk' = disk \cup {n}
  /\ UNCHANGED <<size, run, tree, answer>>

Grow(n, bytes) ==
  /\ Change /\ n \in disk /\ n.kind = "file"
  /\ size' = [size EXCEPT ![n.path] = bytes]
  /\ UNCHANGED <<disk, run, tree, answer>>

\* The run goes on: it fails, stops, is resumed.
Move(status) ==
  /\ Change /\ run.status # status
  /\ run' = [run EXCEPT !.status = status]
  /\ UNCHANGED <<disk, size, tree, answer>>

List ==
  /\ tree' = ReadTree /\ answer' = NoAnswer
  /\ UNCHANGED <<disk, size, run, changes>>

\* A file the tree listed; a report names images by path too.
Open(file, image) ==
  LET read == IF image THEN ReadImage(file.path) ELSE ReadFile(file.path)
  IN  /\ file \in tree.files
      /\ answer' = [asked |-> file.real, status |-> read.status, real |-> read.real,
                    of |-> IF image THEN <<"image">> ELSE <<"file">>]
      /\ UNCHANGED <<disk, size, run, tree, changes>>

\* A path a page was given elsewhere: a report, a link, an address.
Follow(n) ==
  LET path == Rest(Item, n.path)
      read == ReadFile(path)
  IN  /\ IsPathWithin(Item, n.path) /\ tree # NoTree
      /\ answer' = [asked |-> None, status |-> read.status, real |-> read.real, of |-> <<"address">>]
      /\ UNCHANGED <<disk, size, run, tree, changes>>

Next ==
  \/ \E n \in Nodes : Unlink(n) \/ Create(n)
  \/ \E n \in Nodes, bytes \in Sizes : Grow(n, bytes)
  \/ \E s \in {"running", "stopped", "failed"} : Move(s)
  \/ List
  \/ \E f \in tree.files, image \in BOOLEAN : Open(f, image)
  \/ \E n \in Nodes : Follow(n)

Spec == Init /\ [][Next]_vars

----------------------------------------------------------------------------
InTree(path) == \E f \in tree.files : f.path = path
Truncated == Cardinality({n \in disk : IsPathWithin(Item, n.path)}) + Cardinality(disk) >= MaxEntries

\* Shape of the state; what the tree flags is what the tree lists.
TypeOK ==
  /\ disk \subseteq Nodes /\ changes \in 0..MaxChanges
  /\ tree.gate # None => InTree(tree.gate)
  /\ tree.default # None => InTree(tree.default)
  /\ Cardinality(tree.files) <= MaxEntries
  /\ answer.status \in {"none", "ok", "too-large", "not-found", "denied"}

\* The path the tree gives comes back to the very file it listed, in either
\* root: opening it later reads that file or reports it gone, and is never
\* answered with another file nor refused (unless an image is asked of it).
OpenedIsListed ==
  answer.of = <<"file">> =>
    IF answer.status \in {"ok", "too-large"} THEN answer.real = answer.asked
    ELSE answer.status = "not-found" /\ changes > 0

\* Whatever path a page was given, the file it reads is under the work item,
\* or under the run directory when that one sits outside.
ReadsStayInside ==
  answer.real # None => IsPathWithin(Item, answer.real) \/ IsPathWithin(run.dir, answer.real)

\* A failed run leads to its snapshot, where the reason of a technical
\* failure is written, wherever its directory is, as long as the listing was
\* not cut short and the snapshot exists.
FailureIsDiagnosable ==
  (answer = NoAnswer /\ tree # NoTree /\ tree.status = "failed" /\ changes = 0 /\ ~Truncated
     /\ IsFile(tree.dir \o <<"state.json">>))
    => \E f \in tree.files : f.path = tree.default /\ f.real = tree.dir \o <<"state.json">>

\* A tree that grew past its cap still shows the artifact a gate waits on:
\* the artifacts are listed before the reports and the runs.
GateSurvivesTruncation ==
  (/\ tree # NoTree /\ tree.status = "stopped" /\ changes = 0
   /\ tree.stop.recorded # None /\ IsFile(Item \o tree.stop.recorded)
   /\ Cardinality({n \in disk : IsPathWithin(Item \o Artifacts, n.path)}) <= MaxEntries)
    => tree.gate = tree.stop.recorded

\* When nothing answers, no file is flagged rather than the wrong one: a stop
\* that names its artifact flags that one or none.
NeverTheWrongGate ==
  (tree.gate # None /\ tree.stop.recorded # None) => tree.gate = tree.stop.recorded
=============================================================================
