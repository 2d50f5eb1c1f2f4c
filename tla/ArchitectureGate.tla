-------------------------- MODULE ArchitectureGate --------------------------
(***************************************************************************)
(* The architecture gate of the repository: the contexts, levels and       *)
(* modules of scripts/layers.cjs, the import rules .dependency-cruiser.cjs *)
(* builds from them, and scripts/check-deps.mjs, which compares what the   *)
(* rules find with two baselines edited by hand.                           *)
(*                                                                         *)
(* A file is a record of what the patterns of layers.cjs make of its path. *)
(* The tree is the set of files and the imports between them; dates and    *)
(* reasons of a baseline entry come down to whether it is argued.          *)
(***************************************************************************)
EXTENDS Naturals, FiniteSets

CONSTANTS File,        \* records [name, contexts, levels, folder, modules, opens]
          Candidates,  \* the imports a developer may write, pairs of files
          Moves        \* which of "tree", "file", "hand" and "write" happen

GateAssumption == Candidates \subseteq File \X File /\ Moves \subseteq {"tree", "file", "hand", "write"}

VARIABLES
  present,     \* the files of the tree
  imports,     \* the imports between them
  baseline,    \* [exists, entries]: the known violations, each argued or not
  cycles,      \* the known cyclic folder edges, each argued or not
  verdict,     \* what the last gate said of this very tree and baseline, or "none"
  written      \* the baseline is what the last --write-baseline made of this tree

vars == <<present, imports, baseline, cycles, verdict, written>>

---------------------------------------------------------------------------
(* The rules.                                                              *)

Contexts == {"entry", "dashboard", "execution", "agents", "definition", "run", "work-items", "shared"}

(* Slip: a definition may look at a run.                                   *)
MayImportWide(c) ==
  CASE c = "entry" -> Contexts
    [] c = "definition" -> {"work-items", "shared", "run"}
    [] c = "run" -> {"definition", "shared"}
    [] OTHER -> {"shared"}

MayImport(c) ==
  CASE c = "entry" -> Contexts
    [] c = "dashboard" -> {"run", "work-items", "definition", "shared"}
    [] c = "execution" -> {"definition", "run", "work-items", "shared"}
    [] c = "agents" -> {"shared"}
    [] c = "definition" -> {"work-items", "shared"}
    [] c = "run" -> {"definition", "shared"}
    [] c = "work-items" -> {"shared"}
    [] c = "shared" -> {}

Facades == {"agents", "dashboard", "definition", "execution", "run", "work-items"}
Modules == Facades \union {"ui", "read-model", "dashboard-home", "work-item", "extractors", "step",
                           "work-item-store", "run-stats", "run-record"}

Kinds == {"direction", "no-upward", "no-circular"}
Rules == {[kind |-> k, of |-> "all"] : k \in Kinds}
         \union {[kind |-> "entry-only", of |-> m] : m \in Modules}
         \union {[kind |-> "no-own-facade", of |-> m] : m \in Facades}

Graph(edges, Nodes) == INSTANCE Components WITH Node <- Nodes, component <- <<>>

AgainstDirection(f, g) == \E c \in f.contexts, d \in g.contexts : c # d /\ d \notin MayImport(c)

Breaks(r, f, g) ==
  CASE r.kind = "direction"     -> AgainstDirection(f, g)
    [] r.kind = "no-upward"     -> \E i \in f.levels, j \in g.levels : j > i
    [] r.kind = "no-circular"   -> Graph(imports, File)!Reaches(g, f)
    [] r.kind = "entry-only"    -> r.of \in g.modules \ f.modules /\ r.of \notin g.opens
    [] r.kind = "no-own-facade" -> r.of \in f.modules /\ r.of \in g.opens

(* What the cruise reports of the tree: rule, file, file.                  *)
Observed ==
  {[rule |-> x[1], from |-> x[2][1].name, to |-> x[2][2].name] :
     x \in {y \in Rules \X imports : Breaks(y[1], y[2][1], y[2][2])}}

Folders == {f.folder : f \in File}
FolderEdges == {<<e[1].folder, e[2].folder>> : e \in {x \in imports : x[1].folder # x[2].folder}}
CyclicFolderEdges == {e \in FolderEdges : Graph(FolderEdges, Folders)!Reaches(e[2], e[1])}

---------------------------------------------------------------------------
(* The gate.                                                               *)

Argued(edge) == [edge |-> edge, argued |-> TRUE]
Bare(edge)   == [edge |-> edge, argued |-> FALSE]
Edges(entries) == {x.edge : x \in entries}
Justified(entries) == \A x \in entries : x.argued
PastEntries(edges) == {v \in edges : v.rule.kind = "entry-only"}

(* Every file in one context, those of shared in one level, and every      *)
(* module with an entry that exists.                                       *)
Classified ==
  \A f \in present :
    /\ Cardinality(f.contexts) = 1
    /\ Cardinality(f.levels) <= 1
    /\ "shared" \in f.contexts => f.levels # {}
EntriesExist == \A f \in File : f.opens # {} => f \in present

(* Slip: an entry of the baseline that no edge matches is not looked for.  *)
FileBaselineOneWay ==
  /\ Justified(baseline.entries) /\ PastEntries(Edges(baseline.entries)) = {}
  /\ Observed \subseteq Edges(baseline.entries)

(* Slip: an argued list is not compared with the tree.                     *)
FileBaselineArgued == Justified(baseline.entries) /\ PastEntries(Edges(baseline.entries)) = {}

(* Slip: an argued list of folder edges is not compared with the tree.     *)
FolderBaselineArgued == Justified(cycles)

(* Both comparisons go both ways: nothing new, nothing stale.              *)
FileBaselineHolds ==
  /\ Justified(baseline.entries) /\ PastEntries(Edges(baseline.entries)) = {}
  /\ Observed = Edges(baseline.entries)

FolderBaselineHolds == Justified(cycles) /\ CyclicFolderEdges = Edges(cycles)

Gate ==
  /\ verdict = "none"
  /\ verdict' = IF Classified /\ EntriesExist /\ FileBaselineHolds /\ FolderBaselineHolds THEN "pass" ELSE "fail"
  /\ UNCHANGED <<present, imports, baseline, cycles, written>>

Known(edge) == {x \in baseline.entries : x.edge = edge}

(* Slip: the list is written anew.                                         *)
WriteBaselineAnew ==
  /\ "write" \in Moves /\ Classified /\ EntriesExist
  /\ ~(baseline.exists /\ baseline.entries = {})
  /\ PastEntries(Observed) = {}
  /\ baseline' = [exists |-> TRUE, entries |-> {Bare(v) : v \in Observed}]
  /\ written' = TRUE /\ verdict' = "none"
  /\ UNCHANGED <<present, imports, cycles>>

(* Slip: what the rules no longer find stays in the list.                  *)
WriteBaselineMore ==
  /\ "write" \in Moves /\ Classified /\ EntriesExist
  /\ ~(baseline.exists /\ baseline.entries = {})
  /\ PastEntries(Observed) = {}
  /\ baseline' = [exists |-> TRUE,
                  entries |-> baseline.entries \union {Bare(v) : v \in Observed \ Edges(baseline.entries)}]
  /\ written' = TRUE /\ verdict' = "none"
  /\ UNCHANGED <<present, imports, cycles>>

(* --write-baseline: what is observed, with the arguments already made; an *)
(* empty list is not filled, and an import past an entry is not recorded.  *)
WriteBaseline ==
  /\ "write" \in Moves /\ Classified /\ EntriesExist
  /\ ~(baseline.exists /\ baseline.entries = {})
  /\ PastEntries(Observed) = {}
  /\ baseline' = [exists |-> TRUE,
                  entries |-> UNION {IF Known(v) = {} THEN {Bare(v)} ELSE Known(v) : v \in Observed}]
  /\ written' = TRUE /\ verdict' = "none"
  /\ UNCHANGED <<present, imports, cycles>>

---------------------------------------------------------------------------
(* The developers.                                                         *)

Init ==
  /\ present = File /\ imports = {}
  /\ \E exists \in BOOLEAN : baseline = [exists |-> exists, entries |-> {}]
  /\ cycles = {} /\ verdict = "none" /\ written = FALSE

WriteImport(e) ==
  /\ "tree" \in Moves /\ e[1] \in present /\ e[2] \in present
  /\ imports' = (imports \union {e}) \ (imports \intersect {e})
  /\ verdict' = "none" /\ written' = FALSE
  /\ UNCHANGED <<present, baseline, cycles>>

(* Slip: the imports of a deleted file are still reported.                 *)
DeleteFileAlone(f) ==
  /\ "file" \in Moves /\ f \in present
  /\ present' = present \ {f} /\ verdict' = "none" /\ written' = FALSE
  /\ UNCHANGED <<imports, baseline, cycles>>

DeleteFile(f) ==
  /\ "file" \in Moves /\ f \in present
  /\ present' = present \ {f}
  /\ imports' = {e \in imports : f \notin {e[1], e[2]}}
  /\ verdict' = "none" /\ written' = FALSE
  /\ UNCHANGED <<baseline, cycles>>

(* A line of the file baseline is argued, added with its argument, or      *)
(* removed by hand; so is one of the folder baseline.                      *)
EditBaseline(v) ==
  /\ "hand" \in Moves
  /\ \E line \in {{}, {Argued(v)}} :
       baseline' = [exists |-> TRUE, entries |-> {x \in baseline.entries : x.edge # v} \union line]
  /\ written' = FALSE /\ verdict' = "none" /\ UNCHANGED <<present, imports, cycles>>
EditCycles(e) ==
  /\ "hand" \in Moves
  /\ \E line \in {{}, {Argued(e)}} : cycles' = {x \in cycles : x.edge # e} \union line
  /\ verdict' = "none" /\ UNCHANGED <<present, imports, baseline, written>>

Next ==
  \/ Gate \/ WriteBaseline
  \/ \E e \in Candidates : WriteImport(e)
  \/ \E f \in File : DeleteFile(f)
  \/ \E v \in Observed \union Edges(baseline.entries) : EditBaseline(v)
  \/ \E e \in CyclicFolderEdges \union Edges(cycles) : EditCycles(e)

Spec == Init /\ [][Next]_vars

---------------------------------------------------------------------------
(* What must hold.                                                         *)

TypeOK ==
  /\ present \subseteq File /\ imports \subseteq Candidates
  /\ imports \subseteq present \X present
  /\ baseline.exists \in BOOLEAN /\ \A x \in baseline.entries : x.argued \in BOOLEAN /\ x.edge.rule \in Rules
  /\ Edges(cycles) \subseteq Folders \X Folders
  /\ verdict \in {"none", "pass", "fail"} /\ written \in BOOLEAN

(* A tree that passes with two empty baselines has no import cycle, no     *)
(* cycle of folders, and no way into a module but its entries, nested      *)
(* modules included.                                                       *)
CleanTreeIsOrdered ==
  (verdict = "pass" /\ baseline.entries = {} /\ cycles = {}) =>
    /\ \A e \in imports : ~Graph(imports, File)!Reaches(e[2], e[1])
    /\ \A e \in FolderEdges : ~Graph(FolderEdges, Folders)!Reaches(e[2], e[1])
    /\ \A e \in imports : \A m \in e[2].modules \ e[1].modules : m \in e[2].opens

(* Contexts that import one another are caught by a direction rule, so the *)
(* folder check only has to look inside a context.                         *)
ContextOf(f) == CHOOSE c \in f.contexts : TRUE
ContextEdges == {<<ContextOf(e[1]), ContextOf(e[2])>> : e \in {x \in imports : x[1].contexts # x[2].contexts}}
ContextCycleBreaksDirection ==
  (\E e \in ContextEdges : Graph(ContextEdges, {ContextOf(f) : f \in File})!Reaches(e[2], e[1]))
    => \E e \in imports : AgainstDirection(e[1], e[2])

(* A tree that passes owes nothing that is not argued, and argues nothing  *)
(* that is not there.                                                      *)
PassingDebtIsArgued ==
  verdict = "pass" => /\ {Argued(v) : v \in Observed} = baseline.entries
                      /\ \A v \in Observed : v.rule.kind # "entry-only"

(* Rewriting the baseline drops no argument of an edge still there.        *)
WriteKeepsArguments ==
  written' /\ ~written =>
    \A x \in baseline.entries : (x.argued /\ x.edge \in Observed) => x \in baseline'.entries

(* What --write-baseline wrote needs only its arguments: nothing in it is  *)
(* new to the gate, or stale.                                              *)
WrittenMatchesTree == written => Edges(baseline.entries) = Observed
=============================================================================
