----------------------------- MODULE Integration -----------------------------
(***************************************************************************)
(* What becomes of the files of the workers (workers/integration.go and    *)
(* workers/apply.go).  Building an integration compares each worker's      *)
(* worktree with the main working tree as it is, one worker after the      *)
(* other, and names the files that more than one worker changed; applying  *)
(* it, then or much later, copies the listed files into the main tree, one *)
(* by one.  Workers, and whoever works in the main tree, go on meanwhile.  *)
(***************************************************************************)
EXTENDS Integers, Sequences, FiniteSets

CONSTANTS Workers,
          Files,       \* relative paths of the files people and workers change
          Top(_),      \* topLevelPath: the first component of a path
          MaxEdits,    \* bound: changes made by workers and in the main tree
          MaxApplies,  \* bound: how often the artifact is applied
          MaxFaults    \* bound: files whose writing fails

\* In a worktree, a file that names the repository; there, it is a directory.
Git == ".git"

Paths == Files \union {Git}

ASSUME IntegrationAssumption ==
  /\ IsFiniteSet(Workers) /\ Git \notin Files
  /\ MaxEdits \in Nat /\ MaxApplies \in Nat /\ MaxFaults \in Nat

VARIABLES
  main,     \* the main working tree: the file each path holds
  tree,     \* the worktrees
  gone,     \* workers whose worktree was removed
  pc,       \* what the integration in progress is doing
  selected, \* the worker ids asked for, in order; one may be there twice
  base,     \* baseSnapshot
  summary,  \* per worker scanned: its id and what changed, path by path
  mode,     \* apply mode
  current,  \* the worker of the summary being applied
  todo,     \* its paths still to be looked at
  applied,  \* appliedPaths
  status,   \* of the apply
  edits,
  applies,  \* applies of this artifact
  faults,   \* files the last apply that wrote could not write
  head,     \* the commit the worktrees were made from
  quiet     \* nobody changed a file since the integration was begun

vars == <<main, tree, gone, pc, selected, base, summary, mode, current, todo,
          applied, status, edits, applies, faults, head, quiet>>

building == <<pc, selected, base, summary>>
applying == <<mode, current, todo, applied, status, applies, faults>>
outside == <<tree, gone, edits, head, quiet>>

\* What a path can hold: no file, what was committed, what `git worktree add` puts
\* in .git, what was written in the main tree, and what a worker wrote.
Contents == {"none", "base", "gitdir", "main"} \union Workers

Modes == {"abort_if_conflicts", "apply_non_conflicting"}

-----------------------------------------------------------------------------
(* Snapshots, differences and candidates.                                  *)

\* diffSnapshots: the paths that differ, with the kind of the change.  A snapshot
\* has every file, .git too; it leaves out the directory .git and what is below it.
Diff(from, to) ==
  [f \in {g \in Paths : from[g] # to[g]} |->
     IF from[f] = "none" THEN "added" ELSE IF to[f] = "none" THEN "deleted" ELSE "modified"]

\* pathOwners and topLevelOwners: who changed a path, and something below one.
Owners(f) ==
  {summary[i].worker : i \in {j \in DOMAIN summary : f \in DOMAIN summary[j].changes}}

TopOwners(d) == UNION {Owners(f) : f \in {g \in Paths : Top(g) = d}}

\* buildConflictCandidates: more than one worker, by id.
SameFileTouched == {f \in Paths : Cardinality(Owners(f)) > 1}

SharedTopLevel == {d \in {Top(f) : f \in Paths} : Cardinality(TopOwners(d)) > 1}

ConflictCandidates ==
  ({"same_file_touched"} \X SameFileTouched)
    \union ({"shared_top_level_path"} \X SharedTopLevel)

\* Mutant: the filter takes the candidates of the other reason.
DirectoryConflictPaths == {c[2] : c \in {d \in ConflictCandidates : d[1] = "shared_top_level_path"}}

\* buildConflictPathFilter: only the files, not the shared directories.
ConflictPaths == {c[2] : c \in {d \in ConflictCandidates : d[1] = "same_file_touched"}}

-----------------------------------------------------------------------------
(* The files when integration begins: worktrees are made from the commit   *)
(* the main tree is at (git worktree add --detach).                        *)

\* What a new worktree of a commit holds.
Checkout(commit) == [commit EXCEPT ![Git] = "gitdir"]

Init ==
  /\ main \in [Paths -> {"none", "base"}]
  /\ main[Git] = "none"
  /\ tree = [w \in Workers |-> Checkout(main)]
  /\ gone = {}
  /\ pc = "idle"
  /\ selected = <<>>
  /\ base = main
  /\ summary = <<>>
  /\ mode = "abort_if_conflicts"
  /\ current = 0
  /\ todo = {}
  /\ applied = {}
  /\ status = "completed"
  /\ edits = 0 /\ applies = 0 /\ faults = 0
  /\ head = main
  /\ quiet = TRUE

-----------------------------------------------------------------------------
(* BuildIntegrationSummary.                                                *)

\* The rows of the workers asked for are looked up: one that was removed is not
\* found, or its row is still to be deleted after its worktree.
SelectWorkers ==
  /\ pc \in {"idle", "saved"}
  /\ \E n \in 1..Cardinality(Workers) : selected' \in [1..n -> Workers]
  /\ \/ pc' = "selected"
     \/ (\E i \in DOMAIN selected' : selected'[i] \in gone) /\ pc' = "idle"
  /\ UNCHANGED <<main, base, summary>> /\ UNCHANGED <<applying, outside>>

\* The main tree as it is, committed or not, is what workers are compared with.
SnapshotBase ==
  /\ pc = "selected"
  /\ UNCHANGED selected
  /\ base' = main
  /\ summary' = <<>>
  /\ pc' = "scan"
  /\ quiet' = TRUE
  /\ applies' = 0 /\ faults' = 0
  /\ status' = "completed"
  /\ UNCHANGED <<main, tree, gone, edits, head, mode, current, todo, applied>>

\* Each selected worker in turn; one without its worktree fails the integration.
SnapshotWorker ==
  /\ pc = "scan"
  /\ Len(summary) < Len(selected)
  /\ LET w == selected[Len(summary) + 1] IN
       IF w \in gone
         THEN pc' = "idle" /\ UNCHANGED summary
         ELSE /\ summary' = Append(summary, [worker |-> w, changes |-> Diff(base, tree[w])])
              /\ UNCHANGED pc
  /\ UNCHANGED <<main, selected, base>> /\ UNCHANGED <<applying, outside>>

SaveArtifact ==
  /\ pc = "scan"
  /\ Len(summary) = Len(selected)
  /\ pc' \in {"saved", "idle"}  \* or the artifact could not be written
  /\ UNCHANGED <<main, selected, base, summary>> /\ UNCHANGED <<applying, outside>>

-----------------------------------------------------------------------------
(* ApplyIntegration; the artifact stays and can be applied again.          *)

\* diffKindsByPath: the kinds of change the summary lists for a worker.
Changes(i) == summary[i].changes

BeginApply ==
  /\ pc = "saved"
  /\ applies < MaxApplies
  /\ applies' = applies + 1
  /\ mode' \in Modes
  /\ IF mode' = "abort_if_conflicts" /\ ConflictCandidates # {}
       THEN status' = "failed" /\ UNCHANGED <<pc, current, todo, faults>>
       ELSE /\ status' = "completed"
            /\ pc' = "apply"
            /\ faults' = 0
            /\ current' = 1
            /\ todo' = DOMAIN Changes(1)
  /\ UNCHANGED <<main, selected, base, summary, applied>> /\ UNCHANGED outside

\* One file of the current worker: written before, in conflict, or to be written.
Skipped(f) ==
  f \in applied \/ (mode = "apply_non_conflicting" /\ f \in ConflictPaths)

SkipFile(f) ==
  /\ pc = "apply"
  /\ f \in todo
  /\ Skipped(f)
  /\ todo' = todo \ {f}
  /\ UNCHANGED <<main, mode, current, applied, status, applies, faults>>
  /\ UNCHANGED building /\ UNCHANGED outside

\* applyIntegrationFile finds the file gone on one side or the other, or there is
\* a directory where it would be written, or it cannot be written: the next file
\* all the same.
Missing(f) ==
  LET w == summary[current].worker IN
    IF Changes(current)[f] = "deleted" THEN main[f] = "none" ELSE tree[w][f] = "none"

SkipFailed(f) ==
  /\ pc = "apply"
  /\ f \in todo
  /\ ~Skipped(f)
  /\ IF Missing(f) \/ f = Git THEN UNCHANGED faults ELSE faults < MaxFaults /\ faults' = faults + 1
  /\ status' = "failed"
  /\ todo' = todo \ {f}
  /\ UNCHANGED <<main, mode, current, applied, applies>>
  /\ UNCHANGED building /\ UNCHANGED outside

\* The content is read when it is applied, not when it was compared.
ApplyFile(f) ==
  /\ pc = "apply"
  /\ f \in todo
  /\ ~Skipped(f)
  /\ ~Missing(f) /\ f # Git
  /\ main' = [main EXCEPT ![f] = IF Changes(current)[f] = "deleted" THEN "none"
                                 ELSE tree[summary[current].worker][f]]
  /\ applied' = applied \union {f}
  /\ todo' = todo \ {f}
  /\ UNCHANGED <<mode, current, status, applies, faults>>
  /\ UNCHANGED building /\ UNCHANGED outside

\* Mutant: the paths of the worker before are gone through again.
NextWorkerSamePaths ==
  /\ pc = "apply"
  /\ todo = {}
  /\ IF current < Len(summary)
       THEN /\ current' = current + 1
            /\ todo' = DOMAIN Changes(current)
            /\ UNCHANGED <<pc, applied>>
       ELSE pc' = "saved" /\ current' = 0 /\ applied' = {} /\ UNCHANGED todo
  /\ UNCHANGED <<main, selected, base, summary, mode, status, applies, faults>>
  /\ UNCHANGED outside

NextWorker ==
  /\ pc = "apply"
  /\ todo = {}
  /\ IF current < Len(summary)
       THEN /\ current' = current + 1
            /\ todo' = DOMAIN Changes(current + 1)
            /\ UNCHANGED <<pc, applied>>
       ELSE pc' = "saved" /\ current' = 0 /\ applied' = {} /\ UNCHANGED todo
  /\ UNCHANGED <<main, selected, base, summary, mode, status, applies, faults>>
  /\ UNCHANGED outside

-----------------------------------------------------------------------------
(* Everybody else.                                                         *)

EditWorker(w, f, content) ==
  /\ edits < MaxEdits
  /\ w \notin gone
  /\ tree[w][f] # content
  /\ tree' = [tree EXCEPT ![w][f] = content]
  /\ edits' = edits + 1
  /\ quiet' = FALSE
  /\ UNCHANGED <<main, gone, head>> /\ UNCHANGED <<building, applying>>

\* The run's own executor, or the operator, works in the main tree.
EditMain(f, content) ==
  /\ edits < MaxEdits
  /\ main[f] # content
  /\ main' = [main EXCEPT ![f] = content]
  /\ edits' = edits + 1
  /\ quiet' = FALSE
  /\ UNCHANGED <<tree, gone, head>> /\ UNCHANGED <<building, applying>>

RemoveWorker(w) ==
  /\ edits < MaxEdits
  /\ w \notin gone
  /\ gone' = gone \union {w}
  /\ tree' = [tree EXCEPT ![w] = [f \in Paths |-> "none"]]
  /\ edits' = edits + 1
  /\ quiet' = FALSE
  /\ UNCHANGED <<main, head>> /\ UNCHANGED <<building, applying>>

Build == SelectWorkers \/ SnapshotBase \/ SnapshotWorker \/ SaveArtifact

Apply == \/ BeginApply \/ NextWorker
         \/ \E f \in Paths : SkipFile(f) \/ SkipFailed(f) \/ ApplyFile(f)

Next ==
  \/ Build \/ Apply
  \/ \E w \in Workers, f \in Files :
       \E content \in {w, "main", "none"} : EditWorker(w, f, content)
  \/ \E f \in Files : \E content \in {"main", "none"} : EditMain(f, content)
  \/ \E w \in Workers : RemoveWorker(w)

Spec == Init /\ [][Next]_vars

-----------------------------------------------------------------------------
(* Properties.                                                             *)

\* The shape of the state, and who can have been compared and applied when.
TypeOK ==
  /\ main \in [Paths -> Contents]
  /\ tree \in [Workers -> [Paths -> Contents]]
  /\ gone \subseteq Workers
  /\ pc \in {"idle", "selected", "scan", "saved", "apply"}
  /\ pc \in {"scan", "saved", "apply"} =>
       /\ Len(summary) <= Len(selected)
       /\ \A i \in DOMAIN summary : summary[i].worker = selected[i]
  /\ pc = "apply" => /\ current \in DOMAIN summary
                     /\ todo \subseteq DOMAIN Changes(current)
  /\ applied \subseteq Files  \* never .git
  /\ status \in {"completed", "failed"}

\* What an apply is for, said without lists of differences: a file that exactly
\* one of the selected workers holds differently from the main tree is taken
\* from it, and every other file stays as it was.
Chosen == {selected[i] : i \in DOMAIN selected}

ChangedBy(f) == {w \in Chosen : tree[w][f] # base[f]}

Merged(f) ==
  IF Cardinality(ChangedBy(f)) = 1
    THEN tree[CHOOSE w \in ChangedBy(f) : TRUE][f] ELSE base[f]

MainIsMerged == \A f \in Files : main[f] = Merged(f)

MainIsBase == \A f \in Files : main[f] = base[f]

\* When nobody else changes a file and every file can be written, an apply that
\* ended leaves the merge of the workers in the files of the main tree, the first
\* time and when it is repeated, after one that could not write some file too.
\* The strict mode only ever applies the changes of one worker: of two, whatever
\* they changed, the .git of their worktrees is in conflict, and nothing is written.
ApplyMerges ==
  pc = "saved" /\ applies > 0 /\ quiet /\ faults = 0 =>
    IF mode = "abort_if_conflicts" /\ Cardinality(Chosen) > 1
      THEN MainIsBase \/ (applies > 1 /\ MainIsMerged)
      ELSE MainIsMerged

-----------------------------------------------------------------------------
(* What the documentation says and the code does not keep.                 *)

\* docs: the integration returns truthful conflict candidate data.  A file is
\* named as touched by workers when each of them holds it differently from what
\* its worktree was made with.
CandidatesTruthful ==
  pc = "saved" /\ quiet =>
    \A f \in SameFileTouched, w \in Workers :
      w \in Owners(f) => tree[w][f] # Checkout(head)[f]
=============================================================================
