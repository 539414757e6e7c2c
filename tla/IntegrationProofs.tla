-------------------------- MODULE IntegrationProofs --------------------------
(***************************************************************************)
(* Proofs about Integration.  While nobody else changes a file, what the   *)
(* summary lists are the differences there still are, so that a path whose *)
(* owners it counts is one that as many workers changed, and .git is one   *)
(* that all of them did; every file then holds what it held or what the    *)
(* merge of the workers gives it, and those an apply is through with       *)
(* without a fault hold the merge (MergeInv).                              *)
(***************************************************************************)
EXTENDS Integration, SequenceTheorems, FiniteSetTheorems, TLAPS

\* What a worker's entry of the summary can be.
Kinds == {"added", "deleted", "modified"}

Differences == UNION {[S -> Kinds] : S \in SUBSET Paths}

Entries == [worker : Workers, changes : Differences]

FilesInv ==
  /\ main \in [Paths -> Contents]
  /\ base \in [Paths -> Contents]
  /\ tree \in [Workers -> [Paths -> Contents]]
  /\ gone \subseteq Workers
  /\ main[Git] = "none" /\ base[Git] = "none"
  /\ \A w \in Workers : w \notin gone => tree[w][Git] = "gitdir"

BuildInv ==
  /\ pc \in {"idle", "selected", "scan", "saved", "apply"}
  /\ selected \in Seq(Workers)
  /\ pc # "idle" => Len(selected) > 0
  /\ summary \in Seq(Entries)
  /\ pc \in {"scan", "saved", "apply"} =>
       /\ Len(summary) <= Len(selected)
       /\ \A i \in 1..Len(summary) : summary[i].worker = selected[i]
  /\ pc \in {"saved", "apply"} => Len(summary) = Len(selected)

ApplyInv ==
  /\ applies \in Nat /\ faults \in Nat
  /\ mode \in Modes
  /\ status \in {"completed", "failed"}
  /\ applied \subseteq Files
  /\ pc # "apply" => applied = {}
  /\ pc = "apply" => /\ current \in 1..Len(summary)
                     /\ todo \subseteq DOMAIN Changes(current)
                     /\ applies > 0
                     /\ mode = "abort_if_conflicts" => ConflictCandidates = {}

TypeInv == FilesInv /\ BuildInv /\ ApplyInv

\* The differences listed are those there still are, of worktrees there still are.
Compared ==
  \A i \in 1..Len(summary) :
    /\ summary[i].worker \notin gone
    /\ summary[i].changes = Diff(base, tree[summary[i].worker])

Aborted == mode = "abort_if_conflicts" /\ Cardinality(Chosen) > 1

MergeInv ==
  quiet =>
    /\ pc \in {"scan", "saved", "apply"} => Compared
    /\ pc = "scan" => main = base /\ applies = 0
    /\ pc \in {"saved", "apply"} => \A f \in Files : main[f] \in {base[f], Merged(f)}
    /\ pc = "apply" =>
         /\ \A f \in applied : main[f] = Merged(f)
         /\ faults = 0 =>
              \A i \in 1..current : \A f \in Files \intersect DOMAIN Changes(i) :
                i < current \/ f \notin todo => main[f] = Merged(f)
    /\ pc = "saved" /\ faults = 0 =>
         \/ MainIsBase /\ (applies = 0 \/ Aborted)
         \/ MainIsMerged /\ applies > 0 /\ (applies > 1 \/ ~Aborted)

-----------------------------------------------------------------------------
(* The operators.                                                          *)

\* A difference names the paths that differ.
LEMMA DiffType ==
  ASSUME NEW from, NEW to
  PROVE  Diff(from, to) \in Differences
  <1> DEFINE S == {f \in Paths : from[f] # to[f]}
  <1>1. Diff(from, to) \in [S -> Kinds]
    BY DEF Diff, Kinds
  <1>2. S \in SUBSET Paths
    OBVIOUS
  <1> HIDE DEF S
  <1> QED BY <1>1, <1>2 DEF Differences

LEMMA DiffNames ==
  ASSUME NEW from, NEW to, NEW f \in Paths
  PROVE  /\ f \in DOMAIN Diff(from, to) <=> from[f] # to[f]
         /\ from[f] # to[f] =>
              (Diff(from, to)[f] = "deleted" <=> (from[f] # "none" /\ to[f] = "none"))
  BY DEF Diff

\* A set of workers has more than one member when it has two.
LEMMA MoreThanOne ==
  ASSUME NEW S \in SUBSET Workers
  PROVE  /\ Cardinality(S) > 1 <=> \E v, w \in S : v # w
         /\ \A w \in S : Cardinality(S) = 1 <=> S = {w}
         /\ S = {} => Cardinality(S) # 1
  <1>1. IsFiniteSet(S) /\ Cardinality(S) \in Nat
    BY IntegrationAssumption, FS_Subset, FS_CardinalityType
  <1>2. Cardinality(S) = 0 <=> S = {}
    BY <1>1, FS_EmptySet
  <1>3. Cardinality(S) = 1 <=> \E w : S = {w}
    BY <1>1, FS_Singleton
  <1>4. \A w \in S : Cardinality(S) = 1 <=> S = {w}
    BY <1>3
  <1>5. Cardinality(S) > 1 => \E v, w \in S : v # w
    <2> SUFFICES ASSUME Cardinality(S) > 1, \A v, w \in S : v = w PROVE FALSE
      OBVIOUS
    <2>1. PICK w \in S : TRUE
      BY <1>1, <1>2
    <2>2. S = {w}
      BY <2>1
    <2> QED BY <1>1, <1>4, <2>1, <2>2
  <1>6. (\E v, w \in S : v # w) => Cardinality(S) > 1
    <2> SUFFICES ASSUME NEW v \in S, NEW w \in S, v # w, ~(Cardinality(S) > 1)
                 PROVE  FALSE
      OBVIOUS
    <2>1. Cardinality(S) = 1
      BY <1>1, <1>2
    <2> QED BY <1>3, <2>1
  <1> QED BY <1>1, <1>2, <1>4, <1>5, <1>6

\* What a listed change names is a path.
LEMMA ChangedPaths ==
  ASSUME BuildInv, NEW i \in 1..Len(summary)
  PROVE  /\ DOMAIN Changes(i) \subseteq Paths
         /\ summary[i].worker \in Workers
         /\ DOMAIN summary = 1..Len(summary) /\ Len(summary) \in Nat
  <1>1. summary \in Seq(Entries)
    BY DEF BuildInv
  <1>2. DOMAIN summary = 1..Len(summary) /\ Len(summary) \in Nat /\ summary[i] \in Entries
    BY <1>1, LenProperties, ElementOfSeq
  <1>3. PICK S \in SUBSET Paths : Changes(i) \in [S -> Kinds]
    BY <1>2 DEF Entries, Differences, Changes
  <1> QED BY <1>2, <1>3 DEF Entries, Changes

-----------------------------------------------------------------------------
(* Types.                                                                  *)

LEMMA BuildKeepsTypes ==
  ASSUME TypeInv, Build
  PROVE  TypeInv'
  <1>1. FilesInv' /\ ApplyInv'
    BY DEF TypeInv, FilesInv, ApplyInv, Build, SelectWorkers, SnapshotBase, SnapshotWorker,
           SaveArtifact, applying, outside
  <1>2. BuildInv'
    <2>1. CASE SelectWorkers
      <3>1. PICK n \in 1..Cardinality(Workers) : selected' \in [1..n -> Workers]
        BY <2>1 DEF SelectWorkers
      <3>2. n \in Nat /\ n > 0
        BY IntegrationAssumption, FS_CardinalityType
      <3>3. selected' \in Seq(Workers)
        BY <3>1, <3>2, SeqDef
      <3>4. Len(selected') = n
        BY <3>1, <3>2, <3>3, LenProperties
      <3> QED BY <2>1, <3>2, <3>3, <3>4 DEF SelectWorkers, TypeInv, BuildInv
    <2>2. CASE SnapshotBase
      <3>1. summary' = <<>> /\ selected' = selected /\ pc' = "scan" /\ pc = "selected"
        BY <2>2 DEF SnapshotBase
      <3>2. <<>> \in Seq(Entries) /\ Len(<<>>) = 0
        OBVIOUS
      <3>3. selected \in Seq(Workers) /\ Len(selected) > 0 /\ Len(selected) \in Nat
        BY <3>1, LenProperties DEF TypeInv, BuildInv
      <3> QED BY <3>1, <3>2, <3>3 DEF BuildInv
    <2>3. CASE SnapshotWorker
      <3> DEFINE w == selected[Len(summary) + 1]
                 e == [worker |-> w, changes |-> Diff(base, tree[w])]
      <3>1. /\ pc = "scan" /\ selected' = selected /\ Len(summary) < Len(selected)
            /\ \/ pc' = "idle" /\ summary' = summary
               \/ pc' = pc /\ summary' = Append(summary, e)
        BY <2>3 DEF SnapshotWorker
      <3>2. /\ summary \in Seq(Entries) /\ Len(summary) \in Nat
            /\ selected \in Seq(Workers) /\ Len(selected) \in Nat
            /\ \A i \in 1..Len(summary) : summary[i].worker = selected[i]
        BY <3>1, LenProperties DEF TypeInv, BuildInv
      <3>3. w \in Workers
        BY <3>1, <3>2, ElementOfSeq
      <3>4. e \in Entries /\ e.worker = w
        <4> DEFINE d == Diff(base, tree[w])
        <4>1. d \in Differences
          BY DiffType
        <4> HIDE DEF d
        <4>2. [worker |-> w, changes |-> d] \in Entries
          BY <3>3, <4>1 DEF Entries
        <4> QED BY <4>2 DEF d
      <3> HIDE DEF e
      <3>5. CASE summary' = Append(summary, e)
        <4> DEFINE s == Append(summary, e)
        <4>1. /\ s \in Seq(Entries) /\ Len(s) = Len(summary) + 1
              /\ \A i \in 1..Len(summary) : s[i] = summary[i]
              /\ s[Len(summary) + 1] = e
          BY <3>2, <3>4, AppendProperties
        <4> HIDE DEF s
        <4>2. \A i \in 1..Len(s) : s[i].worker = selected[i]
          BY <3>2, <3>4, <4>1
        <4>3. summary' = s
          BY <3>5 DEF s
        <4> QED BY <3>1, <3>2, <4>1, <4>2, <4>3 DEF TypeInv, BuildInv
      <3>6. CASE pc' = "idle" /\ summary' = summary
        BY <3>1, <3>2, <3>6 DEF BuildInv
      <3> QED BY <3>1, <3>5, <3>6
    <2>4. CASE SaveArtifact
      BY <2>4 DEF SaveArtifact, TypeInv, BuildInv
    <2> QED BY <2>1, <2>2, <2>3, <2>4 DEF Build
  <1> QED BY <1>1, <1>2 DEF TypeInv

\* One step of an apply.
LEMMA ApplyKeepsTypes ==
  ASSUME TypeInv, Apply
  PROVE  TypeInv'
  <1>1. BuildInv /\ UNCHANGED <<selected, base, summary, tree, gone>>
    BY DEF TypeInv, Apply, BeginApply, NextWorker, SkipFile, SkipFailed, ApplyFile,
           building, outside
  <1>2. BuildInv'
    BY <1>1 DEF Apply, BeginApply, NextWorker, SkipFile, SkipFailed, ApplyFile, building,
                BuildInv
  <1>3. FilesInv' /\ ApplyInv'
    <2>1. CASE BeginApply
      <3>1. FilesInv'
        BY <2>1 DEF BeginApply, TypeInv, FilesInv, outside
      <3>2. pc = "saved" /\ applies' = applies + 1 /\ applied' = {} /\ mode' \in Modes
            /\ status' \in {"completed", "failed"} /\ applies \in Nat /\ faults' \in Nat
        BY <2>1 DEF BeginApply, TypeInv, ApplyInv
      <3>3. CASE mode' = "abort_if_conflicts" /\ ConflictCandidates # {}
        <4>1. pc' = "saved"
          BY <2>1, <3>2, <3>3 DEF BeginApply
        <4> QED BY <3>1, <3>2, <4>1 DEF ApplyInv
      <3>4. CASE ~(mode' = "abort_if_conflicts" /\ ConflictCandidates # {})
        <4>1. pc' = "apply" /\ current' = 1 /\ todo' = DOMAIN Changes(1)
          BY <2>1, <3>4 DEF BeginApply
        <4>2. Len(summary) \in Nat /\ Len(summary) > 0
          BY <1>1, <3>2, LenProperties DEF BuildInv
        <4>3. ConflictCandidates' = ConflictCandidates
          BY <1>1 DEF ConflictCandidates, SameFileTouched, SharedTopLevel, TopOwners, Owners
        <4>4. current' \in 1..Len(summary') /\ todo' \subseteq DOMAIN Changes(current)'
              /\ applies' \in Nat /\ applies' > 0
          BY <1>1, <3>2, <4>1, <4>2 DEF Changes
        <4>5. mode' = "abort_if_conflicts" => ConflictCandidates' = {}
          BY <3>4, <4>3
        <4> QED BY <3>1, <3>2, <4>1, <4>4, <4>5 DEF ApplyInv
      <3> QED BY <3>1, <3>3, <3>4
    <2>2. CASE NextWorker
      <3>1. FilesInv'
        BY <2>2 DEF NextWorker, TypeInv, FilesInv, outside
      <3>2. pc = "apply" /\ UNCHANGED <<mode, status, applies, faults>>
        BY <2>2 DEF NextWorker
      <3>3. CASE current < Len(summary)
        <4>1. current' = current + 1 /\ todo' = DOMAIN Changes(current + 1)
              /\ UNCHANGED <<pc, applied>>
          BY <2>2, <3>3 DEF NextWorker
        <4>2. Len(summary) \in Nat /\ current \in 1..Len(summary)
          BY <1>1, <3>2, LenProperties DEF BuildInv, TypeInv, ApplyInv
        <4>3. ConflictCandidates' = ConflictCandidates
          BY <1>1 DEF ConflictCandidates, SameFileTouched, SharedTopLevel, TopOwners, Owners
        <4>4. current' \in 1..Len(summary') /\ todo' \subseteq DOMAIN Changes(current)'
          BY <1>1, <3>3, <4>1, <4>2 DEF Changes
        <4> QED BY <3>1, <3>2, <4>1, <4>3, <4>4 DEF TypeInv, ApplyInv
      <3>4. CASE ~(current < Len(summary))
        BY <2>2, <3>1, <3>2, <3>4 DEF NextWorker, TypeInv, ApplyInv
      <3> QED BY <3>3, <3>4
    <2>3. ASSUME NEW f \in Paths, SkipFile(f) \/ SkipFailed(f) \/ ApplyFile(f)
          PROVE  FilesInv' /\ ApplyInv'
      <3>1. /\ UNCHANGED <<pc, mode, current, applies, summary>> /\ pc = "apply"
            /\ todo' = todo \ {f} /\ status' \in {status, "failed"}
            /\ applied' \subseteq applied \union ({f} \ {Git}) /\ faults' \in {faults, faults + 1}
        BY <2>3 DEF SkipFile, SkipFailed, ApplyFile, building
      <3>2. ConflictCandidates' = ConflictCandidates
        BY <1>1 DEF ConflictCandidates, SameFileTouched, SharedTopLevel, TopOwners, Owners
      <3>3. ApplyInv'
        <4>1. /\ current' \in 1..Len(summary') /\ todo' \subseteq DOMAIN Changes(current)'
              /\ applies' \in Nat /\ applies' > 0 /\ applied' \subseteq Files /\ faults' \in Nat
              /\ mode' \in Modes /\ status' \in {"completed", "failed"}
          BY <3>1 DEF TypeInv, ApplyInv, Changes, Paths
        <4> QED BY <3>1, <3>2, <4>1 DEF TypeInv, ApplyInv
      <3>4. FilesInv'
        <4>1. CASE UNCHANGED main
          BY <1>1, <4>1 DEF TypeInv, FilesInv
        <4>2. CASE ApplyFile(f)
          <5>1. PICK x : x \in Contents /\ main' = [main EXCEPT ![f] = x] /\ f # Git
            <6>1. summary[current].worker \in Workers
              BY <1>1, <3>1, ChangedPaths DEF TypeInv, ApplyInv
            <6>2. tree[summary[current].worker][f] \in Contents
              BY <6>1 DEF TypeInv, FilesInv
            <6> QED BY <4>2, <6>2 DEF ApplyFile, Contents
          <5> QED BY <1>1, <5>1 DEF TypeInv, FilesInv
        <4> QED BY <2>3, <4>1, <4>2 DEF SkipFile, SkipFailed
      <3> QED BY <3>3, <3>4
    <2> QED BY <2>1, <2>2, <2>3 DEF Apply
  <1> QED BY <1>2, <1>3 DEF TypeInv

LEMMA SameSummary ==
  ASSUME ApplyInv, UNCHANGED <<pc, summary, mode, current, todo, applied, status, applies, faults>>
  PROVE  ApplyInv'
  <1>1. ConflictCandidates' = ConflictCandidates
    BY DEF ConflictCandidates, SameFileTouched, SharedTopLevel, TopOwners, Owners
  <1>2. Changes(current)' = Changes(current)
    BY DEF Changes
  <1> QED BY <1>1, <1>2 DEF ApplyInv

\* Whoever else changes a file leaves the integration as it is.
Others ==
  \/ \E w \in Workers, f \in Files :
       \E content \in {w, "main", "none"} : EditWorker(w, f, content)
  \/ \E f \in Files : \E content \in {"main", "none"} : EditMain(f, content)
  \/ \E w \in Workers : RemoveWorker(w)

LEMMA OthersKeepTypes ==
  ASSUME TypeInv, Others
  PROVE  TypeInv' /\ ~quiet'
  <1>1. ~quiet' /\ UNCHANGED <<building, applying>>
    BY DEF Others, EditWorker, EditMain, RemoveWorker
  <1>2. BuildInv'
    BY <1>1 DEF TypeInv, BuildInv, building
  <1>3. ApplyInv'
    BY <1>1, SameSummary DEF TypeInv, building, applying
  <1>4. FilesInv'
    <2>1. ASSUME NEW w \in Workers, NEW f \in Files, NEW content \in {w, "main", "none"},
                 EditWorker(w, f, content)
          PROVE  FilesInv'
      <3>1. content \in Contents
        BY DEF Contents
      <3>2. tree' = [tree EXCEPT ![w] = [tree[w] EXCEPT ![f] = content]]
            /\ UNCHANGED <<main, gone, base>>
        BY <2>1 DEF EditWorker, building
      <3>3. f # Git /\ f \in Paths
        BY IntegrationAssumption DEF Paths
      <3>4. /\ [tree[w] EXCEPT ![f] = content] \in [Paths -> Contents]
            /\ [tree[w] EXCEPT ![f] = content][Git] = tree[w][Git]
        BY <3>1, <3>3 DEF TypeInv, FilesInv
      <3> QED BY <3>2, <3>4 DEF TypeInv, FilesInv
    <2>2. ASSUME NEW f \in Files, NEW content \in {"main", "none"}, EditMain(f, content)
          PROVE  FilesInv'
      BY <2>2, IntegrationAssumption DEF EditMain, TypeInv, FilesInv, Contents, building, Paths
    <2>3. ASSUME NEW w \in Workers, RemoveWorker(w)
          PROVE  FilesInv'
      <3>1. [f \in Paths |-> "none"] \in [Paths -> Contents]
        BY DEF Contents
      <3> QED BY <2>3, <3>1 DEF RemoveWorker, TypeInv, FilesInv, building
    <2> QED BY <2>1, <2>2, <2>3 DEF Others
  <1> QED BY <1>1, <1>2, <1>3, <1>4 DEF TypeInv

LEMMA StutterKeepsTypes ==
  ASSUME TypeInv, UNCHANGED vars
  PROVE  TypeInv'
  <1>1. FilesInv' /\ BuildInv'
    BY DEF TypeInv, FilesInv, BuildInv, vars
  <1>2. ApplyInv'
    BY SameSummary DEF TypeInv, vars
  <1> QED BY <1>1, <1>2 DEF TypeInv

LEMMA TypeInvariant == Spec => []TypeInv
  <1>1. Init => TypeInv
    <2> SUFFICES ASSUME Init PROVE TypeInv
      OBVIOUS
    <2>1. FilesInv
      BY DEF Init, FilesInv, Contents, Checkout, Paths
    <2>2. BuildInv
      BY DEF Init, BuildInv
    <2>3. ApplyInv
      BY DEF Init, ApplyInv, Modes
    <2> QED BY <2>1, <2>2, <2>3 DEF TypeInv
  <1>2. TypeInv /\ [Next]_vars => TypeInv'
    BY Zenon, BuildKeepsTypes, ApplyKeepsTypes, OthersKeepTypes, StutterKeepsTypes
       DEF Next, Others
  <1> QED BY <1>1, <1>2, PTL DEF Spec

\* The shape of an integration and of an apply: what is compared and applied are
\* the selected workers, in order, and the paths listed for them
\* (BuildIntegrationSummary, ApplyIntegration).
THEOREM TypeCorrect == Spec => []TypeOK
  <1>1. TypeInv => TypeOK
    <2> SUFFICES ASSUME TypeInv PROVE TypeOK
      OBVIOUS
    <2>1. DOMAIN summary = 1..Len(summary)
      BY LenProperties DEF TypeInv, BuildInv
    <2> QED BY <2>1 DEF TypeInv, FilesInv, BuildInv, ApplyInv, TypeOK
  <1> QED BY <1>1, TypeInvariant, PTL

-----------------------------------------------------------------------------
(* The owners a complete summary counts are the workers that differ.       *)

Complete ==
  /\ BuildInv /\ Compared
  /\ Len(summary) = Len(selected)
  /\ \A i \in 1..Len(summary) : summary[i].worker = selected[i]

LEMMA OwnersAreChangers ==
  ASSUME Complete, NEW f \in Paths
  PROVE  /\ Owners(f) = ChangedBy(f) /\ ChangedBy(f) \subseteq Workers
         /\ \A i \in 1..Len(summary) :
              f \in DOMAIN Changes(i) => summary[i].worker \in ChangedBy(f)
  <1>1. /\ DOMAIN summary = 1..Len(summary) /\ DOMAIN selected = 1..Len(summary)
        /\ \A i \in 1..Len(summary) : selected[i] \in Workers
    BY LenProperties, ElementOfSeq DEF Complete, BuildInv
  <1>2. \A i \in 1..Len(summary) :
          f \in DOMAIN summary[i].changes <=> tree[selected[i]][f] # base[f]
    <2> SUFFICES ASSUME NEW i \in 1..Len(summary)
                 PROVE  f \in DOMAIN summary[i].changes <=> tree[selected[i]][f] # base[f]
      OBVIOUS
    <2> DEFINE t == tree[selected[i]]
    <2>1. summary[i].changes = Diff(base, t)
      BY DEF Complete, Compared
    <2> HIDE DEF t
    <2>2. f \in DOMAIN Diff(base, t) <=> base[f] # t[f]
      BY DiffNames
    <2>3. f \in DOMAIN summary[i].changes <=> t[f] # base[f]
      BY <2>1, <2>2
    <2> QED BY <2>3 DEF t
  <1>3. \A i \in 1..Len(summary) : summary[i].worker = selected[i]
    BY DEF Complete
  <1>4. Owners(f) = {selected[i] : i \in {j \in 1..Len(summary) : tree[selected[j]][f] # base[f]}}
    BY <1>1, <1>2, <1>3 DEF Owners
  <1>5. ChangedBy(f) = {w \in {selected[i] : i \in 1..Len(summary)} : tree[w][f] # base[f]}
    BY <1>1 DEF ChangedBy, Chosen
  <1>6. Owners(f) = ChangedBy(f)
    BY <1>4, <1>5
  <1>7. ChangedBy(f) \subseteq Workers
    BY <1>1, <1>5
  <1>8. \A i \in 1..Len(summary) : f \in DOMAIN Changes(i) => selected[i] \in ChangedBy(f)
    BY <1>2, <1>5 DEF Changes
  <1> QED BY <1>3, <1>6, <1>7, <1>8

\* The merge takes a file from the only worker that changed it.
LEMMA MergeTakes ==
  ASSUME Complete, NEW f \in Paths
  PROVE  /\ f \in SameFileTouched => Merged(f) = base[f]
         /\ ChangedBy(f) = {} => Merged(f) = base[f]
         /\ \A w \in ChangedBy(f) : f \notin SameFileTouched => Merged(f) = tree[w][f]
  <1>1. Owners(f) = ChangedBy(f) /\ ChangedBy(f) \subseteq Workers
    BY OwnersAreChangers
  <1>2. f \in SameFileTouched <=> Cardinality(ChangedBy(f)) > 1
    BY <1>1 DEF SameFileTouched
  <1>3. Merged(f) = IF Cardinality(ChangedBy(f)) = 1
                      THEN tree[CHOOSE w \in ChangedBy(f) : TRUE][f] ELSE base[f]
    BY DEF Merged
  <1>4. f \in SameFileTouched \/ ChangedBy(f) = {} => Merged(f) = base[f]
    <2>1. ChangedBy(f) = {} => Cardinality(ChangedBy(f)) # 1
      BY <1>1, MoreThanOne
    <2> QED BY <1>2, <1>3, <2>1
  <1>5. ASSUME NEW w \in ChangedBy(f), f \notin SameFileTouched
        PROVE  Merged(f) = tree[w][f]
    <2>1. \A v \in ChangedBy(f) : v = w
      BY <1>1, <1>2, <1>5, MoreThanOne
    <2>2. ChangedBy(f) = {w}
      BY <1>5, <2>1
    <2>3. Cardinality(ChangedBy(f)) = 1
      BY <1>1, <1>5, <2>2, MoreThanOne
    <2>4. (CHOOSE v \in ChangedBy(f) : TRUE) = w
      BY <2>2
    <2> QED BY <1>3, <2>3, <2>4
  <1> QED BY <1>4, <1>5

\* The candidates of one reason are what that reason collects.
LEMMA ConflictsByReason ==
  /\ ConflictPaths = SameFileTouched
  /\ ConflictCandidates = {} <=> SameFileTouched = {} /\ SharedTopLevel = {}
  <1> DEFINE S == SameFileTouched
             D == SharedTopLevel
  <1>1. ConflictCandidates = ({"same_file_touched"} \X S)
                               \union ({"shared_top_level_path"} \X D)
    BY DEF ConflictCandidates
  <1> HIDE DEF S, D
  <1>2. \A f \in S : <<"same_file_touched", f>> \in ConflictCandidates
    BY <1>1
  <1>3. \A d \in D : <<"shared_top_level_path", d>> \in ConflictCandidates
    BY <1>1
  <1>4. \A c \in ConflictCandidates : \/ c[1] = "same_file_touched" /\ c[2] \in S
                                      \/ c[1] = "shared_top_level_path" /\ c[2] \in D
    BY <1>1
  <1>5. ConflictPaths = S
    <2>1. ASSUME NEW f \in S PROVE f \in ConflictPaths
      <3> DEFINE c == <<"same_file_touched", f>>
      <3>1. c \in ConflictCandidates /\ c[1] = "same_file_touched" /\ c[2] = f
        BY <1>2, <2>1
      <3> HIDE DEF c
      <3> QED BY <3>1 DEF ConflictPaths
    <2>2. ASSUME NEW f \in ConflictPaths PROVE f \in S
      BY <1>4, <2>2 DEF ConflictPaths
    <2> QED BY <2>1, <2>2
  <1>6. ConflictCandidates = {} <=> S = {} /\ D = {}
    BY <1>2, <1>3, <1>4
  <1> QED BY <1>5, <1>6 DEF S, D

\* Of two workers, the .git of their worktrees is in conflict; of one, nothing is.
LEMMA ConflictsAreWorkers ==
  ASSUME Complete, FilesInv
  PROVE  ConflictCandidates = {} <=> ~(Cardinality(Chosen) > 1)
  <1>1. \A f \in Paths : Owners(f) = ChangedBy(f) /\ ChangedBy(f) \subseteq Chosen
    BY OwnersAreChangers DEF ChangedBy
  <1>2. Chosen \in SUBSET Workers
    <2>1. selected \in Seq(Workers)
      BY DEF Complete, BuildInv
    <2> QED BY <2>1, LenProperties, ElementOfSeq DEF Chosen
  <1>3. Git \in Paths
    BY DEF Paths
  <1>4. ChangedBy(Git) = Chosen
    <2>1. ASSUME NEW w \in Chosen PROVE tree[w][Git] # base[Git]
      <3>1. PICK i \in 1..Len(summary) : w = summary[i].worker
        BY LenProperties DEF Chosen, Complete, BuildInv
      <3>2. w \notin gone /\ w \in Workers
        BY <1>2, <3>1 DEF Complete, Compared
      <3> QED BY <3>2 DEF FilesInv
    <2> QED BY <2>1 DEF ChangedBy
  <1>5. Cardinality(Chosen) > 1 => SameFileTouched # {}
    BY <1>1, <1>3, <1>4 DEF SameFileTouched
  <1>6. ASSUME NEW S \in SUBSET Chosen, Cardinality(S) > 1
        PROVE  Cardinality(Chosen) > 1
    <2>1. PICK v \in S, w \in S : v # w
      BY <1>2, <1>6, MoreThanOne
    <2> QED BY <1>2, <2>1, MoreThanOne
  <1>7. SameFileTouched # {} => Cardinality(Chosen) > 1
    BY <1>1, <1>6 DEF SameFileTouched
  <1>8. SharedTopLevel # {} => Cardinality(Chosen) > 1
    <2> SUFFICES ASSUME NEW d, Cardinality(TopOwners(d)) > 1
                 PROVE  Cardinality(Chosen) > 1
      BY DEF SharedTopLevel
    <2>1. TopOwners(d) \in SUBSET Chosen
      BY <1>1 DEF TopOwners
    <2> QED BY <1>6, <2>1
  <1> QED BY <1>5, <1>7, <1>8, ConflictsByReason

-----------------------------------------------------------------------------
(* The merge.                                                              *)

LEMMA SavedIsComplete ==
  ASSUME TypeInv, MergeInv, quiet, pc \in {"saved", "apply"}
  PROVE  Complete /\ FilesInv
  BY DEF TypeInv, BuildInv, MergeInv, Complete

\* What an apply leaves alone does not change what is merged.
LEMMA SameMerge ==
  ASSUME UNCHANGED <<selected, base, summary, tree, gone>>
  PROVE  /\ \A f : Merged(f)' = Merged(f)
         /\ Chosen' = Chosen
         /\ Compared => Compared'
  <1>1. Chosen' = Chosen
    BY DEF Chosen
  <1>2. \A f : ChangedBy(f)' = ChangedBy(f)
    BY <1>1 DEF ChangedBy
  <1>3. \A f : Merged(f)' = Merged(f)
    <2> TAKE f
    <2>1. UNCHANGED <<tree, base>> /\ ChangedBy(f)' = ChangedBy(f)
      BY <1>2
    <2> DEFINE K == ChangedBy(f)
               c == CHOOSE w \in K : TRUE
    <2>2. K' = K /\ c' = c
      BY <2>1
    <2>3. Merged(f) = IF Cardinality(K) = 1 THEN tree[c][f] ELSE base[f]
      BY DEF Merged
    <2>4. Merged(f)' = IF Cardinality(K') = 1 THEN tree'[c'][f] ELSE base'[f]
      BY DEF Merged
    <2> HIDE DEF K, c
    <2> QED BY <2>1, <2>2, <2>3, <2>4
  <1>4. Compared => Compared'
    BY DEF Compared, Diff
  <1> QED BY <1>1, <1>3, <1>4

\* A file of the current worker that is not skipped is the worker's alone: what
\* is written is the merge, and what is missing was written before.
LEMMA FileIsMerged ==
  ASSUME TypeInv, MergeInv, quiet, pc = "apply", NEW f \in todo, f \in Files
  PROVE  /\ Skipped(f) => main[f] = Merged(f)
         /\ ~Skipped(f) /\ Missing(f) => main[f] = Merged(f)
         /\ ~Skipped(f) => (IF Changes(current)[f] = "deleted" THEN "none"
                            ELSE tree[summary[current].worker][f]) = Merged(f)
  <1> DEFINE w == summary[current].worker
             t == tree[w]
  <1>1. Complete
    BY SavedIsComplete
  <1>2. current \in 1..Len(summary) /\ f \in DOMAIN Changes(current)
    BY DEF TypeInv, ApplyInv
  <1> f \in Paths
    BY DEF Paths
  <1>3. w \in ChangedBy(f)
    BY <1>1, <1>2, OwnersAreChangers
  <1>4. Changes(current) = Diff(base, t)
    BY <1>1, <1>2 DEF Complete, Compared, Changes
  <1>5. main[f] \in {base[f], Merged(f)} /\ (f \in applied => main[f] = Merged(f))
    BY DEF MergeInv
  <1>6. f \in SameFileTouched => main[f] = Merged(f)
    BY <1>1, <1>5, MergeTakes
  <1>7. Skipped(f) => main[f] = Merged(f)
    BY <1>5, <1>6, ConflictsByReason DEF Skipped
  <1>8. ~Skipped(f) => Merged(f) = t[f]
    <2>1. ~Skipped(f) => f \notin SameFileTouched
      <3>1. mode \in Modes /\ (mode = "abort_if_conflicts" => ConflictCandidates = {})
        BY DEF TypeInv, ApplyInv
      <3> QED BY <3>1, ConflictsByReason DEF Skipped, Modes
    <2> QED BY <1>1, <1>3, <2>1, MergeTakes
  <1>9. Missing(f) <=> IF Changes(current)[f] = "deleted" THEN main[f] = "none"
                       ELSE t[f] = "none"
    BY DEF Missing
  <1> HIDE DEF t
  <1>10. /\ base[f] # t[f]
         /\ Changes(current)[f] = "deleted" <=> (base[f] # "none" /\ t[f] = "none")
    <2>1. base[f] # t[f]
      BY <1>2, <1>4, DiffNames
    <2> QED BY <1>4, <2>1, DiffNames
  <1>11. ~Skipped(f) /\ Missing(f) => main[f] = Merged(f)
    BY <1>5, <1>8, <1>9, <1>10
  <1>12. ~Skipped(f) => (IF Changes(current)[f] = "deleted" THEN "none" ELSE t[f]) = Merged(f)
    BY <1>8, <1>10
  <1> QED BY <1>7, <1>11, <1>12 DEF t

LEMMA FileKeepsMerge ==
  ASSUME TypeInv, MergeInv, NEW f \in Paths, SkipFile(f) \/ SkipFailed(f) \/ ApplyFile(f)
  PROVE  MergeInv'
  <1> SUFFICES ASSUME quiet'
               PROVE  MergeInv'
    BY DEF MergeInv
  <1>1. /\ pc = "apply" /\ pc' = "apply" /\ quiet /\ f \in todo
        /\ UNCHANGED <<current, summary, selected, base, tree, gone>> /\ todo' = todo \ {f}
    BY DEF SkipFile, SkipFailed, ApplyFile, building, outside
  <1>2. (\A g : Merged(g)' = Merged(g)) /\ Compared' /\ \A i : Changes(i)' = Changes(i)
    BY <1>1, SameMerge DEF MergeInv, Changes
  <1>3. main \in [Paths -> Contents]
    BY DEF TypeInv, FilesInv
  <1>4. /\ \A g \in Files \ {f} : main'[g] = main[g]
        /\ f \in Files => main'[f] = main[f] \/ main'[f] = Merged(f)
        /\ faults' = 0 => faults = 0 /\ (f \in Files => main'[f] = Merged(f))
        /\ \/ applied' = applied
           \/ applied' = applied \union {f} /\ f \in Files /\ main'[f] = Merged(f)
    <2>1. CASE SkipFile(f)
      <3>1. Skipped(f) /\ UNCHANGED <<main, applied, faults>>
        BY <2>1 DEF SkipFile
      <3> QED BY <1>1, <3>1, FileIsMerged
    <2>2. CASE SkipFailed(f)
      <3>1. /\ UNCHANGED <<main, applied>> /\ ~Skipped(f) /\ faults \in Nat
            /\ ((Missing(f) \/ f = Git) /\ faults' = faults) \/ faults' = faults + 1
        BY <2>2 DEF SkipFailed, TypeInv, ApplyInv
      <3> QED BY <1>1, <3>1, FileIsMerged, IntegrationAssumption
    <2>3. CASE ApplyFile(f)
      <3> f \in Files
        BY <2>3 DEF ApplyFile, Paths
      <3> DEFINE x == IF Changes(current)[f] = "deleted" THEN "none"
                      ELSE tree[summary[current].worker][f]
      <3>1. main' = [main EXCEPT ![f] = x] /\ ~Skipped(f) /\ faults' = faults
            /\ applied' = applied \union {f}
        BY <2>3 DEF ApplyFile
      <3>2. x = Merged(f)
        BY <1>1, <3>1, FileIsMerged
      <3> HIDE DEF x
      <3> QED BY <1>3, <3>1, <3>2 DEF Paths
    <2> QED BY <2>1, <2>2, <2>3
  <1>5. /\ \A g \in Files : main'[g] \in {base'[g], Merged(g)'}
        /\ \A g \in applied' : main'[g] = Merged(g)'
    BY <1>1, <1>2, <1>4 DEF MergeInv, TypeInv, ApplyInv
  <1>6. ASSUME faults' = 0, NEW i \in 1..current', NEW g \in Files \intersect DOMAIN Changes(i)',
               i < current' \/ g \notin todo'
        PROVE  main'[g] = Merged(g)'
    <2>1. g \in Files \intersect DOMAIN Changes(i) /\ i \in 1..current /\ faults = 0
      BY <1>1, <1>2, <1>4, <1>6
    <2>2. CASE g = f
      BY <1>2, <1>4, <1>6, <2>2
    <2>3. CASE g # f
      <3>1. i < current \/ g \notin todo
        BY <1>1, <1>6, <2>3
      <3>2. main[g] = Merged(g)
        BY <1>1, <2>1, <3>1 DEF MergeInv
      <3> QED BY <1>2, <1>4, <2>1, <2>3, <3>2
    <2> QED BY <2>2, <2>3
  <1> QED BY <1>1, <1>2, <1>5, <1>6 DEF MergeInv

LEMMA NextWorkerKeepsMerge ==
  ASSUME TypeInv, MergeInv, NextWorker
  PROVE  MergeInv'
  <1> SUFFICES ASSUME quiet'
               PROVE  MergeInv'
    BY DEF MergeInv
  <1>1. /\ pc = "apply" /\ quiet /\ todo = {}
        /\ UNCHANGED <<main, summary, selected, base, tree, gone, mode, applies, faults>>
    BY DEF NextWorker, outside
  <1>2. (\A g : Merged(g)' = Merged(g)) /\ Compared' /\ Chosen' = Chosen
        /\ \A i : Changes(i)' = Changes(i)
    BY <1>1, SameMerge DEF MergeInv, Changes
  <1>3. Len(summary) \in Nat /\ current \in 1..Len(summary)
    BY <1>1, LenProperties DEF TypeInv, ApplyInv, BuildInv
  <1>4. \A g \in Files : main'[g] \in {base'[g], Merged(g)'}
    BY <1>1, <1>2 DEF MergeInv
  <1>5. faults = 0 =>
          \A i \in 1..current : \A g \in Files \intersect DOMAIN Changes(i) : main[g] = Merged(g)
    BY <1>1 DEF MergeInv
  <1>6. CASE current < Len(summary)
    <2>1. current' = current + 1 /\ todo' = DOMAIN Changes(current + 1)
          /\ pc' = "apply" /\ applied' = applied
      BY <1>1, <1>6 DEF NextWorker
    <2>2. ASSUME faults' = 0, NEW i \in 1..current',
                 NEW g \in Files \intersect DOMAIN Changes(i)',
                 i < current' \/ g \notin todo'
          PROVE  main'[g] = Merged(g)'
      <3>1. g \in Files \intersect DOMAIN Changes(i)
        BY <1>2, <2>2
      <3>2. i \in 1..current
        BY <1>3, <2>1, <2>2, <3>1
      <3> QED BY <1>1, <1>2, <1>5, <2>2, <3>1, <3>2
    <2>3. \A g \in applied' : main'[g] = Merged(g)'
      BY <1>1, <1>2, <2>1 DEF MergeInv
    <2> QED BY <1>2, <1>4, <2>1, <2>2, <2>3 DEF MergeInv
  <1>7. CASE ~(current < Len(summary))
    <2>1. pc' = "saved" /\ current = Len(summary)
      BY <1>1, <1>3, <1>7 DEF NextWorker
    <2>2. Complete /\ FilesInv
      BY <1>1, SavedIsComplete
    <2>3. ASSUME faults = 0, NEW g \in Files PROVE main[g] = Merged(g)
      <3>1. CASE \E i \in 1..Len(summary) : g \in DOMAIN Changes(i)
        BY <1>5, <2>1, <2>3, <3>1
      <3>2. CASE ~\E i \in 1..Len(summary) : g \in DOMAIN Changes(i)
        <4>1. DOMAIN summary = 1..Len(summary)
          BY LenProperties DEF TypeInv, BuildInv
        <4>2. Owners(g) = {}
          BY <3>2, <4>1 DEF Owners, Changes
        <4>3. Merged(g) = base[g]
          BY <2>2, <4>2, OwnersAreChangers, MergeTakes DEF Paths
        <4> QED BY <1>1, <1>4, <1>2, <4>3
      <3> QED BY <3>1, <3>2
    <2>4. faults' = 0 => MainIsMerged'
      BY <1>1, <1>2, <2>3 DEF MainIsMerged
    <2>5. applies \in Nat /\ applies > 0 /\ ~Aborted
      <3>1. mode = "abort_if_conflicts" => ConflictCandidates = {}
        BY <1>1 DEF TypeInv, ApplyInv
      <3> QED BY <1>1, <2>2, <3>1, ConflictsAreWorkers DEF TypeInv, ApplyInv, Aborted
    <2>6. ~Aborted'
      BY <1>1, <1>2, <2>5 DEF Aborted
    <2> QED BY <1>1, <1>2, <1>4, <2>1, <2>4, <2>5, <2>6 DEF MergeInv
  <1> QED BY <1>6, <1>7

LEMMA BeginApplyKeepsMerge ==
  ASSUME TypeInv, MergeInv, BeginApply
  PROVE  MergeInv'
  <1> SUFFICES ASSUME quiet'
               PROVE  MergeInv'
    BY DEF MergeInv
  <1>1. /\ pc = "saved" /\ quiet /\ applies \in Nat /\ applies' = applies + 1 /\ applied' = {}
        /\ UNCHANGED <<main, summary, selected, base, tree, gone>>
    BY DEF BeginApply, outside, TypeInv, ApplyInv
  <1>2. (\A g : Merged(g)' = Merged(g)) /\ Compared' /\ Chosen' = Chosen
        /\ \A i : Changes(i)' = Changes(i)
    BY <1>1, SameMerge DEF MergeInv, Changes
  <1>3. \A g \in Files : main'[g] \in {base'[g], Merged(g)'}
    BY <1>1, <1>2 DEF MergeInv
  <1>4. CASE mode' = "abort_if_conflicts" /\ ConflictCandidates # {}
    <2>1. pc' = "saved" /\ faults' = faults
      BY <1>1, <1>4 DEF BeginApply
    <2>2. Cardinality(Chosen) > 1
      BY <1>1, <1>4, SavedIsComplete, ConflictsAreWorkers
    <2>3. Aborted'
      BY <1>2, <1>4, <2>2 DEF Aborted
    <2>4. faults' = 0 => MainIsBase' \/ (MainIsMerged' /\ applies > 0)
      BY <1>1, <1>2, <2>1 DEF MergeInv, MainIsBase, MainIsMerged
    <2> QED BY <1>1, <1>2, <1>3, <2>1, <2>3, <2>4 DEF MergeInv
  <1>5. CASE ~(mode' = "abort_if_conflicts" /\ ConflictCandidates # {})
    <2>1. pc' = "apply" /\ current' = 1 /\ todo' = DOMAIN Changes(1)
      BY <1>5 DEF BeginApply
    <2>2. ASSUME NEW i \in 1..current', NEW g \in Files \intersect DOMAIN Changes(i)',
                 i < current' \/ g \notin todo'
          PROVE  FALSE
      <3>1. i = 1
        BY <2>1
      <3> QED BY <1>2, <2>1, <2>2, <3>1
    <2> QED BY <1>1, <1>2, <1>3, <2>1, <2>2 DEF MergeInv
  <1> QED BY <1>4, <1>5

LEMMA BuildKeepsMerge ==
  ASSUME TypeInv, MergeInv, Build
  PROVE  MergeInv'
  <1> SUFFICES ASSUME quiet'
               PROVE  MergeInv'
    BY DEF MergeInv
  <1>1. CASE SelectWorkers
    <2>1. pc' \in {"selected", "idle"}
      BY <1>1 DEF SelectWorkers
    <2> QED BY <2>1 DEF MergeInv
  <1>2. CASE SnapshotBase
    <2>1. pc' = "scan" /\ main' = main /\ base' = main /\ summary' = <<>> /\ applies' = 0
      BY <1>2 DEF SnapshotBase
    <2>2. Compared'
      BY <2>1 DEF Compared
    <2> QED BY <2>1, <2>2 DEF MergeInv
  <1>3. CASE SnapshotWorker
    <2> DEFINE w == selected[Len(summary) + 1]
               e == [worker |-> w, changes |-> Diff(base, tree[w])]
    <2>1. /\ pc = "scan" /\ quiet /\ UNCHANGED <<main, base, tree, gone, applies>>
          /\ \/ pc' = "idle"
             \/ pc' = "scan" /\ summary' = Append(summary, e) /\ w \notin gone
      BY <1>3 DEF SnapshotWorker, applying, outside
    <2>2. CASE pc' = "idle"
      BY <2>2 DEF MergeInv
    <2>3. CASE pc' = "scan" /\ summary' = Append(summary, e)
      <3>1. summary \in Seq(Entries) /\ Len(summary) \in Nat
        BY LenProperties DEF TypeInv, BuildInv
      <3>2. w \notin gone
        BY <2>1, <2>3
      <3>3. w \in Workers
        <4>1. selected \in Seq(Workers) /\ Len(selected) \in Nat /\ Len(summary) < Len(selected)
          BY <1>3, LenProperties DEF SnapshotWorker, TypeInv, BuildInv
        <4> QED BY <3>1, <4>1, ElementOfSeq
      <3>4. e \in Entries
        <4> DEFINE d == Diff(base, tree[w])
        <4>1. d \in Differences
          BY DiffType
        <4> HIDE DEF d
        <4>2. [worker |-> w, changes |-> d] \in Entries
          BY <3>3, <4>1 DEF Entries
        <4> QED BY <4>2 DEF d
      <3>5. e.worker = w /\ e.changes = Diff(base, tree[w])
        OBVIOUS
      <3> HIDE DEF e, w
      <3> DEFINE s == Append(summary, e)
      <3>6. /\ Len(s) = Len(summary) + 1
            /\ \A i \in 1..Len(summary) : s[i] = summary[i]
            /\ s[Len(summary) + 1] = e
        BY <3>1, <3>4, AppendProperties
      <3> HIDE DEF s
      <3>7. ASSUME NEW i \in 1..Len(s)
            PROVE  s[i].worker \notin gone /\ s[i].changes = Diff(base, tree[s[i].worker])
        <4>1. CASE i = Len(summary) + 1
          BY <3>2, <3>5, <3>6, <4>1
        <4>2. CASE i # Len(summary) + 1
          <5>1. i \in 1..Len(summary) /\ s[i] = summary[i]
            BY <3>1, <3>6, <4>2
          <5>2. /\ summary[i].worker \notin gone
                /\ summary[i].changes = Diff(base, tree[summary[i].worker])
            BY <2>1, <5>1 DEF MergeInv, Compared
          <5> QED BY <5>1, <5>2
        <4> QED BY <4>1, <4>2
      <3>8. Compared'
        <4>1. summary' = s
          BY <2>3 DEF s
        <4> QED BY <2>1, <3>7, <4>1 DEF Compared, Diff
      <3> QED BY <2>1, <2>3, <3>8 DEF MergeInv
    <2> QED BY <2>1, <2>2, <2>3
  <1>4. CASE SaveArtifact
    <2>1. /\ pc = "scan" /\ quiet /\ pc' \in {"saved", "idle"}
          /\ UNCHANGED <<main, base, summary, selected, tree, gone, applies, faults>>
      BY <1>4 DEF SaveArtifact, applying, outside
    <2>2. main = base /\ applies = 0 /\ Compared
      BY <2>1 DEF MergeInv
    <2>3. Compared'
      BY <2>1, <2>2, SameMerge
    <2>4. \A f \in Files : main'[f] = base'[f]
      BY <2>1, <2>2
    <2> QED BY <2>1, <2>2, <2>3, <2>4 DEF MergeInv, MainIsBase
  <1> QED BY <1>1, <1>2, <1>3, <1>4 DEF Build

LEMMA StutterKeepsMerge ==
  ASSUME MergeInv, UNCHANGED vars
  PROVE  MergeInv'
  <1>1. UNCHANGED <<selected, base, summary, tree, gone, main>>
    BY DEF vars
  <1>2. /\ (\A f : Merged(f)' = Merged(f)) /\ (Compared => Compared')
        /\ (Aborted' <=> Aborted) /\ \A i : Changes(i)' = Changes(i)
    BY <1>1, SameMerge DEF Changes, Aborted, vars
  <1>3. (MainIsMerged' <=> MainIsMerged) /\ (MainIsBase' <=> MainIsBase)
    BY <1>1, <1>2 DEF MainIsMerged, MainIsBase
  <1> QED BY <1>1, <1>2, <1>3 DEF MergeInv, vars

\* When nobody else changes a file and every file can be written, an apply that
\* ended leaves the merge of the workers in the files of the main tree, also when
\* it repeats one that could not write some file; in the strict mode it changes
\* nothing of two workers, whatever they changed (ApplyIntegration).
THEOREM ApplyIsMerge == Spec => []ApplyMerges
  <1>1. Init => MergeInv
    BY DEF Init, MergeInv
  <1>2. TypeInv /\ MergeInv /\ [Next]_vars => MergeInv'
    <2>1. TypeInv /\ MergeInv /\ Apply => MergeInv'
      BY FileKeepsMerge, NextWorkerKeepsMerge, BeginApplyKeepsMerge DEF Apply
    <2>2. TypeInv /\ Others => MergeInv'
      BY OthersKeepTypes DEF MergeInv
    <2> QED BY Zenon, <2>1, <2>2, BuildKeepsMerge, StutterKeepsMerge DEF Next, Others
  <1>3. TypeInv /\ MergeInv => ApplyMerges
    BY DEF MergeInv, Aborted, ApplyMerges
  <1> QED BY <1>1, <1>2, <1>3, TypeInvariant, PTL DEF Spec
=============================================================================
