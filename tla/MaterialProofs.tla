---------------------------- MODULE MaterialProofs ----------------------------
(***************************************************************************)
(* Theorems about what an attempt is made from and what it leaves: its     *)
(* record (module Provenance) and the way of its work tree into the graded *)
(* one (module Workspace).                                                 *)
(***************************************************************************)
EXTENDS Workspace, Provenance, TLAPS

(***************************************************************************)
(* Workspace.                                                              *)
(***************************************************************************)

\* What extract_diff takes of a work tree: all of it but the listed files.
Taken == [p \in Paths |-> IF p \in listed THEN Absent ELSE left[p]]

\* Where the work is, from the work tree to the graded one.  Of the files no one
\* has touched, those still to be read are as they were, and the others staged.
Carried ==
  /\ stage = "working" => pending = {} /\ touched = {}
  /\ stage = "staging" => \A p \in pending \ touched : work[p] = left[p] /\ p \notin listed
  /\ stage \in {"staging", "staged"} => \A p \in Paths \ (pending \union touched) : index[p] = Taken[p]
  /\ stage = "staged" => pending = {}
  /\ stage \in {"extracted", "pristine", "graded"} =>
       /\ \A p \in Paths : /\ patch[p].old = base[p]
                           /\ patch[p].new \in Bodies \union {Absent}
       /\ \A p \in Paths \ touched : patch[p].new = Taken[p]
  /\ stage = "pristine" => grade = source

WorkspaceInv == WorkspaceCorrect /\ Carried

LEMMA AddAllType ==
  ASSUME NEW w \in WorkTree, NEW i \in WorkTree
  PROVE  AddAll(w, i) \in WorkTree
  BY DEF AddAll, WorkTree

LEMMA HoldsType == ASSUME NEW p \in Paths PROVE Holds(p) \subseteq Bodies \union {Absent}
  BY DEF Holds, Bodies

LEMMA WorkspaceInit == WorkInit => WorkspaceInv
<1> SUFFICES ASSUME WorkInit PROVE WorkspaceInv
  OBVIOUS
<1>1. Empty \in WorkTree
  BY DEF Empty, WorkTree
<1>2. WorkTypeOK
  BY <1>1, AddAllType DEF WorkInit, WorkTypeOK
<1> QED
  BY <1>2
  DEF WorkInit, WorkspaceInv, WorkspaceCorrect, Carried, GradedIsWhatWasLeft, CarriedPatchApplies

\* Whatever a participant does until the work is staged, and whatever is left of it
\* does from then on, what it has not touched stays staged.
LEMMA ParticipantKeeps == WorkspaceInv /\ Participant => WorkspaceInv'
<1> SUFFICES ASSUME WorkspaceInv, Participant PROVE WorkspaceInv'
  OBVIOUS
<1> USE DEF WorkspaceInv, WorkspaceCorrect
<1>1. /\ stage \in {"working", "staging", "staged"}
      /\ UNCHANGED <<source, pending, left, listed, patch, grade, result, stage>>
  BY DEF Participant, EditFile, Add, Commit, Reset, Retag, Busy, repo, staging
<1>2. /\ work \in WorkTree /\ index \in WorkTree /\ head \in WorkTree /\ base \in WorkTree
      /\ touched \subseteq Paths /\ pending \subseteq Paths /\ tagged \in BOOLEAN
  BY DEF WorkTypeOK
<1> DEFINE Repository ==
      /\ {work', index', head', base'} \subseteq WorkTree /\ tagged' \in BOOLEAN
      /\ touched' \subseteq Paths /\ touched \subseteq touched'
      /\ stage = "working" => touched' = touched
      /\ stage = "staging" => /\ index' = index
                              /\ \A p \in pending \ touched' : work'[p] = work[p]
      /\ stage = "staged" => \A p \in Paths \ touched' : index'[p] = index[p]
<1>3. Repository
  <2>1. ASSUME NEW p \in Paths, NEW c \in Holds(p), EditFile(p, c) PROVE Repository
    <3>1. work' \in WorkTree /\ \A q \in Paths \ {p} : work'[q] = work[q]
      BY <1>2, <2>1, HoldsType DEF EditFile, WorkTree
    <3>2. pending = {} \/ stage = "staging"
      BY <1>1 DEF Carried
    <3> QED
      BY <1>2, <2>1, <3>1, <3>2 DEF EditFile, tags, Carried
  <2>2. ASSUME index' \in WorkTree, work' \in WorkTree, head' \in WorkTree, Unlocked, Disturbs,
               UNCHANGED <<tags, stage>>
        PROVE  Repository
    BY <1>2, <2>2 DEF Unlocked, Disturbs, tags
  <2>3. CASE Add
    <3>1. AddAll(work, index) \in WorkTree
      BY <1>2, AddAllType
    <3>2. \A p \in FileNames : work[p] \in Bodies \union {Absent}
      BY <1>2 DEF WorkTree, Paths
    <3>3. index' \in WorkTree
      BY <1>2, <2>3, <3>1, <3>2 DEF Add, WorkTree
    <3> QED
      BY <1>2, <2>2, <2>3, <3>3 DEF Add
  <2>4. CASE Commit
    <3>1. [p \in Paths |-> IF index[p] = Absent THEN Absent ELSE work[p]] \in WorkTree
      BY <1>2 DEF WorkTree
    <3> QED
      BY <1>2, <2>2, <2>4, <3>1 DEF Commit
  <2>5. CASE Reset
    <3>1. PICK t \in {head, base} :
            /\ head' = t /\ index' = t
            /\ work' = [p \in Paths |-> IF t[p] # Absent \/ index[p] # Absent THEN t[p] ELSE work[p]]
      BY <2>5 DEF Reset
    <3>2. work' \in WorkTree
      BY <1>2, <3>1 DEF WorkTree
    <3> QED
      BY <1>2, <2>2, <2>5, <3>1, <3>2 DEF Reset
  <2>6. CASE Retag
    BY <1>2, <2>6 DEF Retag, repo, staging
  <2> QED
    BY <2>1, <2>3, <2>4, <2>5, <2>6 DEF Participant
<1>4. WorkTypeOK'
  BY <1>1, <1>3 DEF WorkTypeOK
<1>5. Carried'
  BY <1>1, <1>2, <1>3 DEF Carried, Taken
<1> QED
  BY <1>1, <1>4, <1>5 DEF GradedIsWhatWasLeft, CarriedPatchApplies

\* extract_diff and the pristine copy.
LEMMA ExtractionKeeps == WorkspaceInv /\ (ExtractDiff \/ PreparePristine) => WorkspaceInv'
<1> SUFFICES ASSUME WorkspaceInv, ExtractDiff \/ PreparePristine PROVE WorkspaceInv'
  OBVIOUS
<1> USE DEF WorkspaceInv, WorkspaceCorrect
<1>1. CASE BeginAdd
  <2>1. left' \in WorkTree /\ listed' \subseteq Ignorable /\ pending' \subseteq Paths
    BY <1>1 DEF BeginAdd, WorkTypeOK, Ignored
  <2>2. WorkTypeOK'
    BY <1>1, <2>1 DEF BeginAdd, WorkTypeOK, repo, tags
  <2>3. ASSUME NEW p \in Paths PROVE IF p \in pending' THEN work[p] = left'[p] /\ p \notin listed'
                                                       ELSE index[p] = Taken'[p]
    BY <1>1 DEF BeginAdd, Taken
  <2>4. Carried'
    BY <1>1, <2>1, <2>3 DEF BeginAdd, Carried, repo, tags
  <2> QED
    BY <1>1, <2>2, <2>4 DEF BeginAdd, GradedIsWhatWasLeft, CarriedPatchApplies
<1>2. ASSUME NEW p \in Paths, ReadFile(p) PROVE WorkspaceInv'
  <2>1. /\ index' \in WorkTree /\ index'[p] = work[p]
        /\ \A q \in Paths \ {p} : index'[q] = index[q]
    BY <1>2 DEF ReadFile, WorkTypeOK, WorkTree
  <2>2. WorkTypeOK'
    BY <1>2, <2>1 DEF ReadFile, WorkTypeOK, tags
  <2>3. Carried'
    BY <1>2, <2>1 DEF ReadFile, Carried, Taken, tags
  <2> QED
    BY <1>2, <2>2, <2>3 DEF ReadFile, GradedIsWhatWasLeft, CarriedPatchApplies
<1>3. CASE EndAdd
  <2>1. WorkTypeOK'
    BY <1>3 DEF EndAdd, WorkTypeOK, repo, tags, staging
  <2> QED
    BY <1>3, <2>1
    DEF EndAdd, Carried, Taken, GradedIsWhatWasLeft, CarriedPatchApplies, repo, tags, staging
<1>4. CASE Diff
  <2>1. \A p \in Paths : /\ patch'[p].old = base[p] /\ patch'[p].new = index[p]
                         /\ index[p] \in Bodies \union {Absent}
    BY <1>4 DEF Diff, Changes, WorkTypeOK, WorkTree
  <2>2. WorkTypeOK'
    BY <1>4 DEF Diff, WorkTypeOK, repo, tags, staging
  <2> QED
    BY <1>4, <2>1, <2>2
    DEF Diff, Carried, Taken, GradedIsWhatWasLeft, CarriedPatchApplies, repo, tags, staging
<1>5. CASE ExtractFails
  <2>1. WorkTypeOK'
    BY <1>5 DEF ExtractFails, WorkTypeOK, repo, tags, staging
  <2> QED
    BY <1>5, <2>1 DEF ExtractFails, Carried, GradedIsWhatWasLeft, CarriedPatchApplies
<1>6. CASE PreparePristine
  <2>1. WorkTypeOK'
    BY <1>6 DEF PreparePristine, WorkTypeOK, repo, tags, staging
  <2> QED
    BY <1>6, <2>1
    DEF PreparePristine, Carried, Taken, GradedIsWhatWasLeft, CarriedPatchApplies, repo, tags,
        staging
<1> QED
  BY <1>1, <1>2, <1>3, <1>4, <1>5, <1>6 DEF ExtractDiff

\* A file whose baseline the pristine copy has gets what was staged of it, and only
\* what the text of the patch cannot carry is refused or arrives as something else.
LEMMA ApplicationKeeps == WorkspaceInv /\ ApplyPatch => WorkspaceInv'
<1> SUFFICES ASSUME WorkspaceInv, ApplyPatch PROVE WorkspaceInv'
  OBVIOUS
<1> USE DEF WorkspaceInv, WorkspaceCorrect
<1>1. /\ stage = "pristine" /\ stage' = "graded" /\ grade = source /\ source \in WorkTree
      /\ UNCHANGED <<source, repo, tags, staging, patch>>
      /\ Carried'
  BY DEF ApplyPatch, Carried, Taken, WorkTypeOK, repo, tags, staging
<1>2. \A p \in Paths :
        /\ patch[p].old = base[p] /\ patch[p].new \in Bodies \union {Absent}
        /\ grade[p] \in Bodies \union {Absent}
        /\ p \notin listed \union touched => patch[p].new = left[p]
  BY <1>1 DEF Carried, Taken, WorkTree
<1>3. /\ Changed' = Changed /\ Uncarried' = Uncarried /\ Rebased' = Rebased
      /\ \A p \in Changed : Fits(p) \/ p \in Uncarried \union Rebased
      /\ \A p \in Paths \ Rebased : grade[p] = patch[p].old /\ ~Near(p)
  <2>1. Changed' = Changed /\ Uncarried' = Uncarried /\ Rebased' = Rebased
    BY <1>1 DEF Changed, Uncarried, Literal, Rebased, tags
  <2>2. \A p \in Paths \ Rebased : grade[p] = patch[p].old /\ ~Near(p)
    BY <1>1, <1>2 DEF Rebased, Near
  <2>3. \A p \in Changed : Fits(p) \/ p \in Uncarried \union Rebased
    BY <2>2 DEF Changed, Uncarried, Fits
  <2> QED
    BY <2>1, <2>2, <2>3
<1>4. \A p \in Paths : /\ Patched(p) \in Bodies \union {Absent}
                       /\ p \notin Uncarried \union Rebased => Patched(p) = patch[p].new
  BY <1>2, <1>3 DEF Patched, Changed, Uncarried, Bodies
<1>5. CASE Changed = {} /\ result' = "empty" /\ UNCHANGED grade
  <2>1. \A p \in Paths \ Rebased : grade[p] = patch[p].new
    BY <1>3, <1>5 DEF Changed
  <2>2. WorkTypeOK'
    BY <1>1, <1>5 DEF WorkTypeOK, repo, tags, staging
  <2> QED
    BY <1>1, <1>2, <1>3, <1>5, <2>1, <2>2
    DEF GradedIsWhatWasLeft, CarriedPatchApplies, staging
<1>6. ASSUME NEW exact \in SUBSET {p \in Changed : patch[p].old \in Odd},
             NEW merged \in [{p \in Paths : Near(p)} -> Plain \union Odd], result' = "applied",
             grade' = [p \in Paths |-> IF Near(p) THEN merged[p]
                                       ELSE IF p \in exact THEN patch[p].new ELSE Patched(p)]
      PROVE  WorkspaceInv'
  <2>1. grade' \in WorkTree
    <3>1. \A p \in Paths : Near(p) => merged[p] \in Bodies
      BY DEF Bodies, Written
    <3> QED
      BY <1>2, <1>4, <1>6, <3>1 DEF WorkTree
  <2>2. \A p \in Paths \ (Uncarried \union Rebased) : grade'[p] = patch[p].new
    BY <1>2, <1>3, <1>4, <1>6
  <2>3. WorkTypeOK'
    BY <1>1, <1>6, <2>1 DEF WorkTypeOK, repo, tags, staging
  <2> QED
    BY <1>1, <1>2, <1>3, <1>6, <2>2, <2>3
    DEF GradedIsWhatWasLeft, CarriedPatchApplies, staging
<1>7. CASE (\E p \in Changed : ~Fits(p)) /\ result' = "rejected" /\ UNCHANGED grade
  <2>1. Uncarried # {} \/ Changed \intersect Rebased # {}
    BY <1>3, <1>7
  <2>2. WorkTypeOK'
    BY <1>1, <1>7 DEF WorkTypeOK, repo, tags, staging
  <2> QED
    BY <1>1, <1>3, <1>7, <2>1, <2>2 DEF GradedIsWhatWasLeft, CarriedPatchApplies
<1> QED
  BY <1>5, <1>6, <1>7 DEF ApplyPatch

THEOREM WorkspaceInvariant == WorkSpec => []WorkspaceInv
<1>1. WorkInit => WorkspaceInv
  BY WorkspaceInit
<1>2. WorkspaceInv /\ [WorkNext]_workVars => WorkspaceInv'
  <2> SUFFICES ASSUME WorkspaceInv, [WorkNext]_workVars PROVE WorkspaceInv'
    OBVIOUS
  <2>1. CASE UNCHANGED workVars
    BY <2>1 DEF workVars, repo, tags, staging, WorkspaceInv, WorkspaceCorrect, WorkTypeOK, Carried,
                Taken, GradedIsWhatWasLeft, CarriedPatchApplies, Uncarried, Rebased, Changed, Literal
  <2> QED
    BY <2>1, ParticipantKeeps, ExtractionKeeps, ApplicationKeeps DEF WorkNext
<1> QED
  BY <1>1, <1>2, PTL DEF WorkSpec

THEOREM WorkspaceIsCorrect == WorkSpec => []WorkspaceCorrect
  BY WorkspaceInvariant, PTL DEF WorkspaceInv

-------------------------------------------------------------------------------
(***************************************************************************)
(* Provenance.                                                             *)
(***************************************************************************)

Modes == {"local", "locked"}
Setup == [mode : Modes \union {None}, override : References \union {None},
          checkout : Checkouts \union {None}]
Pairs == (Files \X (Contents \union {None}))
RecordType == [digest : SUBSET Pairs, ref : References \union {None}, id : Images \union {None}]
RanType ==
  [tree : Tree, image : Images \union {None},
   outcome : {None, "not pinned", "missing", "fault", "no image", "started"}]

Shapes ==
  /\ tree \in Tree /\ tag \in present \union {None} /\ present \subseteq Images
  /\ n \in 0..MaxAttempts /\ (pc # "idle" => n \in Attempts)
  /\ pc \in {"idle", "resolve", "capture", "stage", "construct", "up"}
  /\ tries \in 0..(MaxTries - 1)
  /\ reference \in References \union {None}
  /\ setup \in [Attempts -> Setup]
  /\ record \in [Attempts -> RecordType]
  /\ ran \in [Attempts -> RanType]
  /\ steady \subseteq Attempts

\* What an attempt's options come to, each time they are resolved.
Target(a) ==
  IF setup[a].override # None THEN setup[a].override
  ELSE IF setup[a].mode = "locked" THEN Locked ELSE Tag

\* The digest of a tree that is looked at from a checkout.
DigestOf(t, c) == {<<f, t[f]>> : f \in {g \in Files \ Skipped : t[g] # None /\ c \notin Hidden}}

\* How far the present attempt is, and what the ones before it ended with.
Course ==
  /\ \A a \in Attempts : a > n => ran[a].image = None /\ ran[a].outcome = None
  /\ pc # "idle" =>
       /\ setup[n].mode \in Modes
       /\ ran[n].image = None /\ ran[n].outcome = None
  /\ \A a \in Attempts : (ran[a].outcome = "started") <=> (ran[a].image # None)
  /\ pc \in {"capture", "stage", "construct", "up"} =>
       (setup[n].mode = "locked" => setup[n].override # Tag)
  /\ pc \in {"capture", "stage", "up"} => reference = Target(n)

\* What is on the record of an attempt once it is captured.
Recorded ==
  /\ pc \in {"stage", "construct", "up"} =>
       /\ record[n].ref = Target(n)
       /\ setup[n].mode = "locked" => record[n].id \in {Target(n), None}
       /\ n \in steady =>
            /\ record[n].digest = DigestOf(tree, setup[n].checkout)
            /\ record[n].id \in {Named(Target(n)), None}
  /\ pc \in {"construct", "up"} /\ n \in steady => ran[n].tree = tree
  /\ \A a \in Attempts : Started(a) =>
       /\ record[a].digest = DigestOf(ran[a].tree, setup[a].checkout)
       /\ record[a].id \in {ran[a].image, None}

ProvenanceInv == Shapes /\ Course /\ Recorded /\ LockedRunsItsRecord

\* Trees are told apart by their digests, unless the digest looks at nothing.
LEMMA DigestsTellTreesApart ==
  ASSUME NEW t, NEW u, NEW c, NEW d, c \notin Hidden, d \notin Hidden
  PROVE  DigestOf(t, c) = DigestOf(u, d)
           <=> [f \in Files \ Skipped |-> t[f]] = [f \in Files \ Skipped |-> u[f]]
<1>1. ASSUME DigestOf(t, c) = DigestOf(u, d), NEW f \in Files \ Skipped PROVE t[f] = u[f]
  <2>1. CASE t[f] # None
    <3>1. <<f, t[f]>> \in DigestOf(u, d)
      BY <1>1, <2>1 DEF DigestOf
    <3> QED
      BY <3>1 DEF DigestOf
  <2>2. CASE u[f] # None
    <3>1. <<f, u[f]>> \in DigestOf(t, c)
      BY <1>1, <2>2 DEF DigestOf
    <3> QED
      BY <3>1 DEF DigestOf
  <2> QED
    BY <2>1, <2>2
<1>2. ASSUME [f \in Files \ Skipped |-> t[f]] = [f \in Files \ Skipped |-> u[f]]
      PROVE  DigestOf(t, c) = DigestOf(u, d)
  <2>1. \A f \in Files \ Skipped : t[f] = u[f]
    BY <1>2
  <2> QED
    BY <2>1 DEF DigestOf
<1> QED
  BY <1>1, <1>2

LEMMA ProvenanceGives == ProvenanceInv => ProvenanceCorrect
<1> SUFFICES ASSUME ProvenanceInv PROVE ProvenanceCorrect
  OBVIOUS
<1>1. TypeOK
  <2>1. ASSUME NEW a \in Attempts
        PROVE  /\ ran[a].tree \in Tree /\ ran[a].image \in Images \union {None}
               /\ (ran[a].outcome = "started") <=> (ran[a].image # None)
    BY DEF ProvenanceInv, Shapes, Course, RanType
  <2>2. tries < MaxTries
    BY DEF ProvenanceInv, Shapes, MaxTries
  <2> QED
    BY <2>1, <2>2 DEF ProvenanceInv, Shapes, TypeOK
<1>2. RecordsTellRunsApart
  <2> SUFFICES ASSUME NEW a \in Attempts, NEW b \in Attempts, Started(a), Started(b),
                      {setup[a].checkout, setup[b].checkout} \intersect Hidden = {}
               PROVE  /\ (record[a].digest = record[b].digest) <=> (Visible(a) = Visible(b))
                      /\ record[a].id = record[b].id /\ record[a].id # None
                           => ran[a].image = ran[b].image
    BY DEF RecordsTellRunsApart
  <2>1. /\ record[a].digest = DigestOf(ran[a].tree, setup[a].checkout)
        /\ record[b].digest = DigestOf(ran[b].tree, setup[b].checkout)
        /\ record[a].id \in {ran[a].image, None} /\ record[b].id \in {ran[b].image, None}
    BY DEF ProvenanceInv, Recorded
  <2>2. (record[a].digest = record[b].digest) <=> (Visible(a) = Visible(b))
    BY <2>1, DigestsTellTreesApart DEF Visible
  <2> QED
    BY <2>1, <2>2
<1> QED
  BY <1>1, <1>2 DEF ProvenanceCorrect, ProvenanceInv

LEMMA ProvenanceInit == Init => ProvenanceInv
<1> SUFFICES ASSUME Init PROVE ProvenanceInv
  OBVIOUS
<1>1. Shapes
  BY ProvenanceAssumption
  DEF Init, Shapes, Tree, NoRecord, NotRun, Setup, RecordType, RanType, References, Attempts,
      MaxTries
<1>2. pc = "idle" /\ \A a \in Attempts : ran[a].image = None /\ ran[a].outcome = None
  BY DEF Init, NotRun
<1>3. Course
  BY <1>2 DEF Course, None
<1>4. Recorded
  BY <1>2 DEF Recorded, Started, None
<1>5. LockedRunsItsRecord
  BY <1>2 DEF LockedRunsItsRecord
<1> QED
  BY <1>1, <1>3, <1>4, <1>5 DEF ProvenanceInv

\* The owner disturbs the present attempt, which is then no longer steady, and none
\* that is over.
LEMMA OwnerKeeps == ProvenanceInv /\ Owner => ProvenanceInv'
<1> SUFFICES ASSUME ProvenanceInv, Owner PROVE ProvenanceInv'
  OBVIOUS
<1>1. /\ UNCHANGED <<n, pc, tries, setup, reference, record, ran>>
      /\ steady' = IF pc = "idle" THEN steady ELSE steady \ {n}
  BY DEF Owner, Edit, Build, Pull, Remove, Change
<1>2. tree' \in Tree /\ tag' \in present' \union {None} /\ present' \subseteq Images
  BY ProvenanceAssumption
  DEF ProvenanceInv, Shapes, Owner, Edit, Build, Pull, Remove, Change, Tree
<1>3. Shapes'
  BY <1>1, <1>2 DEF ProvenanceInv, Shapes
<1>4. Course' /\ LockedRunsItsRecord'
  BY <1>1 DEF ProvenanceInv, Course, LockedRunsItsRecord, Target
<1>5. Recorded'
  <2>1. pc # "idle" => n \notin steady'
    BY <1>1
  <2>2. \A a \in Attempts : Started(a)' => Started(a)
    BY <1>1 DEF Started
  <2> QED
    BY <1>1, <2>1, <2>2 DEF ProvenanceInv, Recorded, Target
<1> QED
  BY <1>3, <1>4, <1>5 DEF ProvenanceInv

LEMMA BeginKeeps == ProvenanceInv /\ Begin => ProvenanceInv'
<1> SUFFICES ASSUME ProvenanceInv, Begin PROVE ProvenanceInv'
  OBVIOUS
<1>1. /\ pc = "idle" /\ pc' = "resolve" /\ tries' = 0 /\ n' = n + 1 /\ n' \in Attempts /\ n' <= MaxAttempts
      /\ steady' = steady \union {n'}
      /\ UNCHANGED <<machine, changes, reference, record, ran>>
  BY ProvenanceAssumption DEF Begin, ProvenanceInv, Shapes, Attempts
<1>2. /\ setup' \in [Attempts -> Setup] /\ setup'[n'].mode \in Modes
      /\ \A a \in Attempts : a # n' => setup'[a] = setup[a]
  BY <1>1 DEF Begin, ProvenanceInv, Shapes, Setup, Modes
<1>3. Shapes'
  BY <1>1, <1>2, ProvenanceAssumption DEF ProvenanceInv, Shapes, machine, MaxTries
<1>4. ran[n'].image = None /\ ran[n'].outcome = None
  BY <1>1 DEF ProvenanceInv, Course, Shapes
<1>5. Course'
  BY <1>1, <1>2, <1>4 DEF ProvenanceInv, Course, Shapes, Attempts
<1>6. \A a \in Attempts : Started(a)' => a # n' /\ Started(a)
  BY <1>1, <1>4 DEF Started, None
<1>7. Recorded'
  BY <1>1, <1>2, <1>6 DEF ProvenanceInv, Recorded
<1>8. LockedRunsItsRecord'
  BY <1>1, <1>2, <1>4 DEF ProvenanceInv, LockedRunsItsRecord
<1> QED
  BY <1>3, <1>5, <1>7, <1>8 DEF ProvenanceInv

LEMMA FirstTry == 0 \in 0..(MaxTries - 1)
  BY DEF MaxTries

LEMMA LaterIsOther == \A a, b \in Attempts : a > b => a # b
  BY ProvenanceAssumption DEF Attempts

\* An attempt that ends without having started anything.
LEMMA EndKeeps ==
  ASSUME ProvenanceInv, pc # "idle",
         NEW outcome \in {"not pinned", "missing", "fault"}, End(outcome)
  PROVE  ProvenanceInv'
<1>1. /\ pc' = "idle" /\ tries' = 0 /\ reference' = None /\ n \in Attempts
      /\ UNCHANGED <<n, record, machine, changes, setup, steady>>
  BY DEF End, Stay, ProvenanceInv, Shapes
<1>2. /\ ran' \in [Attempts -> RanType] /\ ran'[n].outcome = outcome
      /\ ran'[n].image = None
      /\ \A a \in Attempts : a # n => ran'[a] = ran[a]
  BY <1>1 DEF End, ProvenanceInv, Shapes, Course, RanType
<1>3. Shapes'
  <2>1. tries' \in 0..(MaxTries - 1)
    BY <1>1, FirstTry
  <2> QED
    BY <1>1, <1>2, <2>1 DEF ProvenanceInv, Shapes, machine
<1>4. Course'
  <2>1. \A a \in Attempts : a > n => a # n
    BY <1>1, LaterIsOther
  <2> QED
    BY <1>1, <1>2, <2>1 DEF ProvenanceInv, Course, None
<1>5. \A a \in Attempts : Started(a)' => a # n /\ Started(a)
  BY <1>1, <1>2 DEF Started
<1>6. Recorded'
  BY <1>1, <1>2, <1>5 DEF ProvenanceInv, Recorded
<1>7. LockedRunsItsRecord'
  BY <1>1, <1>2 DEF ProvenanceInv, LockedRunsItsRecord
<1> QED
  BY <1>3, <1>4, <1>6, <1>7 DEF ProvenanceInv

\* The daemon is asked again, with nothing else changed.
LEMMA TryAgainKeeps ==
  ASSUME ProvenanceInv, tries + 1 < MaxTries, tries' = tries + 1,
         UNCHANGED <<n, pc, reference, record, ran>>, Stay
  PROVE  ProvenanceInv'
<1>1. Shapes'
  BY DEF ProvenanceInv, Shapes, Stay, machine, MaxTries
<1>2. Course' /\ LockedRunsItsRecord'
  BY DEF ProvenanceInv, Course, Stay, LockedRunsItsRecord, Target
<1>3. Recorded'
  BY DEF ProvenanceInv, Recorded, Stay, machine, Target, Started, Named
<1> QED
  BY <1>1, <1>2, <1>3 DEF ProvenanceInv

\* Both times an attempt's image is resolved to what its options come to.
LEMMA ResolvedKeeps ==
  ASSUME ProvenanceInv, Resolving, Resolved(Target(n)),
         setup[n].mode = "locked" => setup[n].override # Tag
  PROVE  ProvenanceInv'
<1>1. /\ n \in Attempts /\ tries' = 0
      /\ reference' = Target(n) /\ pc' = IF pc = "resolve" THEN "capture" ELSE "up"
      /\ UNCHANGED <<n, record, ran, machine, changes, setup, steady>>
  BY DEF Resolved, Stay, Resolving, ProvenanceInv, Shapes
<1>2. Target(n) \in References
  BY <1>1, ProvenanceAssumption DEF Target, References, ProvenanceInv, Shapes, Setup
<1>3. Shapes'
  BY <1>1, <1>2 DEF ProvenanceInv, Shapes, machine, MaxTries, Resolving
<1>4. Target(n)' = Target(n) /\ Named(Target(n))' = Named(Target(n))
      /\ \A a \in Attempts : Started(a)' <=> Started(a)
  BY <1>1 DEF Target, Named, machine, Started
<1>5. Course' /\ LockedRunsItsRecord'
  BY <1>1, <1>4 DEF ProvenanceInv, Course, Resolving, LockedRunsItsRecord
<1>6. Recorded'
  BY <1>1, <1>4 DEF ProvenanceInv, Recorded, Resolving, machine
<1> QED
  BY <1>3, <1>5, <1>6 DEF ProvenanceInv

LEMMA ResolutionKeeps ==
  ProvenanceInv /\ (ResolveOverride \/ ResolveLocked \/ ResolveLocal) => ProvenanceInv'
<1> SUFFICES ASSUME ProvenanceInv, ResolveOverride \/ ResolveLocked \/ ResolveLocal
             PROVE  ProvenanceInv'
  OBVIOUS
<1>1. Resolving /\ pc # "idle" /\ n \in Attempts /\ setup[n].mode \in Modes
  BY DEF ResolveOverride, ResolveLocked, ResolveLocal, Resolving, ProvenanceInv, Shapes, Course
<1>2. Tag # None /\ Locked # None
  BY ProvenanceAssumption DEF Tag, None
<1>3. CASE ResolveOverride
  <2>1. CASE setup[n].mode = "locked" /\ setup[n].override = Tag
    BY <1>1, <1>3, <2>1, EndKeeps DEF ResolveOverride
  <2>2. CASE ~(setup[n].mode = "locked" /\ setup[n].override = Tag)
    BY <1>1, <1>3, <2>2, ResolvedKeeps DEF ResolveOverride, Target
  <2> QED
    BY <2>1, <2>2
<1>4. CASE ResolveLocked
  BY <1>1, <1>2, <1>4, ResolvedKeeps DEF ResolveLocked, Target
<1>5. CASE ResolveLocal
  <2>1. CASE Resolved(Tag)
    BY <1>1, <1>5, <2>1, ResolvedKeeps DEF ResolveLocal, Target
  <2>2. CASE End("missing")
    BY <1>1, <2>2, EndKeeps
  <2>3. CASE Unanswered
    BY <1>1, <2>3, EndKeeps, TryAgainKeeps DEF Unanswered
  <2> QED
    BY <1>5, <2>1, <2>2, <2>3 DEF ResolveLocal
<1> QED
  BY <1>3, <1>4, <1>5

LEMMA NamedType ==
  ASSUME Shapes, NEW r \in References
  PROVE  /\ Named(r) \in Images \union {None}
         /\ r # Tag => Named(r) \in {r, None}
  BY DEF Shapes, Named, References

LEMMA CaptureKeeps == ProvenanceInv /\ Capture => ProvenanceInv'
<1> SUFFICES ASSUME ProvenanceInv, Capture PROVE ProvenanceInv'
  OBVIOUS
<1>1. /\ pc = "capture" /\ pc' = "stage" /\ n \in Attempts /\ reference = Target(n)
      /\ ran[n].image = None /\ ran[n].outcome = None
      /\ UNCHANGED <<n, tries, reference, ran, machine, changes, setup, steady>>
  BY DEF Capture, Stay, ProvenanceInv, Shapes, Course
<1>2. Target(n) \in References
  BY <1>1, ProvenanceAssumption DEF Target, References, ProvenanceInv, Shapes, Setup
<1>3. Named(Target(n)) \in Images \union {None} /\ (Target(n) # Tag => Named(Target(n)) \in {Target(n), None})
  BY <1>2, NamedType DEF ProvenanceInv
<1>4. TreeDigest(setup[n].checkout) = DigestOf(tree, setup[n].checkout)
  BY DEF TreeDigest, DigestOf
<1>5. DigestOf(tree, setup[n].checkout) \in SUBSET Pairs
  BY DEF DigestOf, Pairs, ProvenanceInv, Shapes, Tree
<1>6. PICK id \in {Named(reference), None} :
        record' = [record EXCEPT ![n] =
          [digest |-> TreeDigest(setup[n].checkout), ref |-> reference, id |-> id]]
  BY DEF Capture
<1>7. /\ record' \in [Attempts -> RecordType]
      /\ record'[n] = [digest |-> DigestOf(tree, setup[n].checkout), ref |-> Target(n), id |-> id]
      /\ \A a \in Attempts : a # n => record'[a] = record[a]
  <2>1. [digest |-> DigestOf(tree, setup[n].checkout), ref |-> Target(n), id |-> id] \in RecordType
    BY <1>1, <1>2, <1>3, <1>5, <1>6 DEF RecordType
  <2> QED
    BY <1>1, <1>4, <1>6, <2>1 DEF ProvenanceInv, Shapes
<1>8. Shapes'
  BY <1>1, <1>7 DEF ProvenanceInv, Shapes, machine
<1>9. Target(n)' = Target(n) /\ Named(Target(n))' = Named(Target(n))
      /\ \A a \in Attempts : Started(a)' <=> Started(a)
  BY <1>1 DEF Target, Named, machine, Started
<1>10. Course'
  BY <1>1, <1>9 DEF ProvenanceInv, Course
<1>11. LockedRunsItsRecord'
  BY <1>1, <1>7 DEF ProvenanceInv, LockedRunsItsRecord
<1>12. setup[n].mode = "locked" => Target(n) # Tag
  BY <1>1, ProvenanceAssumption DEF ProvenanceInv, Course, Target, Tag
<1>13. Recorded'
  <2>1. ~Started(n)
    BY <1>1 DEF Started, None
  <2> QED
    BY <1>1, <1>3, <1>6, <1>7, <1>9, <1>12, <2>1 DEF ProvenanceInv, Recorded, machine
<1> QED
  BY <1>8, <1>10, <1>11, <1>13 DEF ProvenanceInv

LEMMA StageKeeps == ProvenanceInv /\ Stage => ProvenanceInv'
<1> SUFFICES ASSUME ProvenanceInv, Stage PROVE ProvenanceInv'
  OBVIOUS
<1>1. /\ pc = "stage" /\ pc' = "construct" /\ n \in Attempts
      /\ UNCHANGED <<n, tries, reference, record, machine, changes, setup, steady>>
  BY DEF Stage, Stay, ProvenanceInv, Shapes
<1>2. /\ ran' \in [Attempts -> RanType] /\ ran'[n].tree = tree
      /\ ran'[n].image = None /\ ran'[n].outcome = None
      /\ \A a \in Attempts : a # n => ran'[a] = ran[a]
  BY <1>1 DEF Stage, ProvenanceInv, Shapes, Course, RanType
<1>3. Shapes'
  BY <1>1, <1>2 DEF ProvenanceInv, Shapes, machine
<1>4. Target(n)' = Target(n) /\ Named(Target(n))' = Named(Target(n))
      /\ \A a \in Attempts : Started(a)' => a # n /\ Started(a)
  BY <1>1, <1>2 DEF Target, Named, machine, Started, None
<1>5. Course'
  BY <1>1, <1>2, <1>4 DEF ProvenanceInv, Course, None
<1>6. LockedRunsItsRecord'
  BY <1>1, <1>2 DEF ProvenanceInv, LockedRunsItsRecord
<1>7. Recorded'
  BY <1>1, <1>2, <1>4 DEF ProvenanceInv, Recorded, machine
<1> QED
  BY <1>3, <1>5, <1>6, <1>7 DEF ProvenanceInv

\* The image that is started is what the reference names then, which for a steady
\* attempt, and for a pinned one, is what it named when it was recorded.
LEMMA UpKeeps == ProvenanceInv /\ Up => ProvenanceInv'
<1> SUFFICES ASSUME ProvenanceInv, Up PROVE ProvenanceInv'
  OBVIOUS
<1>1. /\ pc = "up" /\ pc' = "idle" /\ n \in Attempts /\ reference = Target(n) /\ reference' = None
      /\ UNCHANGED <<n, tries, record, machine, changes, setup, steady>>
  BY DEF Up, Stay, ProvenanceInv, Shapes, Course
<1>2. Target(n) \in References
  BY <1>1, ProvenanceAssumption DEF Target, References, ProvenanceInv, Shapes, Setup
<1>3. Named(Target(n)) \in Images \union {None} /\ (Target(n) # Tag => Named(Target(n)) \in {Target(n), None})
  BY <1>2, NamedType DEF ProvenanceInv
<1>4. /\ ran' \in [Attempts -> RanType] /\ ran'[n].tree = ran[n].tree
      /\ ran'[n].image = Named(Target(n))
      /\ ran'[n].outcome = IF Named(Target(n)) = None THEN "no image" ELSE "started"
      /\ \A a \in Attempts : a # n => ran'[a] = ran[a]
  BY <1>1, <1>3 DEF Up, ProvenanceInv, Shapes, RanType
<1>5. Shapes'
  BY <1>1, <1>4 DEF ProvenanceInv, Shapes, machine
<1>6. Course'
  <2>1. \A a \in Attempts : a > n => a # n
    BY <1>1 DEF Attempts
  <2> QED
    BY <1>1, <1>3, <1>4, <2>1 DEF ProvenanceInv, Course, None
<1>7. setup[n].mode = "locked" => Target(n) # Tag
  BY <1>1, ProvenanceAssumption DEF ProvenanceInv, Course, Target, Tag
<1>8. LockedRunsItsRecord'
  BY <1>1, <1>3, <1>4, <1>7 DEF ProvenanceInv, LockedRunsItsRecord, Recorded
<1>9. \A a \in Attempts : a # n => (Started(a)' <=> Started(a))
  BY <1>1, <1>4 DEF Started
<1>10. Recorded'
  BY <1>1, <1>4, <1>9 DEF ProvenanceInv, Recorded, Started
<1> QED
  BY <1>5, <1>6, <1>8, <1>10 DEF ProvenanceInv

THEOREM ProvenanceInvariant == Spec => []ProvenanceInv
<1>1. Init => ProvenanceInv
  BY ProvenanceInit
<1>2. ProvenanceInv /\ [Next]_vars => ProvenanceInv'
  <2> SUFFICES ASSUME ProvenanceInv, [Next]_vars PROVE ProvenanceInv'
    OBVIOUS
  <2>1. CASE UNCHANGED vars
    BY <2>1 DEF vars, machine, ProvenanceInv, Shapes, Course, Recorded, LockedRunsItsRecord,
                Target, Named, Started
  <2> QED
    BY <2>1, OwnerKeeps, BeginKeeps, ResolutionKeeps, CaptureKeeps, StageKeeps, UpKeeps
    DEF Next, Attempt
<1> QED
  BY <1>1, <1>2, PTL DEF Spec

THEOREM ProvenanceIsCorrect == Spec => []ProvenanceCorrect
  BY ProvenanceInvariant, ProvenanceGives, PTL

THEOREM MissingImageIsMissing == Spec => MissingIsMissing
<1>1. ProvenanceInv /\ [Next]_vars =>
        [\A a \in Attempts :
           ran'[a].outcome = "missing" /\ ran[a].outcome # "missing" => tag = None]_vars
  <2> SUFFICES ASSUME ProvenanceInv, Next, NEW a \in Attempts,
                      ran'[a].outcome = "missing", ran[a].outcome # "missing"
               PROVE  tag = None
    BY DEF vars
  <2>1. ran \in [Attempts -> RanType]
    BY DEF ProvenanceInv, Shapes
  <2>2. ~Owner /\ ~Begin /\ ~Capture
    BY DEF Owner, Edit, Build, Pull, Remove, Change, Begin, Capture
  <2>3. ~Stage
    <3>1. ASSUME Stage PROVE ran'[a].outcome = ran[a].outcome
      <4>1. ran' = [ran EXCEPT ![n].tree = tree]
        BY <3>1 DEF Stage
      <4>2. CASE a = n
        BY <2>1, <4>1, <4>2 DEF RanType
      <4>3. CASE a # n
        BY <2>1, <4>1, <4>3
      <4> QED
        BY <4>2, <4>3
    <3> QED
      BY <3>1
  <2>6. ~Up
    <3>1. Up => ran'[a].outcome \in {ran[a].outcome, "no image", "started"}
      BY <2>1 DEF Up, RanType
    <3> QED
      BY <3>1
  <2>4. ~ResolveOverride /\ ~ResolveLocked
    BY <2>1 DEF ResolveOverride, ResolveLocked, Resolved, End, RanType
  <2>5. ResolveLocal
    BY <2>2, <2>3, <2>4, <2>6 DEF Next, Attempt
  <2> QED
    BY <2>1, <2>5 DEF ResolveLocal, Resolved, Unanswered, End, RanType
<1> QED
  BY <1>1, ProvenanceInvariant, PTL DEF Spec, MissingIsMissing

===============================================================================
