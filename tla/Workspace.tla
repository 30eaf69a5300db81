------------------------------- MODULE Workspace -------------------------------
(***************************************************************************)
(* The way of a participant's work from its repository to the graded one   *)
(* (harness/bench/workspace.py): the starter repository is projected and   *)
(* committed as the baseline, the participant edits it and uses git as it  *)
(* likes, the changes are extracted as the text of a patch, and the patch  *)
(* is applied to a pristine copy.                                          *)
(*                                                                         *)
(* git is external and modelled by what these commands do to work tree,    *)
(* index and commits.  The content of a file is a model value of one of    *)
(* three kinds, told apart by what becomes of it in the text of a patch.   *)
(***************************************************************************)
EXTENDS Naturals

CONSTANTS
  Plain,      \* contents that pass through the decoding of git's output
  Odd,        \* text that does not: CRLF line ends, or bytes that are not UTF-8
  Blob,       \* binary to git
  Altered,    \* an odd content after decoding; only a graded tree has it
  Listing,    \* the content of .gitignore, which lists the ignorable files
  FileNames,      \* besides .gitignore
  Ignorable,  \* the files it can list
  MaxSteps    \* bound on what the participant does

Absent == "none"         \* no such file
GitIgnore == ".gitignore"
Paths == FileNames \union {GitIgnore}
Written == Plain \union Odd \union Blob    \* what is in a file of FileNames
Bodies == Written \union {Altered, Listing}

ASSUME WorkspaceAssumption ==
  /\ GitIgnore \notin FileNames /\ Ignorable \subseteq FileNames
  /\ Altered \notin Written /\ Listing \notin Written /\ Altered # Listing
  /\ Plain \intersect Odd = {} /\ Blob \intersect (Plain \union Odd) = {}
  /\ Absent \notin Bodies
  /\ MaxSteps \in Nat

WorkTree == [Paths -> Bodies \union {Absent}]

VARIABLES
  source,   \* the task's repo/, which has no git
  work,     \* the work tree of the participant
  index,    \* its index
  head,     \* the tree of its HEAD
  base,     \* the tree that bench-baseline names
  tagged,   \* is there a tag bench-baseline?
  pending,  \* the paths extract_diff's git add has still to read
  left,     \* the work tree when extract_diff began to stage it (history)
  listed,   \* the ignored files nobody had added by then (history)
  touched,  \* the paths of which that git add read, or the index got, something
            \* written after it began (history)
  patch,    \* what extract_diff returned: [Paths -> [old, new]]
  grade,    \* the work tree of the pristine copy
  result,   \* what apply_patch said
  stage,
  steps

repo == <<work, index, head>>
tags == <<base, tagged>>
staging == <<pending, left, listed, touched>>
workVars == <<source, repo, tags, staging, patch, grade, result, stage, steps>>

Empty == [p \in Paths |-> Absent]
NoPatch == [p \in Paths |-> [old |-> Absent, new |-> Absent]]

Ignored(w) == IF w[GitIgnore] = Listing THEN Ignorable ELSE {}

\* git add -A: everything, but of the ignored files only those in the index.
AddAll(w, i) == [p \in Paths |-> IF p \in Ignored(w) /\ i[p] = Absent THEN Absent ELSE w[p]]

Holds(p) == (IF p = GitIgnore THEN {Listing} ELSE Written) \union {Absent}

WorkInit ==
  /\ source \in WorkTree
  /\ \A p \in Paths : source[p] \in Holds(p)
  /\ \A p \in Ignored(source) : source[p] = Absent
  /\ work = source
  /\ index = AddAll(source, Empty) /\ head = index /\ base = index /\ tagged = TRUE
  /\ pending = {} /\ left = Empty /\ listed = {} /\ touched = {}
  /\ patch = NoPatch /\ grade = Empty /\ result = "none"
  /\ stage = "working" /\ steps = 0

-------------------------------------------------------------------------------
(***************************************************************************)
(* The participant, or what is left running of it while its work is being  *)
(* extracted.  It writes files and moves tags at any time; its commands    *)
(* that change the index do so before extract_diff's git add or after it,  *)
(* since git add holds index.lock.                                         *)
(***************************************************************************)
Busy == stage \in {"working", "staging", "staged"} /\ steps < MaxSteps /\ steps' = steps + 1
Unlocked == stage \in {"working", "staged"}

\* What is written to the index after extract_diff has staged the work.
Disturbs == touched' = touched \union {p \in Paths : stage = "staged" /\ index'[p] # index[p]}

\* A file half written is one of the contents it can have.
EditFile(p, c) ==
  /\ Busy /\ work[p] # c /\ c \in Holds(p)
  /\ work' = [work EXCEPT ![p] = c]
  /\ touched' = touched \union ({p} \intersect pending)
  /\ UNCHANGED <<source, index, head, tags, pending, left, listed, patch, grade, result, stage>>

\* git add -A, git add -f p, git rm --cached p
Add ==
  /\ Busy /\ Unlocked
  /\ \/ index' = AddAll(work, index)
     \/ \E p \in FileNames : \E c \in {work[p], Absent} : index' = [index EXCEPT ![p] = c]
  /\ Disturbs
  /\ UNCHANGED <<source, work, head, tags, pending, left, listed, patch, grade, result, stage>>

\* git commit, or git commit -a, which stages the tracked files first
Commit ==
  /\ Busy /\ Unlocked
  /\ index' \in {index, [p \in Paths |-> IF index[p] = Absent THEN Absent ELSE work[p]]}
  /\ index' # head /\ head' = index'
  /\ Disturbs
  /\ UNCHANGED <<source, work, tags, pending, left, listed, patch, grade, result, stage>>

\* git reset --hard to its last commit or to the baseline
Reset ==
  /\ Busy /\ Unlocked
  /\ \E t \in {head} \union {t \in {base} : tagged} :
       /\ head' = t /\ index' = t
       /\ work' = [p \in Paths |-> IF t[p] # Absent \/ index[p] # Absent THEN t[p] ELSE work[p]]
  /\ Disturbs
  /\ UNCHANGED <<source, tags, pending, left, listed, patch, grade, result, stage>>

\* git tag -f bench-baseline, git tag -d bench-baseline
Retag ==
  /\ Busy
  /\ \/ base' = head /\ tagged' = TRUE
     \/ tagged' = FALSE /\ UNCHANGED base
  /\ UNCHANGED <<source, repo, staging, patch, grade, result, stage>>

-------------------------------------------------------------------------------
(***************************************************************************)
(* extract_diff.  git add -A lists what it has to read, and then reads one *)
(* path after the other while others may write them.                       *)
(***************************************************************************)

\* Seeded error: git add -u, which leaves out what git does not track.
BeginAdd_Update ==
  /\ stage = "working" /\ stage' = "staging"
  /\ left' = work
  /\ listed' = {p \in Ignored(work) : index[p] = Absent}
  /\ pending' = {p \in Paths : index[p] # Absent}
  /\ UNCHANGED <<source, repo, tags, touched, patch, grade, result, steps>>

BeginAdd ==
  /\ stage = "working" /\ stage' = "staging"
  /\ left' = work
  /\ listed' = {p \in Ignored(work) : index[p] = Absent}
  /\ pending' = {p \in Paths : index[p] # Absent \/ (work[p] # Absent /\ p \notin Ignored(work))}
  /\ UNCHANGED <<source, repo, tags, touched, patch, grade, result, steps>>

ReadFile(p) ==
  /\ stage = "staging" /\ p \in pending
  /\ work[p] # Absent \/ index[p] # Absent
  /\ index' = [index EXCEPT ![p] = work[p]]
  /\ pending' = pending \ {p}
  /\ UNCHANGED <<source, work, head, tags, left, listed, touched, patch, grade, result, stage,
                 steps>>

EndAdd ==
  /\ stage = "staging" /\ pending = {} /\ stage' = "staged"
  /\ UNCHANGED <<source, repo, tags, staging, patch, grade, result, steps>>

\* WorkspaceError: git add finds an index.lock of the participant, or a file gone
\* that it has listed; git diff finds no tag.
ExtractFails ==
  /\ \/ stage = "working" /\ steps > 0
     \/ stage = "staging" /\ \E p \in pending : work[p] = Absent /\ left[p] # Absent
     \/ stage = "staged" /\ ~tagged
  /\ stage' = "failed"
  /\ UNCHANGED <<source, repo, tags, staging, patch, grade, result, steps>>

\* Seeded error: the changes since the last commit, whoever made it.
Changes_SinceHead == [p \in Paths |-> [old |-> head[p], new |-> index[p]]]

\* git diff --cached --binary bench-baseline
Changes == [p \in Paths |-> [old |-> base[p], new |-> index[p]]]

Diff ==
  /\ stage = "staged" /\ tagged /\ stage' = "extracted"
  /\ patch' = Changes
  /\ UNCHANGED <<source, repo, tags, staging, grade, result, steps>>

-------------------------------------------------------------------------------
(***************************************************************************)
(* Grading.                                                                *)
(***************************************************************************)

PreparePristine ==
  /\ stage = "extracted" /\ stage' = "pristine"
  /\ grade' = source
  /\ UNCHANGED <<source, repo, tags, staging, patch, result, steps>>

Changed == {p \in Paths : patch[p].old # patch[p].new}

\* A change that git writes as a literal, which no decoding can alter.
Literal(p) == patch[p].old \in Blob \/ patch[p].new \in Blob

\* Seeded error: without --binary a binary change has a placeholder.
Fits_NoBinary(p) == ~Literal(p) /\ grade[p] = patch[p].old /\ patch[p].old \notin Odd

\* A hunk fits where its old lines are, unless decoding has altered them.
Fits(p) == grade[p] = patch[p].old /\ (patch[p].old \in Odd => Literal(p))

Patched(p) ==
  IF p \notin Changed THEN grade[p]
  ELSE IF patch[p].new \in Odd /\ ~Literal(p) THEN Altered ELSE patch[p].new

\* A hunk may also fit a file of other lines than the one it was taken from.
Near(p) ==
  /\ p \in Changed /\ grade[p] # patch[p].old
  /\ {grade[p], patch[p].old, patch[p].new} \intersect (Blob \union {Absent}) = {}

\* git apply --check, then git apply.  Not every line of an odd file need be odd,
\* so its hunks may fit and say what they said.
ApplyPatch ==
  /\ stage = "pristine" /\ stage' = "graded"
  /\ \/ Changed = {} /\ result' = "empty" /\ UNCHANGED grade
     \/ /\ Changed # {} /\ \A p \in Changed : grade[p] = patch[p].old \/ Near(p)
        /\ result' = "applied"
        /\ \E exact \in SUBSET {p \in Changed : patch[p].old \in Odd} :
           \E merged \in [{p \in Paths : Near(p)} -> Plain \union Odd] :
             grade' = [p \in Paths |-> IF Near(p) THEN merged[p]
                                       ELSE IF p \in exact THEN patch[p].new ELSE Patched(p)]
     \/ /\ \E p \in Changed : ~Fits(p)
        /\ result' = "rejected" /\ UNCHANGED grade
  /\ UNCHANGED <<source, repo, tags, staging, patch, steps>>

-------------------------------------------------------------------------------
Participant ==
  \/ \E p \in Paths : \E c \in Holds(p) : EditFile(p, c)
  \/ Add \/ Commit \/ Reset \/ Retag

ExtractDiff == BeginAdd \/ (\E p \in Paths : ReadFile(p)) \/ EndAdd \/ Diff \/ ExtractFails

WorkNext == Participant \/ ExtractDiff \/ PreparePristine \/ ApplyPatch

WorkSpec == WorkInit /\ [][WorkNext]_workVars

-------------------------------------------------------------------------------
(***************************************************************************)
(* Correctness.                                                            *)
(***************************************************************************)

\* The types of the variables.
WorkTypeOK ==
  /\ {source, work, index, head, base, left, grade} \subseteq WorkTree
  /\ tagged \in BOOLEAN
  /\ pending \subseteq Paths /\ listed \subseteq Ignorable /\ touched \subseteq Paths
  /\ result \in {"none", "empty", "applied", "rejected"}
  /\ stage \in {"working", "staging", "staged", "extracted", "pristine", "graded", "failed"}

\* What the patch touches that its text cannot carry.
Uncarried == {p \in Changed : (patch[p].old \in Odd \/ patch[p].new \in Odd) /\ ~Literal(p)}

\* The files whose baseline is not the one of the pristine copy: the participant
\* moved the tag.
Rebased == {p \in Paths : base[p] # source[p]}

\* What is graded is what was there when extract_diff began to stage it, whatever
\* the participant committed, reset or staged before.  A process it left behind
\* disturbs the files it writes itself while they are staged, and no other; files
\* that are ignored and in no index are not part of it, and a moved tag takes the
\* files it moves over out of the grade.
GradedIsWhatWasLeft ==
  stage = "graded" /\ result # "rejected" =>
    \A p \in Paths \ (Uncarried \union Rebased) :
      /\ grade[p] = patch[p].new
      /\ p \notin listed \union touched => grade[p] = left[p]

\* workspace.py:143: no file, a binary one included, makes the whole patch
\* inapplicable, as far as the text of the patch can carry its content and the
\* baseline is the one of the pristine copy.
CarriedPatchApplies ==
  stage = "graded" /\ Uncarried = {} /\ Changed \intersect Rebased = {} => result # "rejected"

\* What extract_diff takes from a work tree is what is graded.
WorkspaceCorrect ==
  /\ WorkTypeOK
  /\ GradedIsWhatWasLeft
  /\ CarriedPatchApplies

(***************************************************************************)
(* What the repository says and the code does not do.                      *)
(***************************************************************************)

\* workspace.py:141, "Return `git diff <baseline>` text for repo_dir (agent's
\* changes)": the changes extracted from a repository apply to its baseline.
ExtractedPatchApplies == stage = "graded" /\ Rebased = {} => result # "rejected"

===============================================================================
