------------------------------ MODULE Provenance -------------------------------
(***************************************************************************)
(* What an attempt says it ran and what it ran (harness/bench/             *)
(* provenance.py and images.py): the digest of the task's tree, the        *)
(* reference its vendor image is resolved to, the identity docker reports  *)
(* for that reference, and the image that docker compose then starts.      *)
(*                                                                         *)
(* The attempts follow one another on a machine whose owner edits the      *)
(* task, rebuilds, pulls and removes images, and whose docker daemon may   *)
(* be too busy to answer.  The references are the local tag, which moves,  *)
(* and the images, each for the digest that pins it.                       *)
(***************************************************************************)
EXTENDS Naturals

CONSTANTS
  Images,       \* what can be built or pulled
  Locked,       \* the image that images.lock.json pins
  Files, Contents,
  Skipped,      \* the files in directories that a digest skips by name
  Checkouts,    \* where a task's directory may be
  Hidden,       \* those that lie below a directory with such a name
  MaxAttempts,  \* bound on the attempts
  MaxChanges    \* bound on what the owner does

None == "none"
Tag == "tag"    \* <vendor>:local
References == Images \union {Tag}
Attempts == 1..MaxAttempts

ASSUME ProvenanceAssumption ==
  /\ Locked \in Images /\ {None, Tag} \intersect (Images \union Contents) = {}
  /\ Skipped \subseteq Files /\ Hidden \subseteq Checkouts
  /\ MaxAttempts \in Nat /\ MaxChanges \in Nat

Tree == [Files -> Contents \union {None}]

VARIABLES
  tree, tag, present,   \* the task's files, what the tag names, docker's images
  changes,
  n, pc, tries,         \* the present attempt, where it is, faulty answers so far
  setup,                \* per attempt: mode, override (IB_VENDOR_IMAGE_*), checkout
  reference,            \* what its image is resolved to
  record,               \* per attempt: digest, reference and identity as recorded
  ran,                  \* per attempt: the tree and the image used, and the outcome
  steady                \* the attempts during which nothing changed (history)

machine == <<tree, tag, present>>
vars == <<machine, changes, n, pc, tries, setup, reference, record, ran, steady>>

NoRecord == [digest |-> {}, ref |-> None, id |-> None]
NotRun == [tree |-> [f \in Files |-> None], image |-> None, outcome |-> None]

Init ==
  /\ tree \in [Files -> Contents] /\ tag \in {None, Locked}
  /\ present = {i \in Images : i = tag}
  /\ changes = 0
  /\ n = 0 /\ pc = "idle" /\ tries = 0
  /\ setup = [a \in Attempts |-> [mode |-> None, override |-> None, checkout |-> None]]
  /\ reference = None
  /\ record = [a \in Attempts |-> NoRecord]
  /\ ran = [a \in Attempts |-> NotRun]
  /\ steady = {}

-------------------------------------------------------------------------------
(***************************************************************************)
(* The owner of the machine.                                               *)
(***************************************************************************)
Change ==
  /\ changes < MaxChanges /\ changes' = changes + 1
  /\ steady' = IF pc = "idle" THEN steady ELSE steady \ {n}
  /\ UNCHANGED <<n, pc, tries, setup, reference, record, ran>>

Edit(f, c) ==
  /\ Change /\ tree[f] # c
  /\ tree' = [tree EXCEPT ![f] = c]
  /\ UNCHANGED <<tag, present>>

\* build_vendor_images
Build(i) ==
  /\ Change /\ i \notin present \union {Locked}
  /\ tag' = i /\ present' = present \union {i}
  /\ UNCHANGED tree

\* pull_vendor_images
Pull ==
  /\ Change /\ Locked \notin present
  /\ present' = present \union {Locked}
  /\ UNCHANGED <<tree, tag>>

Remove(i) ==
  /\ Change /\ i \in present
  /\ present' = present \ {i}
  /\ tag' = IF tag = i THEN None ELSE tag
  /\ UNCHANGED tree

-------------------------------------------------------------------------------
(***************************************************************************)
(* An attempt.                                                             *)
(***************************************************************************)
Named(r) == IF r = Tag THEN tag ELSE IF r \in present THEN r ELSE None

Stay == UNCHANGED <<machine, changes, setup, steady>>

End(outcome) ==
  /\ pc' = "idle" /\ tries' = 0 /\ reference' = None
  /\ ran' = [ran EXCEPT ![n].outcome = outcome]
  /\ UNCHANGED <<n, record>> /\ Stay

Begin ==
  /\ pc = "idle" /\ n < MaxAttempts /\ n' = n + 1
  /\ \E m \in {"local", "locked"}, o \in References \union {None}, c \in Checkouts :
       setup' = [setup EXCEPT ![n + 1] = [mode |-> m, override |-> o, checkout |-> c]]
  /\ pc' = "resolve" /\ tries' = 0
  /\ steady' = steady \union {n + 1}
  /\ UNCHANGED <<machine, changes, reference, record, ran>>

Resolving == pc \in {"resolve", "construct"}

\* The image is resolved for the record, and once more for the stack.
Resolved(r) ==
  /\ reference' = r /\ tries' = 0
  /\ pc' = IF pc = "resolve" THEN "capture" ELSE "up"
  /\ UNCHANGED <<n, record, ran>> /\ Stay

ResolveOverride ==
  /\ Resolving /\ setup[n].override # None
  /\ IF setup[n].mode = "locked" /\ setup[n].override = Tag
     THEN End("not pinned")
     ELSE Resolved(setup[n].override)

\* Seeded error: a locked image that is absent falls back to the local one.
ResolveLocked_FallsBack ==
  /\ Resolving /\ setup[n].override = None /\ setup[n].mode = "locked"
  /\ Resolved(IF Locked \in present THEN Locked ELSE Tag)

ResolveLocked ==
  /\ Resolving /\ setup[n].override = None /\ setup[n].mode = "locked"
  /\ Resolved(Locked)

MaxTries == 4

\* Seeded error: no answer is the answer that there is no such image.
Unanswered_Absent ==
  IF tries + 1 < MaxTries
  THEN tries' = tries + 1 /\ UNCHANGED <<n, pc, reference, record, ran>> /\ Stay
  ELSE End("missing")

\* The daemon has not answered: another try, or a fault that is not an absence.
Unanswered ==
  IF tries + 1 < MaxTries
  THEN tries' = tries + 1 /\ UNCHANGED <<n, pc, reference, record, ran>> /\ Stay
  ELSE End("fault")

ResolveLocal ==
  /\ Resolving /\ setup[n].override = None /\ setup[n].mode = "local"
  /\ \/ tag # None /\ Resolved(Tag)
     \/ tag = None /\ End("missing")
     \/ Unanswered

\* Seeded error: the files are told by their names only.
TreeDigest_Names(c) == {<<f, None>> : f \in {g \in Files \ Skipped : tree[g] # None}}

\* The names that are skipped are looked for in the whole path of a file.
TreeDigest(c) ==
  {<<f, tree[f]>> : f \in {g \in Files \ Skipped : tree[g] # None /\ c \notin Hidden}}

\* capture_provenance: its docker inspect is not repeated.
Capture ==
  /\ pc = "capture" /\ pc' = "stage"
  /\ \E id \in {Named(reference), None} :
       record' = [record EXCEPT ![n] =
         [digest |-> TreeDigest(setup[n].checkout), ref |-> reference, id |-> id]]
  /\ UNCHANGED <<n, tries, reference, ran>> /\ Stay

Stage ==
  /\ pc = "stage" /\ pc' = "construct"
  /\ ran' = [ran EXCEPT ![n].tree = tree]
  /\ UNCHANGED <<n, tries, reference, record>> /\ Stay

\* Seeded error: docker compose's exit code is not looked at.
Up_Unchecked ==
  /\ pc = "up" /\ pc' = "idle"
  /\ reference' = None
  /\ ran' = [ran EXCEPT ![n].image = Named(reference), ![n].outcome = "started"]
  /\ UNCHANGED <<n, tries, record>> /\ Stay

\* pull_policy: never
Up ==
  /\ pc = "up" /\ pc' = "idle"
  /\ reference' = None
  /\ ran' = [ran EXCEPT ![n].image = Named(reference),
                        ![n].outcome = IF Named(reference) = None THEN "no image" ELSE "started"]
  /\ UNCHANGED <<n, tries, record>> /\ Stay

-------------------------------------------------------------------------------
Owner ==
  \/ \E f \in Files, c \in Contents \union {None} : Edit(f, c)
  \/ \E i \in Images : Build(i) \/ Remove(i)
  \/ Pull

Attempt ==
  Begin \/ ResolveOverride \/ ResolveLocked \/ ResolveLocal \/ Capture \/ Stage \/ Up

Next == Owner \/ Attempt

Spec == Init /\ [][Next]_vars

-------------------------------------------------------------------------------
(***************************************************************************)
(* Correctness.                                                            *)
(***************************************************************************)

\* The types, and that only a started attempt has an image.
TypeOK ==
  /\ tree \in Tree /\ tag \in present \union {None} /\ present \subseteq Images
  /\ pc \in {"idle", "resolve", "capture", "stage", "construct", "up"}
  /\ tries < MaxTries
  /\ reference \in References \union {None}
  /\ \A a \in Attempts :
       /\ ran[a].tree \in Tree
       /\ ran[a].image \in Images \union {None}
       /\ (ran[a].outcome = "started") <=> (ran[a].image # None)

\* images.py:5, no fallback: whatever is built, pulled or removed meanwhile, an
\* attempt in locked mode runs the digest on its record or nothing at all.
LockedRunsItsRecord ==
  \A a \in Attempts :
    setup[a].mode = "locked" /\ ran[a].image # None =>
      /\ record[a].ref = ran[a].image
      /\ record[a].id \in {ran[a].image, None}

\* test_images_resolution.py: a busy daemon is never read as a missing image.
MissingIsMissing ==
  [][\A a \in Attempts :
       ran'[a].outcome = "missing" /\ ran[a].outcome # "missing" => tag = None]_vars

Started(a) == ran[a].outcome = "started" /\ a \in steady

Visible(a) == [f \in Files \ Skipped |-> ran[a].tree[f]]

\* Attempts that nothing disturbed are told apart by their records: the digests
\* are equal exactly when the trees are, caches aside, and one reference with
\* one identity is one image.
RecordsTellRunsApart ==
  \A a, b \in Attempts :
    Started(a) /\ Started(b) /\ {setup[a].checkout, setup[b].checkout} \intersect Hidden = {} =>
      /\ (record[a].digest = record[b].digest) <=> (Visible(a) = Visible(b))
      /\ record[a].id = record[b].id /\ record[a].id # None => ran[a].image = ran[b].image

\* What is on the record of an attempt is what it was made from.
ProvenanceCorrect ==
  /\ TypeOK
  /\ LockedRunsItsRecord
  /\ RecordsTellRunsApart

===============================================================================
