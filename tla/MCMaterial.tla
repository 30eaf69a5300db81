------------------------------ MODULE MCMaterial ------------------------------
(***************************************************************************)
(* What an attempt is made from and what it leaves: the record of its task *)
(* and images, and the work tree whose patch is graded.  The one is read   *)
(* before the agent starts, the other after it stopped, and neither reads  *)
(* the other; `part` says which of them a behaviour is of.                 *)
(***************************************************************************)
EXTENDS Workspace, Provenance, TLC

\* A file of any kind and an ignorable one, which the source has as plain or not at
\* all, with two plain contents and one of every other kind; two images, a file of
\* the task and one of a cache, two checkouts.
CONSTANTS text, other, list, crlf, blob, altered, lock, built, before, after

PlainContents == {text, other}
OddContents == {crlf}
BlobContents == {blob}

ImagesMC == {lock, built}
ContentsMC == {before, after}

\* Nothing tells the contents of a file of the task apart but that they differ,
\* nor two plain contents.
SymmetryMC == Permutations(ContentsMC) \union Permutations(PlainContents)

VARIABLE part

MCInit ==
  /\ part \in {"workspace", "provenance"}
  /\ WorkInit /\ Init
  /\ part = "workspace" => source["out"] \in Plain \union {Absent}
  /\ part = "workspace" => tag = None /\ \A f, g \in Files : tree[f] = tree[g]
  /\ part = "provenance" => \A p \in Paths : source[p] = Absent

MCNext ==
  \/ part = "workspace" /\ WorkNext /\ UNCHANGED <<part, vars>>
  \/ part = "provenance" /\ Next /\ UNCHANGED <<part, workVars>>

MCSpec == MCInit /\ [][MCNext]_<<part, vars, workVars>>

===============================================================================
