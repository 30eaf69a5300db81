----------------------------- MODULE ScoringProofs -----------------------------
(***************************************************************************)
(* Theorems about Scoring, for every set of names, gold manifests and      *)
(* recordable checks, and for runs of any length; and about                *)
(* ValidateGauntlet, whatever the probes measure.                          *)
(*                                                                         *)
(* The argument for the scorer: its dedupe picks a failing instance of a   *)
(* name whenever there is one, so whether a name holds depends on the SET  *)
(* of recorded checks only, and so does the score; the mandatory flag of   *)
(* the instance picked depends on nothing but the name if each name has    *)
(* one flag.                                                               *)
(*                                                                         *)
(* That scores are in percent rests on sums over finite sets, which the    *)
(* community modules compute by a fold: a function chosen to satisfy a     *)
(* recursion.  That there is such a function is proved by induction over   *)
(* the size of the sets (SumsExist).                                       *)
(*                                                                         *)
(* The argument for the gauntlet: validate compares the k-th check of a    *)
(* bucket and name with gold's k-th, the scorer sees the worst instance of *)
(* a name.  Where both recorded equally many, the k-th checks pair them    *)
(* off one to one, so that a name is held for the one exactly when it is   *)
(* for the other (HitsAreHeld), and both sum the same function of names.   *)
(***************************************************************************)
EXTENDS Scoring, ValidateGauntlet, SequenceTheorems, FiniteSetTheorems,
        WellFoundedInduction, TLAPS

\* The checks of a list, as a set.
ChecksOf(s) == {s[i] : i \in DOMAIN s}

-------------------------------------------------------------------------------
(* What the scorer's functions depend on. *)

\* A nonempty set of positions has a first one.
LEMMA MinIsElement ==
  ASSUME NEW S, S \subseteq Nat, S # {}
  PROVE  Min(S) \in S
<1>1. PICK x \in S : \A y \in S : <<y, x>> \notin OpToRel(<, Nat)
  BY NatLessThanWellFounded, WFMin
<1>2. \A y \in S : x =< y
  <2> SUFFICES ASSUME NEW y \in S, ~(x =< y) PROVE FALSE
    OBVIOUS
  <2>1. y \in Nat /\ x \in Nat /\ y < x
    BY SMT
  <2>2. <<y, x>> \in OpToRel(<, Nat)
    BY <2>1 DEF OpToRel
  <2> QED BY <1>1, <2>2
<1>3. \E z \in S : \A y \in S : z =< y
  BY <1>2
<1> QED BY <1>3 DEF Min

\* dedupe keeps an instance of the name, and a failing one if there is one.
LEMMA WorstIsAnInstance ==
  ASSUME NEW T, NEW s \in Seq(T), NEW n \in Recorded(s)
  PROVE  /\ \E i \in Instances(s, n) : Worst(s, n) = s[i]
         /\ (\E i \in Instances(s, n) : ~s[i].ok) => ~Worst(s, n).ok
<1> DEFINE failing == {i \in Instances(s, n) : ~s[i].ok}
<1> DEFINE kept == IF failing = {} THEN Instances(s, n) ELSE failing
<1>1. Instances(s, n) \subseteq Nat /\ Instances(s, n) # {}
  BY LenProperties DEF Instances, Recorded
<1>2. kept \subseteq Nat /\ kept # {}
  BY <1>1
<1>3. Min(kept) \in kept
  BY <1>2, MinIsElement
<1>4. Worst(s, n) = s[Min(kept)]
  BY DEF Worst
<1> QED BY <1>3, <1>4

\* A name is held when it was recorded and never failed.
LEMMA HeldByChecks ==
  ASSUME NEW T, NEW s \in Seq(T), NEW n
  PROVE  Held(s, n) <=> /\ \E c \in ChecksOf(s) : c.name = n
                        /\ \A c \in ChecksOf(s) : c.name = n => c.ok
<1>1. (\E c \in ChecksOf(s) : c.name = n) <=> n \in Recorded(s)
  BY DEF ChecksOf, Recorded
<1>2. (\A c \in ChecksOf(s) : c.name = n => c.ok) <=> \A i \in Instances(s, n) : s[i].ok
  BY DEF ChecksOf, Instances
<1>3. ASSUME n \in Recorded(s)
      PROVE  Worst(s, n).ok <=> \A i \in Instances(s, n) : s[i].ok
  BY <1>3, WorstIsAnInstance
<1> QED BY <1>1, <1>2, <1>3 DEF Held

\* Where each name has one flag, so do the checks recorded under it.
LEMMA OneFlagPerCheck ==
  ASSUME OneFlagPerName, NEW c \in Checks, NEW d \in Checks, c.name = d.name
  PROVE  c.mandatory = d.mandatory
<1> DEFINE cc == [name |-> c.name, mandatory |-> c.mandatory]
           dd == [name |-> d.name, mandatory |-> d.mandatory]
<1>1. cc \in Recordable /\ dd \in Recordable
  BY DEF Checks
<1>2. cc.name = dd.name => cc.mandatory = dd.mandatory
  BY <1>1 DEF OneFlagPerName
<1> QED BY <1>2

\* Where each name has one flag, a mandatory name is broken when any mandatory
\* check failed.
LEMMA MandatoryByChecks ==
  ASSUME OneFlagPerName, NEW s \in Seq(Checks)
  PROVE  (\A n \in Recorded(s) : Worst(s, n).mandatory => Worst(s, n).ok)
           <=> \A c \in ChecksOf(s) : c.mandatory => c.ok
<1>1. \A c \in ChecksOf(s) : c \in Checks /\ c.name \in Recorded(s)
  BY LenProperties, ElementOfSeq DEF ChecksOf, Recorded
<1>2. \A c, d \in Checks : c.name = d.name => c.mandatory = d.mandatory
  BY OneFlagPerCheck
<1>3. ASSUME \A n \in Recorded(s) : Worst(s, n).mandatory => Worst(s, n).ok,
             NEW c \in ChecksOf(s), c.mandatory
      PROVE  c.ok
  <2>1. PICK j \in DOMAIN s : c = s[j]
    BY DEF ChecksOf
  <2>2. j \in Instances(s, c.name) /\ c.name \in Recorded(s)
    BY <2>1, <1>1 DEF Instances
  <2>3. PICK i \in Instances(s, c.name) : Worst(s, c.name) = s[i]
    BY <2>2, WorstIsAnInstance
  <2>4. s[i] \in ChecksOf(s) /\ s[i].name = c.name
    BY DEF Instances, ChecksOf
  <2>5. Worst(s, c.name).mandatory
    BY <1>1, <1>2, <1>3, <2>3, <2>4
  <2>6. Worst(s, c.name).ok
    BY <1>3, <2>2, <2>5
  <2> QED BY <2>1, <2>2, <2>6, WorstIsAnInstance
<1>4. ASSUME \A c \in ChecksOf(s) : c.mandatory => c.ok, NEW n \in Recorded(s)
      PROVE  Worst(s, n).mandatory => Worst(s, n).ok
  <2>1. PICK i \in Instances(s, n) : Worst(s, n) = s[i]
    BY WorstIsAnInstance
  <2>2. s[i] \in ChecksOf(s)
    BY DEF Instances, ChecksOf
  <2> QED BY <1>4, <2>1, <2>2
<1> QED BY <1>3, <1>4

\* Two lists of the same checks have the same held names, and the same score.
LEMMA SameChecksSameHeld ==
  ASSUME NEW T, NEW s \in Seq(T), NEW t \in Seq(T), ChecksOf(s) = ChecksOf(t), NEW n
  PROVE  Held(s, n) <=> Held(t, n)
BY HeldByChecks

\* The raw score is a function of which of gold's names are held.
LEMMA SameHeldSameRawScore ==
  ASSUME NEW s, NEW t, NEW g, \A n \in DOMAIN g : Held(s, n) <=> Held(t, n)
  PROVE  RawScore(s, g) = RawScore(t, g)
<1>1. ASSUME NEW n \in DOMAIN g
      PROVE  Value(g[n], Held(s, n)) = Value(g[n], Held(t, n))
  <2>1. Held(s, n) <=> Held(t, n)
    OBVIOUS
  <2> QED BY <2>1, Zenon DEF Value
<1>2. [n \in DOMAIN g |-> Value(g[n], Held(s, n))] = [n \in DOMAIN g |-> Value(g[n], Held(t, n))]
  BY <1>1
<1> QED BY <1>2 DEF RawScore

\* The task score is a function of that and of the verdict.
LEMMA SameHeldSameScore ==
  ASSUME NEW s, NEW t, NEW g, NEW err,
         \A n \in DOMAIN g : Held(s, n) <=> Held(t, n),
         Solved(s, g, err) <=> Solved(t, g, err)
  PROVE  TaskScore(s, g, err) = TaskScore(t, g, err)
<1>1. RawScore(s, g) = RawScore(t, g)
  BY SameHeldSameRawScore
<1>2. CASE Required(g) # {} /\ ~Solved(s, g, err)
  <2>1. Required(g) # {} /\ ~Solved(t, g, err)
    BY <1>2
  <2> QED BY <1>2, <2>1, Zenon DEF TaskScore
<1>3. CASE ~(Required(g) # {} /\ ~Solved(s, g, err))
  <2>1. ~(Required(g) # {} /\ ~Solved(t, g, err))
    BY <1>3
  <2> QED BY <1>1, <1>3, <2>1, Zenon DEF TaskScore
<1> QED BY <1>2, <1>3

\* Where each name has one flag, the verdict is a function of the set of checks.
LEMMA SameChecksSameVerdict ==
  ASSUME OneFlagPerName, NEW s \in Seq(Checks), NEW t \in Seq(Checks),
         ChecksOf(s) = ChecksOf(t), NEW g, NEW err
  PROVE  /\ Solved(s, g, err) <=> Solved(t, g, err)
         /\ TaskScore(s, g, err) = TaskScore(t, g, err)
<1>1. \A n : Held(s, n) <=> Held(t, n)
  BY SameChecksSameHeld
<1>2. (\A n \in Recorded(s) : Worst(s, n).mandatory => Worst(s, n).ok)
        <=> (\A n \in Recorded(t) : Worst(t, n).mandatory => Worst(t, n).ok)
  BY MandatoryByChecks
<1>3. Solved(s, g, err) <=> Solved(t, g, err)
  BY <1>1, <1>2, Zenon DEF Solved
<1> QED BY <1>1, <1>3, SameHeldSameScore

-------------------------------------------------------------------------------
(* The buckets together hold what was recorded. *)

RecorderType == [Buckets -> Seq(Checks)]

\* The scorer's list has the checks of the four buckets.
LEMMA ChecksOfBuckets ==
  ASSUME NEW r \in RecorderType
  PROVE  /\ AllChecks(r) \in Seq(Checks)
         /\ ChecksOf(AllChecks(r)) = UNION {ChecksOf(r[b]) : b \in Buckets}
<1>1. ASSUME NEW s \in Seq(Checks), NEW t \in Seq(Checks)
      PROVE  /\ s \o t \in Seq(Checks)
             /\ ChecksOf(s \o t) = ChecksOf(s) \union ChecksOf(t)
  <2>1. /\ s \o t \in Seq(Checks)
        /\ DOMAIN (s \o t) = 1 .. Len(s) + Len(t)
        /\ DOMAIN s = 1 .. Len(s) /\ DOMAIN t = 1 .. Len(t)
        /\ Len(s) \in Nat /\ Len(t) \in Nat
    BY ConcatProperties, LenProperties
  <2>2. \A i \in 1 .. Len(s) + Len(t) : (s \o t)[i] = IF i <= Len(s) THEN s[i] ELSE t[i - Len(s)]
    BY ConcatProperties
  <2>3. ChecksOf(s \o t) \subseteq ChecksOf(s) \union ChecksOf(t)
    BY <2>1, <2>2 DEF ChecksOf
  <2>4. ChecksOf(s) \subseteq ChecksOf(s \o t)
    BY <2>1, <2>2 DEF ChecksOf
  <2>5. ASSUME NEW i \in DOMAIN t PROVE t[i] \in ChecksOf(s \o t)
    <3>1. Len(s) + i \in DOMAIN (s \o t) /\ (s \o t)[Len(s) + i] = t[i]
      BY <2>1, <2>2
    <3> QED BY <3>1 DEF ChecksOf
  <2> QED BY <2>1, <2>3, <2>4, <2>5 DEF ChecksOf
<1> DEFINE two == r["l1"] \o r["hard"]
           three == two \o r["soft"]
<1>2. /\ r["l1"] \in Seq(Checks) /\ r["hard"] \in Seq(Checks)
      /\ r["soft"] \in Seq(Checks) /\ r["l3"] \in Seq(Checks)
  BY DEF RecorderType, Buckets
<1>3. two \in Seq(Checks) /\ ChecksOf(two) = ChecksOf(r["l1"]) \union ChecksOf(r["hard"])
  BY <1>1, <1>2
<1>4. three \in Seq(Checks) /\ ChecksOf(three) = ChecksOf(two) \union ChecksOf(r["soft"])
  BY <1>1, <1>2, <1>3
<1>5. /\ three \o r["l3"] \in Seq(Checks)
      /\ ChecksOf(three \o r["l3"]) = ChecksOf(three) \union ChecksOf(r["l3"])
  BY <1>1, <1>2, <1>4
<1>6. AllChecks(r) = three \o r["l3"]
  BY DEF AllChecks
<1> HIDE DEF two, three
<1>7. UNION {ChecksOf(r[b]) : b \in Buckets}
        = ChecksOf(r["l1"]) \union ChecksOf(r["hard"]) \union ChecksOf(r["soft"]) \union ChecksOf(r["l3"])
  BY DEF Buckets
<1> QED BY <1>3, <1>4, <1>5, <1>6, <1>7

\* Appending a check to a list adds it to the list's checks.
LEMMA ChecksOfAppend ==
  ASSUME NEW s \in Seq(Checks), NEW c \in Checks
  PROVE  /\ Append(s, c) \in Seq(Checks)
         /\ ChecksOf(Append(s, c)) = ChecksOf(s) \union {c}
<1>1. /\ Append(s, c) \in Seq(Checks)
      /\ Len(s) \in Nat
      /\ DOMAIN s = 1 .. Len(s) /\ DOMAIN Append(s, c) = 1 .. Len(s) + 1
      /\ \A i \in 1 .. Len(s) : Append(s, c)[i] = s[i]
      /\ Append(s, c)[Len(s) + 1] = c
  BY AppendProperties, LenProperties
<1>2. ChecksOf(Append(s, c)) \subseteq ChecksOf(s) \union {c}
  BY <1>1 DEF ChecksOf
<1>3. ChecksOf(s) \union {c} \subseteq ChecksOf(Append(s, c))
  BY <1>1 DEF ChecksOf
<1> QED BY <1>1, <1>2, <1>3

\* Recording a check adds it to the checks of the recorder.
LEMMA ChecksOfRecord ==
  ASSUME NEW r \in RecorderType, NEW b \in Buckets, NEW c \in Checks
  PROVE  LET q == [r EXCEPT ![b] = Append(@, c)]
         IN  /\ q \in RecorderType
             /\ ChecksOf(AllChecks(q)) = ChecksOf(AllChecks(r)) \union {c}
<1> DEFINE q == [r EXCEPT ![b] = Append(@, c)]
<1>1. r[b] \in Seq(Checks)
  BY DEF RecorderType
<1>2. Append(r[b], c) \in Seq(Checks) /\ ChecksOf(Append(r[b], c)) = ChecksOf(r[b]) \union {c}
  BY <1>1, ChecksOfAppend
<1>3. q \in RecorderType
  BY <1>2 DEF RecorderType
<1>4. q[b] = Append(r[b], c) /\ \A d \in Buckets \ {b} : q[d] = r[d]
  BY DEF RecorderType
<1> HIDE DEF q
<1>5. UNION {ChecksOf(q[d]) : d \in Buckets} = (UNION {ChecksOf(r[d]) : d \in Buckets}) \union {c}
  BY <1>2, <1>4
<1>6. ChecksOf(AllChecks(q)) = ChecksOf(AllChecks(r)) \union {c}
  BY <1>3, <1>5, ChecksOfBuckets
<1> QED BY <1>3, <1>6 DEF q

-------------------------------------------------------------------------------
(* Recording one more check. *)

\* A check that changes no held name of gold and breaks no verdict that could
\* still be solved changes no score.
LEMMA HarmlessCheck ==
  ASSUME OneFlagPerName, NEW s \in Seq(Checks), NEW t \in Seq(Checks), NEW c \in Checks,
         ChecksOf(t) = ChecksOf(s) \union {c}, NEW g, NEW err,
         \A n \in DOMAIN g : Held(s, n) <=> Held(t, n),
         c.mandatory /\ ~c.ok => ~Solved(s, g, err)
  PROVE  TaskScore(t, g, err) = TaskScore(s, g, err)
<1> DEFINE Unbroken(u) == \A n \in Recorded(u) : Worst(u, n).mandatory => Worst(u, n).ok
           Complete(u) == ~err /\ Required(g) # {} /\ \A n \in Required(g) : Held(u, n)
<1>1. Unbroken(t) <=> Unbroken(s) /\ (c.mandatory => c.ok)
  <2>1. Unbroken(t) <=> \A d \in ChecksOf(t) : d.mandatory => d.ok
    BY MandatoryByChecks
  <2>2. Unbroken(s) <=> \A d \in ChecksOf(s) : d.mandatory => d.ok
    BY MandatoryByChecks
  <2> HIDE DEF Unbroken
  <2> QED BY <2>1, <2>2
<1>2. Complete(t) <=> Complete(s)
  BY DEF Required
<1>3. /\ Solved(s, g, err) <=> Complete(s) /\ Unbroken(s)
      /\ Solved(t, g, err) <=> Complete(t) /\ Unbroken(t)
  BY DEF Solved
<1> HIDE DEF Unbroken, Complete
<1>4. Solved(t, g, err) <=> Solved(s, g, err)
  BY <1>1, <1>2, <1>3
<1> QED BY <1>4, SameHeldSameScore

\* A failed check under a name not recorded so far.
LEMMA SilentOrFailed ==
  ASSUME OneFlagPerName, NEW s \in Seq(Checks), NEW t \in Seq(Checks), NEW c \in Checks,
         ChecksOf(t) = ChecksOf(s) \union {c}, NEW g, NEW err,
         ~c.ok, c.name \in DOMAIN g, \A d \in ChecksOf(s) : d.name # c.name,
         c.mandatory => g[c.name].mandatory
  PROVE  TaskScore(t, g, err) = TaskScore(s, g, err)
<1>1. \A n : Held(s, n) <=> Held(t, n)
  <2> TAKE n
  <2>1. CASE n = c.name
    BY <2>1, HeldByChecks
  <2>2. CASE n # c.name
    BY <2>2, HeldByChecks
  <2> QED BY <2>1, <2>2
<1>2. ~Held(s, c.name)
  BY HeldByChecks
<1>3. ASSUME c.mandatory PROVE ~Solved(s, g, err)
  <2>1. c.name \in Required(g)
    BY <1>3 DEF Required
  <2> QED BY <1>2, <2>1 DEF Solved
<1> QED BY <1>1, <1>3, HarmlessCheck

\* A check under a recorded name that does not make it worse.
LEMMA RepeatedCheck ==
  ASSUME OneFlagPerName, NEW s \in Seq(Checks), NEW t \in Seq(Checks), NEW c \in Checks,
         ChecksOf(t) = ChecksOf(s) \union {c}, NEW g, NEW err,
         \E d \in ChecksOf(s) : d.name = c.name,
         Held(s, c.name) => c.ok
  PROVE  TaskScore(t, g, err) = TaskScore(s, g, err)
<1>1. \A n : Held(s, n) <=> Held(t, n)
  <2> TAKE n
  <2>1. CASE n = c.name
    BY <2>1, HeldByChecks
  <2>2. CASE n # c.name
    BY <2>2, HeldByChecks
  <2> QED BY <2>1, <2>2
<1>2. ASSUME c.mandatory, ~c.ok PROVE ~Solved(s, g, err)
  <2>1. PICK d \in ChecksOf(s) : d.name = c.name /\ ~d.ok
    BY <1>2, HeldByChecks
  <2>2. d \in Checks
    BY LenProperties, ElementOfSeq DEF ChecksOf
  <2>3. d.mandatory
    BY <1>2, <2>1, <2>2, OneFlagPerCheck
  <2>4. ~(\A e \in ChecksOf(s) : e.mandatory => e.ok)
    BY <2>1, <2>3
  <2> QED BY <2>4, MandatoryByChecks DEF Solved
<1> QED BY <1>1, <1>2, HarmlessCheck

-------------------------------------------------------------------------------
(* The invariant. *)

\* A scored run has the score of its recorder.
ScoredOnce ==
  IF step = "scored"
  THEN IF GoldAccepted(gold)
       THEN /\ score = TaskScore(AllChecks(recorder), gold, failed)
            /\ isSolved = Solved(AllChecks(recorder), gold, failed)
       ELSE score = Unscorable /\ isSolved = FALSE
  ELSE score = NoScore /\ isSolved = FALSE

ScoringInv ==
  /\ gold \in Manifests
  /\ recorder \in RecorderType
  /\ log \in Seq(Checks)
  /\ ChecksOf(log) = ChecksOf(AllChecks(recorder))
  /\ step \in {"recording", "recorded", "scored"}
  /\ ScoredOnce

\* A run that has recorded nothing.
LEMMA EmptyRecord ==
  /\ EmptyRecorder \in RecorderType
  /\ << >> \in Seq(Checks)
  /\ ChecksOf(<< >>) = ChecksOf(AllChecks(EmptyRecorder))
  /\ ChecksOf(<< >>) = {}
<1>1. << >> \in Seq(Checks) /\ ChecksOf(<< >>) = {}
  BY EmptySeq DEF ChecksOf
<1>2. EmptyRecorder \in RecorderType /\ \A b \in Buckets : EmptyRecorder[b] = << >>
  BY <1>1 DEF EmptyRecorder, RecorderType
<1>3. (UNION {ChecksOf(EmptyRecorder[b]) : b \in Buckets}) = {}
  BY <1>1, <1>2
<1>4. ChecksOf(AllChecks(EmptyRecorder)) = {}
  BY <1>2, <1>3, ChecksOfBuckets
<1> QED BY <1>1, <1>2, <1>4

\* Every run begins in the invariant.
LEMMA InitScoringInv == Init => ScoringInv
<1> SUFFICES ASSUME Init PROVE ScoringInv
  OBVIOUS
<1>1. ScoredOnce
  BY DEF Init, ScoredOnce
<1>2. recorder = EmptyRecorder /\ log = << >> /\ gold \in Manifests /\ step = "recording"
  BY DEF Init
<1>3. /\ recorder \in RecorderType /\ log \in Seq(Checks)
      /\ ChecksOf(log) = ChecksOf(AllChecks(recorder))
  BY <1>2, EmptyRecord
<1> QED BY <1>1, <1>2, <1>3 DEF ScoringInv

\* What recording a check does to the two lists.
LEMMA RecordAdds ==
  ASSUME ScoringInv, NEW b \in Buckets, NEW c \in Checks, Record(b, c)
  PROVE  /\ recorder' \in RecorderType
         /\ log' \in Seq(Checks)
         /\ ChecksOf(AllChecks(recorder)') = ChecksOf(AllChecks(recorder)) \union {c}
         /\ ChecksOf(log)' = ChecksOf(log) \union {c}
<1>1. /\ recorder' = [recorder EXCEPT ![b] = Append(@, c)]
      /\ log' = Append(log, c)
      /\ recorder \in RecorderType /\ log \in Seq(Checks)
  BY DEF Record, ScoringInv
<1>2. /\ recorder' \in RecorderType
      /\ ChecksOf(AllChecks(recorder')) = ChecksOf(AllChecks(recorder)) \union {c}
  BY <1>1, ChecksOfRecord
<1>3. log' \in Seq(Checks) /\ ChecksOf(log') = ChecksOf(log) \union {c}
  BY <1>1, ChecksOfAppend
<1>4. AllChecks(recorder)' = AllChecks(recorder')
  BY DEF AllChecks
<1>5. ChecksOf(log)' = ChecksOf(log')
  BY DEF ChecksOf
<1> QED BY <1>2, <1>3, <1>4, <1>5

\* A step that leaves the lists alone.
LEMMA ListsUnchanged ==
  ASSUME ScoringInv, UNCHANGED <<gold, recorder, log>>
  PROVE  /\ (gold \in Manifests)' /\ (recorder \in RecorderType)' /\ (log \in Seq(Checks))'
         /\ (ChecksOf(log) = ChecksOf(AllChecks(recorder)))'
<1>1. ChecksOf(log)' = ChecksOf(log)
  BY DEF ChecksOf
<1>2. AllChecks(recorder)' = AllChecks(recorder)
  BY DEF AllChecks
<1>3. ChecksOf(AllChecks(recorder))' = ChecksOf(AllChecks(recorder))
  BY <1>2 DEF ChecksOf
<1> QED BY <1>1, <1>3 DEF ScoringInv

\* Every step keeps the invariant.
LEMMA NextScoringInv == ScoringInv /\ [Next]_vars => ScoringInv'
<1> SUFFICES ASSUME ScoringInv, [Next]_vars PROVE ScoringInv'
  OBVIOUS
<1>1. ASSUME NEW b \in Buckets, NEW c \in Checks, Record(b, c) PROVE ScoringInv'
  <2>1. /\ step = "recording" /\ step' = step /\ gold' = gold
        /\ score' = score /\ isSolved' = isSolved
    BY <1>1 DEF Record
  <2>2. ScoredOnce'
    BY <2>1 DEF ScoringInv, ScoredOnce
  <2>3. /\ recorder' \in RecorderType /\ log' \in Seq(Checks)
        /\ (ChecksOf(log) = ChecksOf(AllChecks(recorder)))'
    <3>1. ChecksOf(AllChecks(recorder))' = ChecksOf(AllChecks(recorder)')
      BY DEF ChecksOf
    <3> QED BY <1>1, <3>1, RecordAdds DEF ScoringInv
  <2> QED BY <2>1, <2>2, <2>3 DEF ScoringInv
<1>2. CASE ScenariosEnd
  <2>1. /\ step = "recording" /\ step' = "recorded"
        /\ UNCHANGED <<gold, recorder, log, failed, score, isSolved>>
    BY <1>2 DEF ScenariosEnd
  <2>2. ScoredOnce'
    BY <2>1 DEF ScoringInv, ScoredOnce
  <2> QED BY <2>1, <2>2, ListsUnchanged DEF ScoringInv
<1>3. CASE ScenarioRaises
  <2>1. /\ step = "recording" /\ step' = "recorded"
        /\ recorder' = EmptyRecorder /\ log' = << >>
        /\ UNCHANGED <<gold, score, isSolved>>
    BY <1>3 DEF ScenarioRaises
  <2>2. ScoredOnce'
    BY <2>1 DEF ScoringInv, ScoredOnce
  <2>3. /\ recorder' \in RecorderType /\ log' \in Seq(Checks)
        /\ ChecksOf(log') = ChecksOf(AllChecks(recorder'))
    BY <2>1, EmptyRecord
  <2>4. (ChecksOf(log) = ChecksOf(AllChecks(recorder)))'
    BY <2>3 DEF ChecksOf, AllChecks
  <2> QED BY <2>1, <2>2, <2>3, <2>4 DEF ScoringInv
<1>4. CASE Score
  <2>1. /\ step = "recorded" /\ step' = "scored"
        /\ UNCHANGED <<gold, recorder, log, failed>>
    BY <1>4 DEF Score
  <2>2. isSolved = FALSE
    BY <2>1 DEF ScoringInv, ScoredOnce
  <2>3. AllChecks(recorder)' = AllChecks(recorder)
    BY <2>1 DEF AllChecks
  <2>4. GoldAccepted(gold)' <=> GoldAccepted(gold)
    BY <2>1
  <2>5. ASSUME GoldAccepted(gold) PROVE ScoredOnce'
    <3>1. /\ score' = TaskScore(AllChecks(recorder), gold, failed)
          /\ isSolved' = Solved(AllChecks(recorder), gold, failed)
      BY <1>4, <2>5, Zenon DEF Score
    <3> QED BY <2>1, <2>3, <2>5, <3>1, Zenon DEF ScoredOnce
  <2>6. ASSUME ~GoldAccepted(gold) PROVE ScoredOnce'
    <3>1. score' = Unscorable /\ isSolved' = isSolved
      BY <1>4, <2>6, Zenon DEF Score
    <3> QED BY <2>1, <2>2, <2>6, <3>1, Zenon DEF ScoredOnce
  <2>7. ScoredOnce'
    BY <2>5, <2>6
  <2> QED BY <2>1, <2>7, ListsUnchanged DEF ScoringInv
<1>5. CASE UNCHANGED vars
  <2>1. ScoredOnce' <=> ScoredOnce
    BY <1>5 DEF vars, ScoredOnce, AllChecks
  <2> QED BY <1>5, <2>1, ListsUnchanged DEF vars, ScoringInv
<1> QED BY <1>1, <1>2, <1>3, <1>4, <1>5 DEF Next

\* The invariant holds in every run: the recorder and the log agree on what was
\* recorded, and the result is the one that was scored.
THEOREM ScoringInvariant == Spec => []ScoringInv
BY InitScoringInv, NextScoringInv, PTL DEF Spec

-------------------------------------------------------------------------------
(* The properties of Scoring. *)

\* checks.py:71, for every gold manifest: neither the bucket of a check nor its
\* place in the run matters to the score or the verdict, as long as each name has
\* one mandatory flag.
THEOREM LabelsNeverScore ==
  ASSUME OneFlagPerName
  PROVE  Spec => []LabelsDoNotScore
<1>1. ASSUME ScoringInv PROVE LabelsDoNotScore
  <2> SUFFICES ASSUME step = "scored", score # Unscorable
               PROVE  /\ score = TaskScore(log, gold, failed)
                      /\ isSolved = Solved(log, gold, failed)
    BY DEF LabelsDoNotScore
  <2>1. /\ score = TaskScore(AllChecks(recorder), gold, failed)
        /\ isSolved = Solved(AllChecks(recorder), gold, failed)
    BY <1>1 DEF ScoringInv, ScoredOnce
  <2>2. AllChecks(recorder) \in Seq(Checks) /\ log \in Seq(Checks)
    BY <1>1, ChecksOfBuckets DEF ScoringInv
  <2>3. ChecksOf(AllChecks(recorder)) = ChecksOf(log)
    BY <1>1 DEF ScoringInv
  <2>4. /\ Solved(AllChecks(recorder), gold, failed) <=> Solved(log, gold, failed)
        /\ TaskScore(AllChecks(recorder), gold, failed) = TaskScore(log, gold, failed)
    BY <1>1, <2>2, <2>3, SameChecksSameVerdict
  <2>5. Solved(AllChecks(recorder), gold, failed) = Solved(log, gold, failed)
    BY <2>4, Zenon DEF Solved
  <2> QED BY <2>1, <2>4, <2>5
<1> QED BY <1>1, ScoringInvariant, PTL

\* scoring.py:259, for every gold manifest: a mandatory check that failed blocks
\* the solve, whether gold records its name or not.  This needs one flag per name.
THEOREM MandatoryFailuresBlock ==
  ASSUME OneFlagPerName
  PROVE  Spec => []MandatoryFailureBlocks
<1>1. ASSUME ScoringInv PROVE MandatoryFailureBlocks
  <2> SUFFICES ASSUME isSolved, NEW i \in DOMAIN log, log[i].mandatory PROVE log[i].ok
    BY DEF MandatoryFailureBlocks
  <2>1. isSolved = Solved(AllChecks(recorder), gold, failed)
    BY <1>1 DEF ScoringInv, ScoredOnce
  <2>2. AllChecks(recorder) \in Seq(Checks)
    BY <1>1, ChecksOfBuckets DEF ScoringInv
  <2>3. Solved(AllChecks(recorder), gold, failed)
    BY <2>1
  <2>4. \A n \in Recorded(AllChecks(recorder)) :
          Worst(AllChecks(recorder), n).mandatory => Worst(AllChecks(recorder), n).ok
    BY <2>3, Zenon DEF Solved
  <2>5. \A c \in ChecksOf(AllChecks(recorder)) : c.mandatory => c.ok
    BY <1>1, <2>2, <2>4, MandatoryByChecks
  <2>6. log[i] \in ChecksOf(AllChecks(recorder))
    <3>1. log[i] \in ChecksOf(log)
      BY DEF ChecksOf
    <3> QED BY <1>1, <3>1 DEF ScoringInv
  <2> QED BY <2>5, <2>6
<1> QED BY <1>1, ScoringInvariant, PTL

\* What a recording step adds to the scorer's list, and what the score is after it.
LEMMA RecordScores ==
  ASSUME ScoringInv, NEW b \in Buckets, NEW c \in Checks, Record(b, c)
  PROVE  /\ AllChecks(recorder) \in Seq(Checks)
         /\ AllChecks(recorder)' \in Seq(Checks)
         /\ ChecksOf(AllChecks(recorder)') = ChecksOf(AllChecks(recorder)) \union {c}
         /\ ScoreNow' = TaskScore(AllChecks(recorder)', gold, failed)
         /\ \A n : Held(log, n) <=> Held(AllChecks(recorder), n)
         /\ \A n : n \in Recorded(log) <=> \E d \in ChecksOf(AllChecks(recorder)) : d.name = n
<1>1. /\ recorder \in RecorderType /\ recorder' \in RecorderType
      /\ ChecksOf(AllChecks(recorder)') = ChecksOf(AllChecks(recorder)) \union {c}
      /\ log \in Seq(Checks) /\ ChecksOf(log) = ChecksOf(AllChecks(recorder))
  BY RecordAdds DEF ScoringInv
<1>2. AllChecks(recorder)' = AllChecks(recorder')
  BY DEF AllChecks
<1>3. AllChecks(recorder) \in Seq(Checks) /\ AllChecks(recorder)' \in Seq(Checks)
  BY <1>1, <1>2, ChecksOfBuckets
<1>4. ScoreNow' = TaskScore(AllChecks(recorder)', gold, failed)
  <2>1. ScoreNow' = TaskScore(AllChecks(recorder)', gold', failed')
    BY DEF ScoreNow
  <2> QED BY <2>1 DEF Record
<1>5. \A n : Held(log, n) <=> Held(AllChecks(recorder), n)
  BY <1>1, <1>3, SameChecksSameHeld
<1>6. \A n : n \in Recorded(log) <=> \E d \in ChecksOf(log) : d.name = n
  BY DEF Recorded, ChecksOf
<1> QED BY <1>1, <1>3, <1>4, <1>5, <1>6

\* scoring.py:164, for every gold manifest: bailing out before a check is worth
\* exactly what failing it is worth.
THEOREM SilenceNeverPays ==
  ASSUME OneFlagPerName
  PROVE  Spec => SilenceIsFailure
<1> DEFINE Silent ==
      \A b \in Buckets, c \in Checks :
        /\ Record(b, c) /\ GoldAccepted(gold)
        /\ ~c.ok /\ c.name \in DOMAIN gold \ Recorded(log)
        /\ c.mandatory => gold[c.name].mandatory
        => ScoreNow' = ScoreNow
<1>1. ASSUME ScoringInv PROVE Silent
  <2> SUFFICES ASSUME NEW b \in Buckets, NEW c \in Checks, Record(b, c),
                      ~c.ok, c.name \in DOMAIN gold \ Recorded(log),
                      c.mandatory => gold[c.name].mandatory
               PROVE  ScoreNow' = ScoreNow
    OBVIOUS
  <2> DEFINE s == AllChecks(recorder)
             t == AllChecks(recorder)'
  <2>1. /\ s \in Seq(Checks) /\ t \in Seq(Checks) /\ ChecksOf(t) = ChecksOf(s) \union {c}
        /\ ScoreNow' = TaskScore(t, gold, failed)
        /\ \A d \in ChecksOf(s) : d.name # c.name
    BY <1>1, RecordScores
  <2>2. ScoreNow = TaskScore(s, gold, failed)
    BY DEF ScoreNow
  <2> HIDE DEF s, t
  <2>3. TaskScore(t, gold, failed) = TaskScore(s, gold, failed)
    BY <1>1, <2>1, SilentOrFailed
  <2> QED BY <2>1, <2>2, <2>3
<1>2. SilenceIsFailure <=> [][Silent]_vars
  BY DEF SilenceIsFailure
<1> HIDE DEF Silent
<1> QED BY <1>1, <1>2, ScoringInvariant, PTL

\* scoring.py:124, for every gold manifest: a name recorded again, with an
\* outcome no worse than the one it has, changes no score.
THEOREM RepeatsNeverScore ==
  ASSUME OneFlagPerName
  PROVE  Spec => RepeatsScoreOnce
<1> DEFINE Repeated ==
      \A b \in Buckets, c \in Checks :
        /\ Record(b, c) /\ GoldAccepted(gold)
        /\ c.name \in Recorded(log)
        /\ Held(log, c.name) => c.ok
        => ScoreNow' = ScoreNow
<1>1. ASSUME ScoringInv PROVE Repeated
  <2> SUFFICES ASSUME NEW b \in Buckets, NEW c \in Checks, Record(b, c),
                      c.name \in Recorded(log), Held(log, c.name) => c.ok
               PROVE  ScoreNow' = ScoreNow
    OBVIOUS
  <2> DEFINE s == AllChecks(recorder)
             t == AllChecks(recorder)'
  <2>1. /\ s \in Seq(Checks) /\ t \in Seq(Checks) /\ ChecksOf(t) = ChecksOf(s) \union {c}
        /\ ScoreNow' = TaskScore(t, gold, failed)
        /\ \E d \in ChecksOf(s) : d.name = c.name
        /\ Held(s, c.name) => c.ok
    BY <1>1, RecordScores
  <2>2. ScoreNow = TaskScore(s, gold, failed)
    BY DEF ScoreNow
  <2> HIDE DEF s, t
  <2>3. TaskScore(t, gold, failed) = TaskScore(s, gold, failed)
    BY <1>1, <2>1, RepeatedCheck
  <2> QED BY <2>1, <2>2, <2>3
<1>2. RepeatsScoreOnce <=> [][Repeated]_vars
  BY DEF RepeatsScoreOnce
<1> HIDE DEF Repeated
<1> QED BY <1>1, <1>2, ScoringInvariant, PTL

-------------------------------------------------------------------------------
(* Scoring implements CheckBoard. *)

BoardNow == [n \in Names |-> SeenAs(n)]

\* What recording a check does to the board.
LEMMA RecordObserves ==
  ASSUME ScoringInv, NEW b \in Buckets, NEW c \in Checks, Record(b, c)
  PROVE  BoardNow' = [BoardNow EXCEPT ![c.name] =
                        IF ~c.ok \/ SeenAs(c.name) = "broken" THEN "broken" ELSE "held"]
<1>1. ChecksOf(log)' = ChecksOf(log) \union {c}
  BY RecordAdds
<1>2. \A n : /\ n \in Recorded(log) <=> \E d \in ChecksOf(log) : d.name = n
             /\ (\E i \in Instances(log, n) : ~log[i].ok)
                  <=> \E d \in ChecksOf(log) : d.name = n /\ ~d.ok
  BY DEF Recorded, Instances, ChecksOf
<1>3. \A n : SeenAs(n) = IF ~\E d \in ChecksOf(log) : d.name = n THEN "absent"
                         ELSE IF \E d \in ChecksOf(log) : d.name = n /\ ~d.ok THEN "broken"
                         ELSE "held"
  BY <1>2 DEF SeenAs
<1>4. \A n : /\ (n \in Recorded(log) <=> \E d \in ChecksOf(log) : d.name = n)'
             /\ ((\E i \in Instances(log, n) : ~log[i].ok)
                  <=> \E d \in ChecksOf(log) : d.name = n /\ ~d.ok)'
  BY DEF Recorded, Instances, ChecksOf
<1>5. \A n : SeenAs(n)' = IF ~\E d \in ChecksOf(log)' : d.name = n THEN "absent"
                          ELSE IF \E d \in ChecksOf(log)' : d.name = n /\ ~d.ok THEN "broken"
                          ELSE "held"
  BY <1>4 DEF SeenAs
<1>6. ASSUME NEW n \in Names, n # c.name PROVE SeenAs(n)' = SeenAs(n)
  BY <1>1, <1>3, <1>5, <1>6
<1>7. SeenAs(c.name)' = IF ~c.ok \/ SeenAs(c.name) = "broken" THEN "broken" ELSE "held"
  <2>1. \E d \in ChecksOf(log)' : d.name = c.name
    BY <1>1
  <2>2. (\E d \in ChecksOf(log)' : d.name = c.name /\ ~d.ok)
          <=> ~c.ok \/ \E d \in ChecksOf(log) : d.name = c.name /\ ~d.ok
    BY <1>1
  <2>3. SeenAs(c.name) = "broken" <=> \E d \in ChecksOf(log) : d.name = c.name /\ ~d.ok
    BY <1>3
  <2> QED BY <1>5, <2>1, <2>2, <2>3
<1> QED BY <1>6, <1>7 DEF BoardNow

\* The board of a run that has recorded nothing.
LEMMA EmptyBoard ==
  /\ log = << >> => BoardNow = [n \in Names |-> "absent"]
  /\ log' = << >> => BoardNow' = [n \in Names |-> "absent"]
<1>1. DOMAIN << >> = {}
  BY EmptySeq
<1>2. ASSUME log = << >>, NEW n PROVE SeenAs(n) = "absent"
  <2>1. n \notin Recorded(log) /\ Instances(log, n) = {}
    BY <1>1, <1>2 DEF Recorded, Instances
  <2> QED BY <2>1 DEF SeenAs
<1>3. ASSUME log' = << >>, NEW n PROVE SeenAs(n)' = "absent"
  <2>1. (n \notin Recorded(log) /\ Instances(log, n) = {})'
    BY <1>1, <1>3 DEF Recorded, Instances
  <2> QED BY <2>1 DEF SeenAs
<1> QED BY <1>2, <1>3 DEF BoardNow

\* Steps that leave the log alone leave the board alone.
LEMMA SameLogSameBoard ==
  ASSUME log' = log
  PROVE  BoardNow' = BoardNow
BY DEF BoardNow, SeenAs, Recorded, Instances

\* A scored run that gained credit was solved, and held what gold requires.
LEMMA ScoreCloses ==
  ASSUME ScoringInv, Score
  PROVE  /\ isSolved' \in BOOLEAN /\ (score' > 0) \in BOOLEAN
         /\ isSolved' => \A n \in Required(gold) : SeenAs(n) = "held"
         /\ score' > 0 => isSolved'
<1> DEFINE s == AllChecks(recorder)
<1>1. s \in Seq(Checks) /\ log \in Seq(Checks) /\ ChecksOf(s) = ChecksOf(log)
  BY ChecksOfBuckets DEF ScoringInv
<1>2. isSolved = FALSE
  BY DEF Score, ScoringInv, ScoredOnce
<1>3. \A n : Held(s, n) <=> Held(log, n)
  BY <1>1, SameChecksSameHeld
<1>4. ASSUME NEW n, Held(log, n) PROVE SeenAs(n) = "held"
  <2>1. n \in Recorded(log) /\ Worst(log, n).ok
    BY <1>4 DEF Held
  <2>2. \A i \in Instances(log, n) : log[i].ok
    BY <1>1, <2>1, WorstIsAnInstance
  <2> QED BY <2>1, <2>2 DEF SeenAs
<1>5. CASE GoldAccepted(gold)
  <2>1. /\ score' = TaskScore(s, gold, failed)
        /\ isSolved' = Solved(s, gold, failed)
    BY <1>5, Zenon DEF Score
  <2> HIDE DEF s
  <2>2. isSolved' \in BOOLEAN
    BY <2>1, Zenon DEF Solved
  <2>3. ASSUME isSolved', NEW n \in Required(gold) PROVE SeenAs(n) = "held"
    <3>1. Held(s, n)
      BY <2>1, <2>3, Zenon DEF Solved
    <3> QED BY <1>3, <1>4, <3>1
  <2>4. ASSUME ~isSolved' PROVE score' = 0
    <3>1. Required(gold) # {} /\ ~Solved(s, gold, failed)
      BY <1>5, <2>1, <2>4 DEF GoldAccepted
    <3> QED BY <2>1, <3>1, Zenon DEF TaskScore
  <2> QED BY <2>2, <2>3, <2>4
<1>6. CASE ~GoldAccepted(gold)
  <2>1. score' = Unscorable /\ isSolved' = FALSE
    BY <1>2, <1>6, Zenon DEF Score
  <2>2. (score' > 0) = FALSE
    BY <2>1, SMT DEF Unscorable
  <2>3. isSolved' \in BOOLEAN /\ ~isSolved'
    BY <2>1
  <2> QED BY <2>2, <2>3
<1> QED BY <1>5, <1>6

\* The scorer gives a task author what CheckBoard promises, for every gold
\* manifest and however names are flagged: a name once broken stays broken, and
\* only a run that held every required name is solved or earns a score.
THEOREM ScoringImplementsBoard == Spec => ImplementsBoard
<1>1. Init => Board!Init
  <2> SUFFICES ASSUME Init PROVE Board!Init
    OBVIOUS
  <2>1. Required(gold) \subseteq Names
    BY ScoringAssumption DEF Init, Required
  <2>2. BoardNow = [n \in Names |-> "absent"]
    BY EmptyBoard DEF Init
  <2> QED BY <2>1, <2>2 DEF Init, Board!Init, BoardNow, NoScore
<1>2. ScoringInv /\ [Next]_vars => [Board!Next]_Board!vars
  <2> SUFFICES ASSUME ScoringInv, [Next]_vars PROVE [Board!Next]_Board!vars
    OBVIOUS
  <2>1. ASSUME NEW b \in Buckets, NEW c \in Checks, Record(b, c) PROVE Board!Next
    <3>1. c.name \in Names
      BY DEF Checks, Check
    <3>2. /\ step # "scored" /\ step' = step /\ gold' = gold
          /\ score' = score /\ isSolved' = isSolved
      BY <2>1 DEF Record
    <3>3. BoardNow' = [BoardNow EXCEPT ![c.name] =
                         IF ~c.ok \/ SeenAs(c.name) = "broken" THEN "broken" ELSE "held"]
      BY <2>1, RecordObserves
    <3>4. BoardNow[c.name] = SeenAs(c.name)
      BY <3>1 DEF BoardNow
    <3>5. Board!Observe(c.name)
      BY <3>1, <3>2, <3>3, <3>4 DEF Board!Observe, BoardNow, Required
    <3> QED BY <3>1, <3>5 DEF Board!Next
  <2>2. CASE ScenariosEnd
    BY <2>2, SameLogSameBoard DEF ScenariosEnd, Board!vars, BoardNow, Required
  <2>3. CASE ScenarioRaises
    <3>1. BoardNow' = [n \in Names |-> "absent"]
      BY <2>3, EmptyBoard DEF ScenarioRaises
    <3>2. Board!Crash
      BY <2>3, <3>1 DEF ScenarioRaises, Board!Crash, BoardNow, Required
    <3> QED BY <3>2 DEF Board!Next
  <2>4. CASE Score
    <3>1. /\ step # "scored" /\ step' = "scored" /\ gold' = gold /\ log' = log
      BY <2>4 DEF Score
    <3>2. BoardNow' = BoardNow
      BY <3>1, SameLogSameBoard
    <3>3. \A n \in Required(gold) : n \in Names
      BY ScoringAssumption DEF ScoringInv, Required
    <3>4. Required(gold)' = Required(gold)
      BY <3>1
    <3>5. Board!Close
      BY <2>4, <3>1, <3>2, <3>3, <3>4, ScoreCloses DEF Board!Close, BoardNow
    <3> QED BY <3>5 DEF Board!Next
  <2>5. CASE UNCHANGED vars
    BY <2>5, SameLogSameBoard DEF vars, Board!vars, BoardNow, Required
  <2> QED BY <2>1, <2>2, <2>3, <2>4, <2>5 DEF Next
<1> QED BY <1>1, <1>2, ScoringInvariant, PTL DEF Spec, ImplementsBoard, Board!Spec

-------------------------------------------------------------------------------
(* Numbers. *)

\* A set of numbers that is not empty has a least one.
LEMMA LeastNatural ==
  ASSUME NEW S \in SUBSET Nat, S # {}
  PROVE  \E m \in S : \A n \in S : m <= n
<1>1. IsWellFoundedOn(OpToRel(<, Nat), Nat)
  BY NatLessThanWellFounded
<1>2. PICK m \in S : \A n \in S : ~(<<n, m>> \in OpToRel(<, Nat))
  BY <1>1, WFMin
<1>3. ASSUME NEW n \in S PROVE m <= n
  <2>1. m \in Nat /\ n \in Nat
    OBVIOUS
  <2>2. n < m => <<n, m>> \in OpToRel(<, Nat)
    BY <2>1 DEF OpToRel
  <2>3. ~(n < m)
    BY <1>2, <2>2, Zenon
  <2> QED
    BY <2>1, <2>3
<1> QED
  BY <1>3

\* Induction up to n, over the set of numbers a fact is known for.
LEMMA Induction ==
  ASSUME NEW n \in Nat, NEW S \in SUBSET (0..n), 0 \in S, \A m \in 0..(n - 1) : m \in S => m + 1 \in S
  PROVE  S = 0..n
<1> SUFFICES ASSUME S # 0..n PROVE FALSE
  OBVIOUS
<1> DEFINE missing == (0..n) \ S
<1>1. missing \in SUBSET Nat /\ missing # {}
  <2>1. \E m \in 0..n : m \notin S
    BY Zenon
  <2> QED
    BY <2>1
<1>2. PICK m \in missing : \A k \in missing : m <= k
  BY <1>1, LeastNatural
<1>3. m - 1 \in 0..(n - 1) /\ m - 1 \in S /\ m \in Nat
  BY <1>1, <1>2
<1> QED
  BY <1>2, <1>3

-------------------------------------------------------------------------------
(* Sums over finite sets. *)

\* The element a fold takes out of a set.
AnyOf(s) == CHOOSE x \in s : TRUE

\* What g holds for a set, from what it holds for the set less one element.
Summed(f, g, s) == IF s = {} THEN 0 ELSE f[AnyOf(s)] + g[s \ {AnyOf(s)}]

\* A set that is not empty has one element less without one of them.
LEMMA OneLess ==
  ASSUME NEW s, IsFiniteSet(s), s # {}
  PROVE  /\ AnyOf(s) \in s /\ IsFiniteSet(s \ {AnyOf(s)})
         /\ Cardinality(s) \in Nat \ {0}
         /\ Cardinality(s \ {AnyOf(s)}) = Cardinality(s) - 1
<1>1. AnyOf(s) \in s
  BY DEF AnyOf
<1> QED
  BY <1>1, FS_RemoveElement, FS_EmptySet, FS_CardinalityType

\* The recursion that the fold over a set is defined by has a solution: by induction
\* over the size of the sets it is defined for.
LEMMA SumsExist ==
  ASSUME NEW D, IsFiniteSet(D), NEW f
  PROVE  \E g : g = [s \in SUBSET D |-> Summed(f, g, s)]
<1> DEFINE UpTo(g, k) == /\ g = [s \in SUBSET D |-> g[s]]
                         /\ \A s \in SUBSET D : Cardinality(s) <= k => g[s] = Summed(f, g, s)
           N == Cardinality(D)
           done == {k \in 0..N : \E g : UpTo(g, k)}
<1>1. N \in Nat /\ \A s \in SUBSET D : IsFiniteSet(s) /\ Cardinality(s) \in Nat /\ Cardinality(s) <= N
  BY FS_Subset, FS_CardinalityType
<1>2. 0 \in done
  <2> DEFINE g == [s \in SUBSET D |-> 0]
  <2>1. ASSUME NEW s \in SUBSET D, Cardinality(s) <= 0 PROVE g[s] = Summed(f, g, s)
    <3>1. Cardinality(s) = 0
      BY <1>1, <2>1
    <3>2. s = {}
      BY <1>1, <3>1, FS_EmptySet
    <3> QED
      BY <3>2 DEF Summed
  <2>2. UpTo(g, 0)
    BY <2>1
  <2>3. 0 \in 0..N
    BY <1>1
  <2> HIDE DEF UpTo, g
  <2> QED
    BY <2>2, <2>3
<1>3. ASSUME NEW k \in 0..(N - 1), k \in done PROVE k + 1 \in done
  <2>1. PICK h : UpTo(h, k)
    BY <1>3
  <2> DEFINE g == [s \in SUBSET D |-> IF Cardinality(s) <= k THEN h[s] ELSE Summed(f, h, s)]
  <2>2. ASSUME NEW s \in SUBSET D, Cardinality(s) <= k + 1 PROVE g[s] = Summed(f, g, s)
    <3>1. g[s] = Summed(f, h, s)
      <4>1. CASE Cardinality(s) <= k
        BY <2>1, <4>1
      <4>2. CASE ~(Cardinality(s) <= k)
        BY <4>2
      <4> QED
        BY <4>1, <4>2
    <3>2. CASE s = {}
      BY <3>1, <3>2 DEF Summed
    <3>3. CASE s # {}
      <4>1. /\ AnyOf(s) \in s /\ Cardinality(s \ {AnyOf(s)}) = Cardinality(s) - 1
            /\ Cardinality(s) \in Nat
        BY <1>1, <3>3, OneLess
      <4>2. s \ {AnyOf(s)} \in SUBSET D /\ Cardinality(s \ {AnyOf(s)}) <= k
        BY <2>2, <4>1
      <4>3. g[s \ {AnyOf(s)}] = h[s \ {AnyOf(s)}]
        BY <4>2
      <4> HIDE DEF g
      <4> QED
        BY <3>1, <4>3, Zenon DEF Summed
    <3> QED
      BY <3>2, <3>3
  <2>3. UpTo(g, k + 1)
    <3>1. g = [s \in SUBSET D |-> g[s]]
      OBVIOUS
    <3> HIDE DEF g
    <3> QED
      BY <2>2, <3>1
  <2>4. k + 1 \in 0..N
    BY <1>1
  <2> HIDE DEF UpTo, g
  <2> QED
    BY <2>3, <2>4
<1>4. done = 0..N
  <2>1. done \in SUBSET (0..N)
    OBVIOUS
  <2> HIDE DEF done, N
  <2> QED
    BY <1>1, <1>2, <1>3, <2>1, Induction
<1>5. N \in done
  <2>1. N \in 0..N
    BY <1>1
  <2> HIDE DEF done, N
  <2> QED
    BY <1>4, <2>1
<1>6. PICK g : UpTo(g, N)
  BY <1>5
<1>7. \A s \in SUBSET D : g[s] = Summed(f, g, s)
  BY <1>1, <1>6
<1>8. g = [s \in SUBSET D |-> g[s]]
  BY <1>6
<1> QED
  BY <1>7, <1>8

\* The sum of integers over a finite set is an integer, and 0 where there are none.
LEMMA SumIsInteger ==
  ASSUME NEW D, IsFiniteSet(D), NEW f \in [D -> Int]
  PROVE  SumFunction(f) \in Int /\ (D = {} => SumFunction(f) = 0)
<1> DEFINE g == CHOOSE h : h = [s \in SUBSET D |-> Summed(f, h, s)]
<1>1. SumFunction(f) = SumFunctionOnSet(f, D)
  BY DEF SumFunction
<1>2. SumFunction(f) = FoldFunctionOnSet(+, 0, f, D)
  BY <1>1 DEF SumFunctionOnSet
<1>3. SumFunction(f) = MapThenFoldSet(+, 0, LAMBDA i : f[i], LAMBDA s : CHOOSE x \in s : TRUE, D)
  BY <1>2 DEF FoldFunctionOnSet
<1>4. SumFunction(f) = g[D]
  BY <1>3 DEF MapThenFoldSet, Summed, AnyOf
<1>5. g = [s \in SUBSET D |-> Summed(f, g, s)]
  BY SumsExist
<1> HIDE DEF g
<1>6. D = {} => SumFunction(f) = 0
  BY <1>4, <1>5 DEF Summed
<1> DEFINE N == Cardinality(D)
           typed == {k \in 0..N : \A s \in SUBSET D : Cardinality(s) <= k => g[s] \in Int}
<1>7. N \in Nat /\ \A s \in SUBSET D : IsFiniteSet(s) /\ Cardinality(s) \in Nat /\ Cardinality(s) <= N
  BY FS_Subset, FS_CardinalityType
<1>8. 0 \in typed
  <2>1. ASSUME NEW s \in SUBSET D, Cardinality(s) <= 0 PROVE g[s] \in Int
    <3>1. s = {}
      <4>1. Cardinality(s) = 0
        BY <1>7, <2>1
      <4> QED
        BY <1>7, <4>1, FS_EmptySet
    <3> QED
      BY <1>5, <3>1 DEF Summed
  <2>2. 0 \in 0..N
    BY <1>7
  <2> QED
    BY <2>1, <2>2
<1>9. ASSUME NEW k \in 0..(N - 1), k \in typed PROVE k + 1 \in typed
  <2>1. ASSUME NEW s \in SUBSET D, Cardinality(s) <= k + 1 PROVE g[s] \in Int
    <3>1. CASE s = {}
      BY <1>5, <3>1 DEF Summed
    <3>2. CASE s # {}
      <4>1. /\ AnyOf(s) \in s /\ Cardinality(s \ {AnyOf(s)}) = Cardinality(s) - 1
            /\ Cardinality(s) \in Nat
        BY <1>7, <3>2, OneLess
      <4>2. s \ {AnyOf(s)} \in SUBSET D /\ Cardinality(s \ {AnyOf(s)}) <= k
        BY <2>1, <4>1
      <4>3. g[s \ {AnyOf(s)}] \in Int
        BY <1>9, <4>2
      <4>4. f[AnyOf(s)] \in Int
        BY <4>1
      <4>5. g[s] = f[AnyOf(s)] + g[s \ {AnyOf(s)}]
        BY <1>5, <3>2 DEF Summed
      <4> QED
        BY <4>3, <4>4, <4>5
    <3> QED
      BY <3>1, <3>2
  <2>2. k + 1 \in 0..N
    BY <1>7
  <2> QED
    BY <2>1, <2>2
<1>10. typed = 0..N
  <2>1. typed \in SUBSET (0..N)
    OBVIOUS
  <2> HIDE DEF typed, N
  <2> QED
    BY <1>7, <1>8, <1>9, <2>1, Induction
<1>11. g[D] \in Int
  <2>1. N \in typed
    <3>1. N \in 0..N
      BY <1>7
    <3> HIDE DEF typed, N
    <3> QED
      BY <1>10, <3>1
  <2> QED
    BY <1>7, <2>1
<1> QED
  BY <1>4, <1>6, <1>11

\* What divides at most 100 times m by m is in percent.
LEMMA Quotient ==
  ASSUME NEW x \in Nat, NEW m \in Nat \ {0}, x <= 100 * m
  PROVE  x \div m \in 0..100
<1> DEFINE q == x \div m
<1>1. q \in Int /\ m * q <= x /\ x < m * q + m
  OBVIOUS
<1> HIDE DEF q
<1>2. q >= 0
  <2> SUFFICES ASSUME q <= -1 PROVE FALSE
    BY <1>1
  <2>1. PICK d \in Nat : q = -1 - d
    <3>1. -1 - q \in Nat
      BY <1>1
    <3> QED
      BY <1>1, <3>1
  <2>2. m * q + m = -(m * d)
    BY <2>1
  <2>3. m * d \in Nat
    BY <2>1
  <2> QED
    BY <1>1, <2>2, <2>3
<1>3. q <= 100
  <2> SUFFICES ASSUME q >= 101 PROVE FALSE
    BY <1>1
  <2>1. PICK d \in Nat : q = 101 + d
    <3>1. q - 101 \in Nat
      BY <1>1
    <3> QED
      BY <1>1, <3>1
  <2>2. m * q = 101 * m + m * d
    BY <2>1
  <2>3. m * d \in Nat
    BY <2>1
  <2> QED
    BY <1>1, <2>2, <2>3
<1> QED
  BY <1>1, <1>2, <1>3 DEF q

\* A share of what gold earned, clamped, is in percent.
LEMMA ShareOfGold ==
  ASSUME NEW raw \in Int, NEW max \in Int, max > 0
  PROVE  (100 * Clamp(raw, 0, max)) \div max \in 0..100
<1>1. Clamp(raw, 0, max) \in Nat /\ Clamp(raw, 0, max) <= max
  BY DEF Clamp
<1> DEFINE c == Clamp(raw, 0, max)
<1> HIDE DEF c
<1>2. c \in Nat /\ c <= max /\ max \in Nat \ {0}
  BY <1>1 DEF c
<1>3. 100 * c \in Nat /\ 100 * c <= 100 * max
  BY <1>2
<1>4. \A x \in Nat : x <= 100 * max => x \div max \in 0..100
  BY <1>2, Quotient
<1>5. (100 * c) \div max \in 0..100
  BY <1>3, <1>4
<1> QED
  BY <1>5 DEF c

\* What gold earned and what the run earns of it are integers.
LEMMA ScoresAreIntegers ==
  ASSUME NEW g \in Manifests, NEW s
  PROVE  RawScore(s, g) \in Int /\ MaxScore(g) \in Int
<1>1. IsFiniteSet(DOMAIN g) /\ \A n \in DOMAIN g : g[n] \in Row
  BY ScoringAssumption
<1>2. \A n \in DOMAIN g : g[n].pass \in Int /\ g[n].fail \in Int
  BY <1>1 DEF Row, Values
<1>3. [n \in DOMAIN g |-> Value(g[n], Held(s, n))] \in [DOMAIN g -> Int]
  <2>1. \A n \in DOMAIN g : Value(g[n], Held(s, n)) \in Int
    BY <1>2, Zenon DEF Value
  <2> QED
    BY <2>1
<1>4. [n \in DOMAIN g |-> Max({0, Value(g[n], g[n].ok)})] \in [DOMAIN g -> Int]
  <2>1. \A n \in DOMAIN g : Value(g[n], g[n].ok) \in Int
    BY <1>2, Zenon DEF Value
  <2>2. \A v \in Int : Max({0, v}) \in Int
    <3> SUFFICES ASSUME NEW v \in Int PROVE Max({0, v}) \in Int
      OBVIOUS
    <3>1. \E x \in {0, v} : \A y \in {0, v} : x >= y
      BY SMT
    <3>2. Max({0, v}) \in {0, v}
      BY <3>1 DEF Max
    <3> QED
      BY <3>2
  <2> QED
    BY <2>1, <2>2
<1> QED
  BY <1>1, <1>3, <1>4, SumIsInteger DEF RawScore, MaxScore

\* scoring.py:169, for every gold manifest: where gold can be scored against, a
\* score is in percent.
LEMMA ScoreInPercent ==
  ASSUME NEW g \in Manifests, GoldAccepted(g), NEW s, NEW err
  PROVE  TaskScore(s, g, err) \in 0..100
<1>1. RawScore(s, g) \in Int /\ MaxScore(g) \in Int /\ MaxScore(g) > 0
  BY ScoresAreIntegers DEF GoldAccepted
<1>2. (100 * Clamp(RawScore(s, g), 0, MaxScore(g))) \div MaxScore(g) \in 0..100
  BY <1>1, ShareOfGold
<1> QED
  BY <1>2 DEF TaskScore

\* Whatever is recorded under whichever gold manifest, a run that is scored has a
\* score in percent or is refused.
THEOREM ScoringTypeCorrect == Spec => []TypeOK
<1>1. Init => failed \in BOOLEAN
  BY DEF Init
<1>2. failed \in BOOLEAN /\ [Next]_vars => (failed \in BOOLEAN)'
  BY DEF Next, Record, ScenariosEnd, ScenarioRaises, Score, vars
<1>3. ScoringInv /\ failed \in BOOLEAN => TypeOK
  <2> SUFFICES ASSUME ScoringInv, failed \in BOOLEAN PROVE TypeOK
    OBVIOUS
  <2>1. recorder \in [Buckets -> Seq(Check)] /\ log \in Seq(Check)
    <3>1. Seq(Checks) \subseteq Seq(Check)
      <4> SUFFICES ASSUME NEW s \in Seq(Checks) PROVE s \in Seq(Check)
        OBVIOUS
      <4>1. Len(s) \in Nat /\ s \in [1..Len(s) -> Checks]
        OBVIOUS
      <4>2. s \in [1..Len(s) -> Check]
        BY <4>1 DEF Checks
      <4> QED
        BY <4>1, <4>2
    <3> QED
      BY <3>1 DEF ScoringInv, RecorderType
  <2>2. score \in (0..100) \union {NoScore, Unscorable}
    BY ScoreInPercent DEF ScoringInv, ScoredOnce
  <2>3. isSolved \in BOOLEAN
    <3>1. Solved(AllChecks(recorder), gold, failed) \in BOOLEAN
      BY Zenon DEF Solved
    <3> QED
      BY <3>1, Zenon DEF ScoringInv, ScoredOnce
  <2> QED
    BY <2>1, <2>2, <2>3 DEF ScoringInv, TypeOK
<1> QED
  BY <1>1, <1>2, <1>3, ScoringInvariant, PTL DEF Spec

-------------------------------------------------------------------------------
(* Occurrences: the k-th check of a bucket and name. *)

\* A sequence, of whatever.
IsList(s) == s = [i \in 1..Len(s) |-> s[i]] /\ Len(s) \in Nat

\* The checks of the bucket and name of c.
Like(s, c) == {j \in DOMAIN s : SameKey(s[j], c)}

\* The positions of a list, and their finite sets.
LEMMA ListDomain ==
  ASSUME NEW s, IsList(s)
  PROVE  DOMAIN s = 1..Len(s) /\ Len(s) \in Nat /\ IsFiniteSet(DOMAIN s)
         /\ \A S \in SUBSET (DOMAIN s) : IsFiniteSet(S) /\ Cardinality(S) \in Nat
<1>1. DOMAIN s = 1..Len(s) /\ Len(s) \in Nat
  BY DEF IsList
<1>2. IsFiniteSet(1..Len(s))
  BY <1>1, FS_Interval
<1> QED
  BY <1>1, <1>2, FS_Subset, FS_CardinalityType

\* The positions up to i of the checks like the i-th.
UpTo(s, i) == {j \in 1..i : SameKey(s[j], s[i])}

\* To have a bucket and a name in common.
LEMMA SameKeyIsEquivalence ==
  /\ \A c : SameKey(c, c)
  /\ \A c, d : SameKey(c, d) => SameKey(d, c)
  /\ \A c, d, e : SameKey(c, d) /\ SameKey(d, e) => SameKey(c, e)
BY DEF SameKey

\* The i-th check is at most the last occurrence of its bucket and name.
LEMMA OccurrenceBounds ==
  ASSUME NEW s, IsList(s), NEW i \in DOMAIN s, NEW c, SameKey(s[i], c)
  PROVE  /\ Occurrence(s, i) \in 1..Cardinality(Like(s, c))
         /\ IsFiniteSet(UpTo(s, i)) /\ Occurrence(s, i) = Cardinality(UpTo(s, i))
         /\ UpTo(s, i) \in SUBSET Like(s, c)
<1>1. DOMAIN s = 1..Len(s) /\ Len(s) \in Nat /\ i \in Nat /\ i \in 1..i
  BY ListDomain
<1>2. UpTo(s, i) \in SUBSET Like(s, c) /\ Like(s, c) \in SUBSET (DOMAIN s)
  <2>1. ASSUME NEW j \in UpTo(s, i) PROVE j \in Like(s, c)
    <3>1. j \in 1..i /\ SameKey(s[j], s[i])
      BY DEF UpTo
    <3>2. j \in DOMAIN s /\ SameKey(s[j], c)
      BY <1>1, <3>1, SameKeyIsEquivalence
    <3> QED
      BY <3>2 DEF Like
  <2> QED
    BY <2>1 DEF Like
<1>3. i \in UpTo(s, i)
  BY <1>1, SameKeyIsEquivalence DEF UpTo
<1>4. /\ IsFiniteSet(Like(s, c)) /\ Cardinality(Like(s, c)) \in Nat
      /\ IsFiniteSet(UpTo(s, i)) /\ Cardinality(UpTo(s, i)) \in Nat
      /\ Cardinality(UpTo(s, i)) <= Cardinality(Like(s, c))
  BY <1>2, ListDomain, FS_Subset
<1>5. Cardinality(UpTo(s, i)) # 0
  BY <1>3, <1>4, FS_EmptySet
<1>6. Occurrence(s, i) = Cardinality(UpTo(s, i))
  BY DEF Occurrence, UpTo
<1> QED
  BY <1>2, <1>4, <1>5, <1>6

\* Two checks of one bucket and name are different occurrences.
LEMMA OccurrenceIsOne ==
  ASSUME NEW s, IsList(s), NEW i \in DOMAIN s, NEW j \in DOMAIN s, SameKey(s[i], s[j]),
         Occurrence(s, i) = Occurrence(s, j)
  PROVE  i = j
<1>1. DOMAIN s = 1..Len(s) /\ Len(s) \in Nat
  BY ListDomain
<1>2. ASSUME NEW k \in DOMAIN s, NEW m \in DOMAIN s, SameKey(s[k], s[m]), k < m,
             Occurrence(s, k) = Occurrence(s, m)
      PROVE  FALSE
  <2>1. UpTo(s, k) \in SUBSET UpTo(s, m)
    <3>1. ASSUME NEW x \in UpTo(s, k) PROVE x \in UpTo(s, m)
      <4>1. x \in 1..k /\ SameKey(s[x], s[k])
        BY DEF UpTo
      <4>2. SameKey(s[x], s[m])
        BY <1>2, <4>1, SameKeyIsEquivalence
      <4>3. x \in 1..m
        BY <1>1, <1>2, <4>1
      <4> QED
        BY <4>2, <4>3 DEF UpTo
    <3> QED
      BY <3>1
  <2>2. m \in UpTo(s, m) /\ m \notin UpTo(s, k)
    BY <1>1, <1>2, SameKeyIsEquivalence DEF UpTo
  <2>3. /\ IsFiniteSet(UpTo(s, m)) /\ Occurrence(s, m) = Cardinality(UpTo(s, m))
        /\ Occurrence(s, k) = Cardinality(UpTo(s, k))
    BY OccurrenceBounds, SameKeyIsEquivalence
  <2>4. UpTo(s, m) = UpTo(s, k)
    BY <1>2, <2>1, <2>3, FS_Subset
  <2> QED
    BY <2>2, <2>4
<1>3. SameKey(s[j], s[i])
  BY SameKeyIsEquivalence
<1>4. ~(i < j) /\ ~(j < i)
  BY <1>2, <1>3
<1> QED
  BY <1>1, <1>4

\* Every number up to the count of a bucket and name is an occurrence.
LEMMA OccurrenceReached ==
  ASSUME NEW s, IsList(s), NEW c, NEW k \in 1..Cardinality(Like(s, c))
  PROVE  \E j \in Like(s, c) : Occurrence(s, j) = k
<1> DEFINE S == Like(s, c)
           T == 1..Cardinality(S)
           f == [j \in S |-> Occurrence(s, j)]
<1>1. IsFiniteSet(S) /\ Cardinality(S) \in Nat /\ S \in SUBSET (DOMAIN s)
  BY ListDomain DEF Like
<1>2. IsFiniteSet(T) /\ Cardinality(T) = Cardinality(S)
  BY <1>1, FS_Interval
<1>3. \A j \in S : j \in DOMAIN s /\ SameKey(s[j], c)
  BY DEF Like
<1>4. \A j \in S : Occurrence(s, j) \in T
  BY <1>3, OccurrenceBounds
<1>5. \A i, j \in S : Occurrence(s, i) = Occurrence(s, j) => i = j
  <2> SUFFICES ASSUME NEW i \in S, NEW j \in S, Occurrence(s, i) = Occurrence(s, j) PROVE i = j
    OBVIOUS
  <2>1. SameKey(s[i], s[j])
    BY <1>3, SameKeyIsEquivalence
  <2> QED
    BY <1>3, <2>1, OccurrenceIsOne
<1> HIDE DEF S, T
<1>6. f \in Injection(S, T)
  BY <1>4, <1>5 DEF Injection, IsInjective
<1>7. f \in Surjection(S, T)
  BY <1>1, <1>2, <1>6, FS_Injection
<1>8. k \in T
  BY DEF T, S
<1> QED
  BY <1>7, <1>8 DEF Surjection, S

\* The larger of two integers.
LEMMA LargerOfTwo ==
  ASSUME NEW a \in Int, NEW b \in Int
  PROVE  Max({a, b}) \in {a, b} /\ Max({a, b}) >= a /\ Max({a, b}) >= b
<1>1. \E x \in {a, b} : \A y \in {a, b} : x >= y
  BY SMT
<1> QED
  BY <1>1, Zenon DEF Max

-------------------------------------------------------------------------------
(* The outcome of a name over the instances of it. *)

\* A name is held when it was recorded and none of its instances failed.
LEMMA HeldByInstances ==
  ASSUME NEW s, IsList(s), NEW n
  PROVE  Held(s, n) <=> n \in Recorded(s) /\ \A i \in Instances(s, n) : s[i].ok
<1> DEFINE failing == {i \in Instances(s, n) : ~s[i].ok}
           kept == IF failing = {} THEN Instances(s, n) ELSE failing
<1>1. Instances(s, n) \subseteq Nat /\ (n \in Recorded(s) <=> Instances(s, n) # {})
  BY ListDomain DEF Instances, Recorded
<1>2. Worst(s, n) = s[Min(kept)]
  BY DEF Worst
<1>3. ASSUME n \in Recorded(s) PROVE Min(kept) \in kept
  <2>1. kept \subseteq Nat /\ kept # {}
    BY <1>1, <1>3
  <2> HIDE DEF kept
  <2> QED
    BY <2>1, MinIsElement
<1>4. ASSUME n \in Recorded(s), failing = {} PROVE Worst(s, n).ok
  BY <1>2, <1>3, <1>4
<1>5. ASSUME n \in Recorded(s), failing # {} PROVE ~Worst(s, n).ok
  BY <1>2, <1>3, <1>5
<1> QED
  BY <1>4, <1>5 DEF Held

\* A verdict v records every check of another, g, as often as that does.
AsOften(v, g) == SameCounts(v, g) /\ SameNameCounts(v, g)

\* Under equal counts, the rows of a name are all hit exactly when the scorer,
\* which sees the worst instance of the name only, finds the name held.
LEMMA HitsAreHeld ==
  ASSUME NEW v, NEW g, IsList(v.checks), IsList(g.checks), AsOften(v, g),
         NEW n \in Recorded(g.checks)
  PROVE  (\A i \in Instances(g.checks, n) : Hit(v, g.checks, i)) <=> Held(v.checks, n)
<1> DEFINE s == v.checks
           t == g.checks
           G == Instances(t, n)
           S == Instances(s, n)
<1>1. /\ IsFiniteSet(G) /\ G \in SUBSET (DOMAIN t) /\ G # {} /\ Cardinality(G) \in Nat
      /\ IsFiniteSet(S) /\ S \in SUBSET (DOMAIN s) /\ Cardinality(S) \in Nat
      /\ \A i \in G : t[i].name = n
      /\ \A j \in DOMAIN s : j \in S <=> s[j].name = n
  BY ListDomain DEF Instances, Recorded
<1>2. Cardinality(S) = Cardinality(G)
  BY DEF AsOften, SameNameCounts
<1>3. ASSUME NEW i \in DOMAIN t PROVE Cardinality(Like(s, t[i])) = Cardinality(Like(t, t[i]))
  BY <1>3 DEF AsOften, SameCounts, Like
<1>4. IsList(s) /\ IsList(t)
  OBVIOUS
<1>5. Held(s, n) <=> n \in Recorded(s) /\ \A j \in S : s[j].ok
  BY <1>4, HeldByInstances
<1>6. \A i : Hit(v, t, i) <=> \E j \in DOMAIN s : /\ SameKey(s[j], t[i])
                                                 /\ Occurrence(s, j) = Occurrence(t, i)
                                                 /\ s[j].ok
  BY Zenon DEF Hit
<1>7. n \in Recorded(s) <=> S # {}
  BY DEF Recorded, Instances
<1> HIDE DEF s, t, G, S
<1>8. ASSUME Held(s, n), NEW i \in G PROVE Hit(v, t, i)
  <2>1. i \in DOMAIN t /\ t[i].name = n
    BY <1>1
  <2>2. Occurrence(t, i) \in 1..Cardinality(Like(t, t[i]))
    BY <1>4, <2>1, OccurrenceBounds, SameKeyIsEquivalence
  <2>3. PICK j \in Like(s, t[i]) : Occurrence(s, j) = Occurrence(t, i)
    BY <1>3, <1>4, <2>1, <2>2, OccurrenceReached
  <2>4. j \in DOMAIN s /\ SameKey(s[j], t[i])
    BY DEF Like
  <2>5. s[j].name = n
    BY <2>1, <2>4 DEF SameKey
  <2>6. s[j].ok
    BY <1>1, <1>5, <1>8, <2>4, <2>5
  <2> QED
    BY <1>6, <2>3, <2>4, <2>6
<1>9. ASSUME \A i \in G : Hit(v, t, i) PROVE Held(s, n)
  <2> DEFINE Same(i, j) == SameKey(s[j], t[i]) /\ Occurrence(s, j) = Occurrence(t, i) /\ s[j].ok
             f == [i \in G |-> CHOOSE j \in DOMAIN s : Same(i, j)]
  <2>1. \A i \in G : \E j \in DOMAIN s : Same(i, j)
    BY <1>6, <1>9
  <2>2. \A i \in G : f[i] \in DOMAIN s /\ Same(i, f[i])
    BY <2>1
  <2>3. f = [i \in G |-> f[i]]
    OBVIOUS
  <2> HIDE DEF f
  <2>4. \A i \in G : f[i] \in S
    BY <1>1, <2>2 DEF SameKey
  <2>5. ASSUME NEW i \in G, NEW k \in G, f[i] = f[k] PROVE i = k
    <3>1. Same(i, f[i]) /\ Same(k, f[i])
      BY <2>2, <2>5
    <3>2. SameKey(t[i], t[k]) /\ Occurrence(t, i) = Occurrence(t, k)
      BY <3>1, SameKeyIsEquivalence
    <3> QED
      BY <1>1, <1>4, <3>2, OccurrenceIsOne
  <2>6. f \in Injection(G, S)
    BY <2>3, <2>4, <2>5 DEF Injection, IsInjective
  <2>7. f \in Surjection(G, S)
    BY <1>1, <1>2, <2>6, FS_Injection
  <2>8. ASSUME NEW j \in S PROVE s[j].ok
    <3>1. PICK i \in G : f[i] = j
      BY <2>7 DEF Surjection
    <3> QED
      BY <2>2, <3>1
  <2>9. S # {}
    BY <1>1, <2>4
  <2> QED
    BY <1>5, <1>7, <2>8, <2>9
<1> QED
  BY <1>8, <1>9 DEF s, t, G

-------------------------------------------------------------------------------
(* The table of checks. *)

\* A table: every row has an outcome of gold, a worth and a flag, and the rows of
\* a name have one flag.
Table(rows) ==
  /\ IsList(rows)
  /\ \A i \in DOMAIN rows :
       /\ rows[i].gold \in BOOLEAN /\ rows[i].mandatory \in BOOLEAN
       /\ rows[i].pass \in Values /\ rows[i].fail \in Values
  /\ \A i, j \in DOMAIN rows : rows[i].name = rows[j].name => rows[i].mandatory = rows[j].mandatory

\* The verdicts the rows of a table are built from.
Graded(v) == \A p \in Probes : IsList(v[p].checks) /\ \A i \in DOMAIN v[p].checks : Recording(v[p].checks[i])

\* The first instance of a name is one of its instances.
LEMMA FirstInstance ==
  ASSUME NEW s, IsList(s), NEW n \in Recorded(s)
  PROVE  Min(Instances(s, n)) \in DOMAIN s /\ s[Min(Instances(s, n))].name = n
<1>1. Instances(s, n) \subseteq Nat /\ Instances(s, n) # {}
  BY ListDomain DEF Instances, Recorded
<1>2. Min(Instances(s, n)) \in Instances(s, n)
  BY <1>1, MinIsElement
<1> QED
  BY <1>2 DEF Instances

\* The rows are those of gold, and a name's first authored values hold for all of it.
LEMMA RowsAreATable ==
  ASSUME NEW v, Graded(v), NEW y, y.on \in BOOLEAN
  PROVE  /\ Table(Rows(v, y)) /\ Len(Rows(v, y)) = Len(v["gold"].checks)
         /\ DOMAIN Rows(v, y) = DOMAIN v["gold"].checks
         /\ \A i \in DOMAIN Rows(v, y) :
              /\ Rows(v, y)[i].name = v["gold"].checks[i].name
              /\ Rows(v, y)[i]["gold"] = v["gold"].checks[i].ok
              /\ Rows(v, y)[i]["empty"] = Hit(v["empty"], v["gold"].checks, i)
              /\ Rows(v, y)[i]["stub"] = Hit(v["stub"], v["gold"].checks, i)
<1> DEFINE g == v["gold"].checks
           rows == Rows(v, y)
           First1(i) == g[Min(Instances(g, g[i].name))]
           Earns(c) == IF y.on /\ c.pass > 0 THEN IF c.name \in y.positive THEN 1 ELSE 0 ELSE c.pass
           Needed(c) == IF y.on THEN c.name \in y.mandatory ELSE c.mandatory
           row(i) == [name      |-> g[i].name,
                      gold      |-> g[i].ok,
                      empty     |-> Hit(v["empty"], g, i),
                      stub      |-> Hit(v["stub"], g, i),
                      pass      |-> Earns(First1(i)),
                      fail      |-> First1(i).fail,
                      mandatory |-> Needed(First1(i))]
<1>1. rows = [i \in DOMAIN g |-> row(i)]
  BY Zenon DEF Rows
<1>2. IsList(g) /\ DOMAIN g = 1..Len(g) /\ Len(g) \in Nat /\ \A i \in DOMAIN g : Recording(g[i])
  <2>1. IsList(g) /\ \A i \in DOMAIN g : Recording(g[i])
    BY DEF Graded, Probes
  <2> QED
    BY <2>1, ListDomain
<1>3. \A i \in DOMAIN g : First1(i) = g[Min(Instances(g, g[i].name))]
  OBVIOUS
<1> HIDE DEF g, rows, First1
<1>4. ASSUME NEW i \in DOMAIN g PROVE Recording(First1(i))
  <2>1. g[i].name \in Recorded(g)
    BY DEF Recorded
  <2>2. Min(Instances(g, g[i].name)) \in DOMAIN g
    BY <1>2, <2>1, FirstInstance
  <2> QED
    BY <1>2, <1>3, <2>2
<1>5. ASSUME NEW c, Recording(c) PROVE Earns(c) \in Values /\ c.fail \in Values /\ Needed(c) \in BOOLEAN
  <2>1. Earns(c) \in Values
    BY <1>5 DEF Recording, Values
  <2>2. CASE y.on
    <3>1. Needed(c) = (c.name \in y.mandatory)
      BY <2>2, Zenon
    <3>2. Needed(c) \in BOOLEAN
      <4>1. (c.name \in y.mandatory) \in BOOLEAN
        BY SMT
      <4> HIDE DEF Needed
      <4> QED
        BY <3>1, <4>1, Zenon
    <3> QED
      BY <1>5, <2>1, <3>2, Zenon DEF Recording
  <2>3. CASE ~y.on
    <3>1. Needed(c) = c.mandatory
      BY <2>3, Zenon
    <3> QED
      BY <1>5, <2>1, <3>1, Zenon DEF Recording
  <2> QED
    BY <2>2, <2>3
<1> HIDE DEF Earns, Needed
<1>6. ASSUME NEW i \in DOMAIN g
      PROVE  /\ rows[i].name = g[i].name /\ rows[i]["gold"] = g[i].ok
             /\ rows[i]["empty"] = Hit(v["empty"], g, i) /\ rows[i]["stub"] = Hit(v["stub"], g, i)
             /\ rows[i].pass = Earns(First1(i)) /\ rows[i].fail = First1(i).fail
             /\ rows[i].mandatory = Needed(First1(i))
  <2>1. rows[i] = row(i)
    BY <1>1, <1>6
  <2>2. /\ rows[i].name = row(i).name /\ rows[i]["gold"] = row(i)["gold"]
        /\ rows[i]["empty"] = row(i)["empty"] /\ rows[i]["stub"] = row(i)["stub"]
        /\ rows[i].pass = row(i).pass /\ rows[i].fail = row(i).fail
        /\ rows[i].mandatory = row(i).mandatory
    BY <2>1, Zenon
  <2>3. /\ row(i).name = g[i].name /\ row(i)["gold"] = g[i].ok
        /\ row(i).pass = Earns(First1(i)) /\ row(i).fail = First1(i).fail
    OBVIOUS
  <2>4. row(i)["empty"] = Hit(v["empty"], g, i) /\ row(i)["stub"] = Hit(v["stub"], g, i)
    BY Zenon
  <2>5. row(i).mandatory = Needed(First1(i))
    BY Zenon
  <2> HIDE DEF row
  <2> QED
    BY <2>2, <2>3, <2>4, <2>5, Zenon
<1>7. DOMAIN rows = DOMAIN g
  BY <1>1
<1>8. IsList(rows) /\ Len(rows) = Len(g)
  <2> DEFINE T == {rows[i] : i \in DOMAIN g}
  <2>1. rows \in [1..Len(g) -> T]
    <3>1. rows = [i \in DOMAIN g |-> rows[i]]
      BY <1>1
    <3> QED
      BY <1>2, <3>1
  <2> HIDE DEF T
  <2>2. rows \in Seq(T)
    BY <1>2, <2>1
  <2>3. Len(rows) \in Nat /\ DOMAIN rows = 1..Len(rows) /\ rows = [i \in 1..Len(rows) |-> rows[i]]
    BY <2>2
  <2>4. Len(rows) = Len(g)
    BY <1>2, <1>7, <2>3
  <2> QED
    BY <2>3, <2>4 DEF IsList
<1>9. Table(rows)
  <2>1. ASSUME NEW i \in DOMAIN rows
        PROVE  /\ rows[i].gold \in BOOLEAN /\ rows[i].mandatory \in BOOLEAN
               /\ rows[i].pass \in Values /\ rows[i].fail \in Values
    <3>1. Recording(g[i]) /\ Recording(First1(i)) /\ i \in DOMAIN g
      BY <1>2, <1>4, <1>7, <2>1
    <3>2. g[i].ok \in BOOLEAN
      BY <3>1 DEF Recording
    <3>3. rows[i].gold \in BOOLEAN
      BY <1>6, <3>1, <3>2, Zenon
    <3>4. rows[i].mandatory \in BOOLEAN
      BY <1>5, <1>6, <3>1, Zenon
    <3>5. rows[i].pass \in Values /\ rows[i].fail \in Values
      BY <1>5, <1>6, <3>1, Zenon
    <3> QED
      BY <3>3, <3>4, <3>5
  <2>2. ASSUME NEW i \in DOMAIN rows, NEW j \in DOMAIN rows, rows[i].name = rows[j].name
        PROVE  rows[i].mandatory = rows[j].mandatory
    <3>1. g[i].name = g[j].name
      BY <1>6, <1>7, <2>2
    <3>2. First1(i) = First1(j)
      BY <1>3, <1>7, <2>2, <3>1
    <3> QED
      BY <1>6, <1>7, <3>2, Zenon
  <2> QED
    BY <1>8, <2>1, <2>2 DEF Table
<1> QED
  BY <1>6, <1>7, <1>8, <1>9 DEF rows, g

\* The row that stands for a name is one of its rows.
LEMMA RowOfIsARow ==
  ASSUME NEW rows, Table(rows), NEW n \in RowNames(rows)
  PROVE  \E i \in DOMAIN rows : rows[i].name = n /\ RowOf(rows, n) = rows[i]
<1>1. IsList(rows) /\ n \in Recorded(rows)
  BY DEF Table, RowNames, Recorded
<1> QED
  BY <1>1, FirstInstance DEF RowOf

\* A finite table has a finite set of names.
LEMMA NamesAreFinite ==
  ASSUME NEW rows, Table(rows)
  PROVE  IsFiniteSet(RowNames(rows))
<1> DEFINE f == [i \in DOMAIN rows |-> rows[i].name]
<1>1. IsFiniteSet(DOMAIN rows)
  BY ListDomain DEF Table
<1>2. f \in Surjection(DOMAIN rows, RowNames(rows))
  BY DEF Surjection, RowNames
<1> QED
  BY <1>1, <1>2, FS_Surjection

\* What gold earns and what a probe does are integers, and there is nothing to
\* earn without rows.
LEMMA EarningsAreIntegers ==
  ASSUME NEW rows, Table(rows), NEW p
  PROVE  Ceiling(rows) \in Int /\ RawRows(rows, p) \in Int /\ (RowNames(rows) = {} => Ceiling(rows) = 0)
<1> DEFINE N == RowNames(rows)
<1>1. IsFiniteSet(N)
  BY NamesAreFinite
<1>2. ASSUME NEW n \in N PROVE RowOf(rows, n).pass \in Int /\ RowOf(rows, n).fail \in Int
  <2>1. PICK i \in DOMAIN rows : RowOf(rows, n) = rows[i]
    BY RowOfIsARow
  <2> QED
    BY <2>1 DEF Table, Values
<1> HIDE DEF N
<1>3. [n \in N |-> IF RowHeld(rows, n, "gold") THEN Max({0, RowOf(rows, n).pass}) ELSE 0] \in [N -> Int]
  <2>1. \A x \in Int : Max({0, x}) \in Int
    <3> SUFFICES ASSUME NEW x \in Int PROVE Max({0, x}) \in Int
      OBVIOUS
    <3>1. 0 \in Int
      OBVIOUS
    <3>2. Max({0, x}) \in {0, x}
      BY <3>1, LargerOfTwo, Zenon
    <3> QED
      BY <3>1, <3>2, Zenon
  <2>2. \A n \in N : Max({0, RowOf(rows, n).pass}) \in Int
    BY <1>2, <2>1, Zenon
  <2> QED
    BY <2>2
<1>4. [n \in N |-> IF RowHeld(rows, n, p) THEN RowOf(rows, n).pass ELSE RowOf(rows, n).fail] \in [N -> Int]
  BY <1>2
<1> QED
  BY <1>1, <1>3, <1>4, SumIsInteger DEF Ceiling, RawRows, N

\* A score that validate writes is in percent, or none.
LEMMA FixedScoreInPercent ==
  ASSUME NEW rows, Table(rows), NEW p
  PROVE  /\ FixedScore(rows, p) \in -1..100
         /\ FixedScore(rows, p) >= 0 => Ceiling(rows) > 0
<1> DEFINE raw == RawRows(rows, p)
           ceiling == Ceiling(rows)
           some    == \E n \in RowNames(rows) : RowHeld(rows, n, "gold") /\ RowOf(rows, n).mandatory
           needed(n) == IF some THEN RowOf(rows, n).mandatory ELSE RowHeld(rows, n, "gold")
           missed == \E n \in RowNames(rows) : needed(n) /\ ~RowHeld(rows, n, p)
           share == (100 * Clamp(raw, 0, ceiling)) \div ceiling
<1>1. raw \in Int /\ ceiling \in Int
  BY EarningsAreIntegers
<1>2. FixedScore(rows, p) = CASE ceiling <= 0 -> -1
                              [] ceiling > 0 /\ missed -> 0
                              [] OTHER -> share
  BY Zenon DEF FixedScore
<1> HIDE DEF raw, ceiling, missed
<1>3. CASE ceiling <= 0
  <2>1. ~(ceiling > 0)
    BY <1>1, <1>3
  <2>2. FixedScore(rows, p) = -1
    BY <1>2, <1>3, <2>1, Zenon
  <2> QED
    BY <2>2
<1>4. CASE ceiling > 0
  <2>1. ~(ceiling <= 0)
    BY <1>1, <1>4
  <2>2. share \in 0..100
    BY <1>1, <1>4, ShareOfGold
  <2> HIDE DEF share
  <2>3. FixedScore(rows, p) = 0 \/ FixedScore(rows, p) = share
    BY <1>2, <1>4, <2>1, Zenon
  <2> QED
    BY <1>4, <2>2, <2>3 DEF ceiling
<1> QED
  BY <1>1, <1>3, <1>4

-------------------------------------------------------------------------------
(* One score, written and read back. *)

\* Gold holds all of its checks.
Perfect(rows) == \A n \in RowNames(rows) : RowHeld(rows, n, "gold")

\* The names without which fixed_score gives nothing.
Needed(rows) ==
  {n \in RowNames(rows) :
     IF \E m \in RowNames(rows) : RowHeld(rows, m, "gold") /\ RowOf(rows, m).mandatory
     THEN RowOf(rows, n).mandatory ELSE RowHeld(rows, n, "gold")}

\* The contract that is written requires the names that fixed_score needs.
LEMMA ContractIsNeeded ==
  ASSUME NEW rows, Table(rows), Perfect(rows)
  PROVE  Completion(rows).required = Needed(rows) /\ Needed(rows) \subseteq RowNames(rows)
<1>1. AllGold(rows) = RowNames(rows)
  <2>1. \A i \in DOMAIN rows : rows[i].gold
    BY Zenon DEF Perfect, RowHeld, RowNames, Instances
  <2> QED
    BY <2>1 DEF AllGold, RowNames
<1>2. \A i \in DOMAIN rows : rows[i].gold
  BY Zenon DEF Perfect, RowHeld, RowNames, Instances
<1>3. AuthoredMandatory(rows) = {n \in RowNames(rows) : RowOf(rows, n).mandatory}
  <2>1. ASSUME NEW i \in DOMAIN rows
        PROVE  rows[i].name \in RowNames(rows) /\ RowOf(rows, rows[i].name).mandatory = rows[i].mandatory
    <3>1. rows[i].name \in RowNames(rows)
      BY DEF RowNames
    <3>2. PICK j \in DOMAIN rows : rows[j].name = rows[i].name /\ RowOf(rows, rows[i].name) = rows[j]
      BY <3>1, RowOfIsARow
    <3>3. rows[j].mandatory = rows[i].mandatory
      BY <3>2 DEF Table
    <3> QED
      BY <3>1, <3>2, <3>3
  <2>2. \A n \in RowNames(rows) : \E i \in DOMAIN rows : n = rows[i].name
    BY DEF RowNames
  <2>3. ASSUME NEW n \in AuthoredMandatory(rows) PROVE n \in RowNames(rows) /\ RowOf(rows, n).mandatory
    <3>1. PICK i \in DOMAIN rows : rows[i].gold /\ rows[i].mandatory /\ n = rows[i].name
      BY DEF AuthoredMandatory
    <3> QED
      BY <2>1, <3>1, Zenon
  <2>4. ASSUME NEW n \in RowNames(rows), RowOf(rows, n).mandatory PROVE n \in AuthoredMandatory(rows)
    <3>1. PICK i \in DOMAIN rows : n = rows[i].name
      BY <2>2
    <3>2. rows[i].gold /\ rows[i].mandatory
      BY <1>2, <2>1, <2>4, <3>1, Zenon
    <3> QED
      BY <3>1, <3>2 DEF AuthoredMandatory
  <2> QED
    BY <2>3, <2>4
<1>4. ASSUME AuthoredMandatory(rows) # {} PROVE Completion(rows).required = Needed(rows)
  <2>1. \E m \in RowNames(rows) : RowHeld(rows, m, "gold") /\ RowOf(rows, m).mandatory
    BY <1>3, <1>4, Zenon DEF Perfect
  <2>2. Needed(rows) = AuthoredMandatory(rows)
    BY <1>3, <2>1 DEF Needed
  <2> QED
    BY <1>4, <2>2 DEF Completion
<1>5. ASSUME AuthoredMandatory(rows) = {} PROVE Completion(rows).required = Needed(rows)
  <2>1. ~\E m \in RowNames(rows) : RowHeld(rows, m, "gold") /\ RowOf(rows, m).mandatory
    BY <1>3, <1>5
  <2>2. Needed(rows) = RowNames(rows)
    BY <2>1 DEF Needed, Perfect
  <2> QED
    BY <1>1, <1>5, <2>2 DEF Completion
<1> QED
  BY <1>4, <1>5 DEF Needed

\* What the scorer reads back of a table that was written.
LEMMA ManifestOfTable ==
  ASSUME NEW rows, Table(rows), Perfect(rows), NEW s, s.rows = rows,
         s.required = Completion(rows).required
  PROVE  /\ DOMAIN Manifest(s) = RowNames(rows)
         /\ \A n \in RowNames(rows) : Manifest(s)[n].ok
         /\ MaxScore(Manifest(s)) = Ceiling(rows)
         /\ Required(Manifest(s)) = Needed(rows)
         /\ \A c, p : (\A n \in RowNames(rows) : Held(c, n) <=> RowHeld(rows, n, p))
                      => RawScore(c, Manifest(s)) = RawRows(rows, p)
<1> DEFINE N == RowNames(rows)
           M == Manifest(s)
<1>1. M = [n \in N |->
             [ok |-> RowHeld(rows, n, "gold"), pass |-> RowOf(rows, n).pass,
              fail |-> RowOf(rows, n).fail, mandatory |-> n \in s.required]]
  BY Zenon DEF Manifest
<1>2. DOMAIN M = N
  BY <1>1
<1>3. ASSUME NEW n \in N
      PROVE  /\ M[n].ok = RowHeld(rows, n, "gold") /\ M[n].pass = RowOf(rows, n).pass
             /\ M[n].fail = RowOf(rows, n).fail /\ M[n].mandatory = (n \in s.required)
             /\ RowHeld(rows, n, "gold")
  <2> DEFINE r == [ok |-> RowHeld(rows, n, "gold"), pass |-> RowOf(rows, n).pass,
                   fail |-> RowOf(rows, n).fail, mandatory |-> n \in s.required]
  <2>1. M[n] = r
    BY <1>1, <1>3
  <2>2. RowHeld(rows, n, "gold")
    BY <1>3 DEF Perfect
  <2>3. /\ r.ok = RowHeld(rows, n, "gold") /\ r.pass = RowOf(rows, n).pass
        /\ r.fail = RowOf(rows, n).fail /\ r.mandatory = (n \in s.required)
    BY Zenon
  <2> HIDE DEF M, r
  <2> QED
    BY <2>1, <2>2, <2>3, Zenon
<1> HIDE DEF M, N
<1>4. \A n \in N : M[n].ok
  BY <1>3, Zenon
<1>5. MaxScore(M) = Ceiling(rows)
  <2>1. ASSUME NEW n \in N
        PROVE  Max({0, Value(M[n], M[n].ok)}) =
                 IF RowHeld(rows, n, "gold") THEN Max({0, RowOf(rows, n).pass}) ELSE 0
    <3>1. Value(M[n], M[n].ok) = RowOf(rows, n).pass
      BY <1>3, <1>4, <2>1, Zenon DEF Value
    <3> QED
      BY <1>3, <2>1, <3>1, Zenon
  <2>2. [n \in DOMAIN M |-> Max({0, Value(M[n], M[n].ok)})] =
        [n \in N |-> IF RowHeld(rows, n, "gold") THEN Max({0, RowOf(rows, n).pass}) ELSE 0]
    BY <1>2, <2>1, Zenon
  <2> QED
    BY <2>2, Zenon DEF MaxScore, Ceiling, N
<1>6. Required(M) = Needed(rows)
  <2>1. s.required = Needed(rows) /\ Needed(rows) \subseteq N
    BY ContractIsNeeded DEF N
  <2>2. \A n \in N : M[n].mandatory <=> n \in s.required
    BY <1>3, Zenon
  <2> QED
    BY <1>2, <2>1, <2>2 DEF Required
<1>7. ASSUME NEW c, NEW p, \A n \in N : Held(c, n) <=> RowHeld(rows, n, p)
      PROVE  RawScore(c, M) = RawRows(rows, p)
  <2>1. ASSUME NEW n \in N
        PROVE  Value(M[n], Held(c, n)) =
                 IF RowHeld(rows, n, p) THEN RowOf(rows, n).pass ELSE RowOf(rows, n).fail
    <3>1. Held(c, n) <=> RowHeld(rows, n, p)
      BY <1>7, <2>1
    <3>2. M[n].pass = RowOf(rows, n).pass /\ M[n].fail = RowOf(rows, n).fail
      BY <1>3, <2>1
    <3>3. CASE Held(c, n)
      BY <3>1, <3>2, <3>3, Zenon DEF Value
    <3>4. CASE ~Held(c, n)
      BY <3>1, <3>2, <3>4, Zenon DEF Value
    <3> QED
      BY <3>3, <3>4
  <2>2. [n \in DOMAIN M |-> Value(M[n], Held(c, n))] =
        [n \in N |-> IF RowHeld(rows, n, p) THEN RowOf(rows, n).pass ELSE RowOf(rows, n).fail]
    BY <1>2, <2>1, Zenon
  <2> QED
    BY <2>2, Zenon DEF RawScore, RawRows, N
<1> QED
  BY <1>2, <1>4, <1>5, <1>6, <1>7 DEF M, N

\* The score that validate writes for a probe is the score the scorer gives it.
LEMMA WrittenIsScored ==
  ASSUME NEW rows, Table(rows), Perfect(rows), NEW s, s.rows = rows,
         s.required = Completion(rows).required,
         s.required # {}, Ceiling(rows) > 0,
         NEW p, NEW c, \A n \in RowNames(rows) : Held(c, n) <=> RowHeld(rows, n, p),
         \A n \in Recorded(c) \ s.required : Worst(c, n).mandatory => Worst(c, n).ok
  PROVE  FixedScore(rows, p) = TaskScore(c, Manifest(s), FALSE)
<1> DEFINE M == Manifest(s)
           raw == RawRows(rows, p)
           ceiling == Ceiling(rows)
           missed == \E n \in Needed(rows) : ~RowHeld(rows, n, p)
           share == (100 * Clamp(raw, 0, ceiling)) \div ceiling
<1>1. /\ MaxScore(M) = ceiling /\ Required(M) = Needed(rows) /\ RawScore(c, M) = raw
      /\ s.required = Needed(rows) /\ Needed(rows) \subseteq RowNames(rows)
  BY ManifestOfTable, ContractIsNeeded
<1>2. ~(ceiling <= 0)
  BY EarningsAreIntegers
<1>3. FixedScore(rows, p) = IF missed THEN 0 ELSE share
  <2> DEFINE some == \E n \in RowNames(rows) : RowHeld(rows, n, "gold") /\ RowOf(rows, n).mandatory
             needed(n) == IF some THEN RowOf(rows, n).mandatory ELSE RowHeld(rows, n, "gold")
             lost == \E n \in RowNames(rows) : needed(n) /\ ~RowHeld(rows, n, p)
  <2>1. FixedScore(rows, p) = CASE ceiling <= 0 -> -1
                                [] ceiling > 0 /\ lost -> 0
                                [] OTHER -> share
    BY Zenon DEF FixedScore
  <2>2. lost <=> missed
    BY Zenon DEF Needed
  <2> HIDE DEF lost, missed, share, ceiling
  <2>3. CASE missed
    <3>1. FixedScore(rows, p) = 0
      BY <1>2, <2>1, <2>2, <2>3, Zenon DEF ceiling
    <3> QED
      BY <2>3, <3>1
  <2>4. CASE ~missed
    <3>1. FixedScore(rows, p) = share
      BY <1>2, <2>1, <2>2, <2>4, Zenon
    <3> QED
      BY <2>4, <3>1
  <2> QED
    BY <2>3, <2>4
<1>4. Solved(c, M, FALSE) <=> ~missed
  <2>1. ASSUME ~missed PROVE \A n \in Recorded(c) : Worst(c, n).mandatory => Worst(c, n).ok
    <3> SUFFICES ASSUME NEW n \in Recorded(c), Worst(c, n).mandatory PROVE Worst(c, n).ok
      OBVIOUS
    <3>1. CASE n \in s.required
      <4>1. Held(c, n)
        BY <1>1, <2>1, <3>1
      <4> QED
        BY <4>1 DEF Held
    <3>2. CASE n \notin s.required
      BY <3>2
    <3> QED
      BY <3>1, <3>2
  <2>2. missed <=> \E n \in Required(M) : ~Held(c, n)
    BY <1>1
  <2>3. Required(M) # {}
    BY <1>1
  <2> HIDE DEF missed, M
  <2> QED
    BY <2>1, <2>2, <2>3, Zenon DEF Solved
<1>5. TaskScore(c, M, FALSE) = IF missed THEN 0 ELSE share
  <2>1. Required(M) # {} /\ (100 * Clamp(RawScore(c, M), 0, MaxScore(M))) \div MaxScore(M) = share
    BY <1>1
  <2> HIDE DEF missed, share, M
  <2> QED
    BY <1>4, <2>1, Zenon DEF TaskScore
<1> QED
  BY <1>3, <1>5

-------------------------------------------------------------------------------
(* The sidecar of a table. *)

\* What the sidecar of a table says.
LEMMA PayloadOfTable ==
  ASSUME NEW rows, Table(rows), NEW stubbed \in BOOLEAN
  PROVE  LET s == Payload(rows, stubbed)
         IN  /\ s.present /\ s.rows = rows
             /\ s.mode = Completion(rows).mode /\ s.required = Completion(rows).required
             /\ \A k \in 1..3 : s.scores[k] \in -1..100
             /\ s.scores[1] = FixedScore(rows, "empty")
             /\ stubbed => s.scores[2] = FixedScore(rows, "stub")
<1> DEFINE empty == FixedScore(rows, "empty")
           stub == IF stubbed THEN FixedScore(rows, "stub") ELSE -1
           s == Payload(rows, stubbed)
<1>1. empty \in -1..100 /\ stub \in -1..100
  BY FixedScoreInPercent
<1>2. s = [present |-> TRUE, rows |-> rows,
           mode |-> Completion(rows).mode, required |-> Completion(rows).required,
           scores |-> <<empty, stub, Max({empty, stub})>>]
  BY Zenon DEF Payload
<1>3. stubbed => stub = FixedScore(rows, "stub")
  OBVIOUS
<1>4. empty = FixedScore(rows, "empty")
  OBVIOUS
<1> HIDE DEF empty, stub
<1>5. Max({empty, stub}) \in -1..100
  <2>1. empty \in Int /\ stub \in Int
    BY <1>1
  <2>2. Max({empty, stub}) \in {empty, stub}
    BY <2>1, LargerOfTwo, Zenon
  <2> QED
    BY <1>1, <2>2, Zenon
<1> DEFINE max == Max({empty, stub})
<1> HIDE DEF s, max
<1>6. s.scores = <<empty, stub, max>> /\ s.present /\ s.rows = rows
      /\ s.mode = Completion(rows).mode /\ s.required = Completion(rows).required
  BY <1>2 DEF max
<1>7. max \in -1..100
  BY <1>5 DEF max
<1>8. s.scores[1] = empty /\ s.scores[2] = stub /\ s.scores[3] = max
  BY <1>6
<1>9. \A k \in 1..3 : k = 1 \/ k = 2 \/ k = 3
  OBVIOUS
<1>10. \A k \in 1..3 : s.scores[k] \in -1..100
  BY <1>1, <1>7, <1>8, <1>9
<1> QED
  BY <1>3, <1>4, <1>6, <1>8, <1>10 DEF s

\* A probe that holds fewer rows than gold misses one that gold holds.
LEMMA FewerRowsMissOne ==
  ASSUME NEW rows, Table(rows), NEW p
  PROVE  /\ HeldRows(rows, p) \in Nat
         /\ HeldRows(rows, p) < HeldRows(rows, "gold")
              => \E i \in DOMAIN rows : rows[i]["gold"] /\ ~rows[i][p]
         /\ HeldRows(rows, "gold") = Len(rows) => \A i \in DOMAIN rows : rows[i]["gold"]
<1> DEFINE P == {i \in DOMAIN rows : rows[i][p]}
           G == {i \in DOMAIN rows : rows[i]["gold"]}
<1>1. /\ DOMAIN rows = 1..Len(rows) /\ Len(rows) \in Nat /\ IsFiniteSet(DOMAIN rows)
      /\ IsFiniteSet(P) /\ Cardinality(P) \in Nat
      /\ IsFiniteSet(G) /\ Cardinality(G) \in Nat
  BY ListDomain DEF Table
<1>2. HeldRows(rows, p) = Cardinality(P) /\ HeldRows(rows, "gold") = Cardinality(G)
  BY DEF HeldRows
<1>3. ASSUME G \subseteq P PROVE Cardinality(G) <= Cardinality(P)
  BY <1>1, <1>3, FS_Subset
<1>4. G \subseteq P \/ \E i \in DOMAIN rows : rows[i]["gold"] /\ ~rows[i][p]
  OBVIOUS
<1>5. ASSUME Cardinality(G) = Len(rows) PROVE G = DOMAIN rows
  <2>1. Cardinality(DOMAIN rows) = Len(rows)
    <3>1. \A n \in Nat : Cardinality(1..n) = n
      BY FS_Interval
    <3> QED
      BY <1>1, <3>1, Zenon
  <2>2. G \in SUBSET (DOMAIN rows)
    OBVIOUS
  <2> HIDE DEF G
  <2> QED
    BY <1>1, <1>5, <2>1, <2>2, FS_Subset
<1>6. G = DOMAIN rows => \A i \in DOMAIN rows : rows[i]["gold"]
  OBVIOUS
<1> HIDE DEF P, G
<1>7. Cardinality(P) < Cardinality(G) => ~(Cardinality(G) <= Cardinality(P))
  BY <1>1
<1> QED
  BY <1>1, <1>2, <1>3, <1>4, <1>5, <1>6, <1>7

-------------------------------------------------------------------------------
(* The invariant of a validation. *)

\* The verdicts kept of a probe are verdicts of its grades.
EvidenceOK ==
  /\ evidence = [p \in Probes |-> evidence[p]]
  /\ \A p \in Probes : evidence[p] \in Seq(Outcomes[p]) /\ Len(evidence[p]) <= Runs

\* The probes are graded one after the other, each as often as asked; the stub
\* only where there is one.
Gathered ==
  /\ probe = "gold" => /\ Len(evidence["gold"]) < Runs
                       /\ evidence["empty"] = <<>> /\ evidence["stub"] = <<>>
  /\ probe = "empty" => /\ Len(evidence["gold"]) = Runs /\ Len(evidence["empty"]) < Runs
                        /\ evidence["stub"] = <<>>
  /\ probe \in {"stub", "none"} =>
       Len(evidence["gold"]) = Runs /\ Len(evidence["empty"]) = Runs
  /\ probe = "stub" => options.stubbed /\ Len(evidence["stub"]) < Runs
  /\ probe = "none" => IF options.stubbed THEN Len(evidence["stub"]) = Runs
                                          ELSE evidence["stub"] = <<>>

\* A baseline that was written is the table of the first verdicts.
WrittenIsPayload ==
  report.written =>
    /\ stage = "reported" /\ probe = "none"
    /\ sidecar = Payload(Rows(First, options.policy), options.stubbed)

GauntletInv ==
  /\ GauntletTypeOK
  /\ stage = "probing" => attempt < MaxAttempts
  /\ EvidenceOK
  /\ Gathered
  /\ WrittenIsPayload

\* The first verdicts, and the table made of them.
LEMMA FirstVerdicts ==
  ASSUME EvidenceOK, options \in OptionType
  PROVE  /\ Graded(First) /\ options.policy.on \in BOOLEAN /\ options.stubbed \in BOOLEAN
         /\ Table(Rows(First, options.policy))
         /\ \A p \in Probes : evidence[p] # <<>> => First[p] = evidence[p][1] /\ 1 \in DOMAIN evidence[p]
         /\ \A p \in Probes : evidence[p] = <<>> => First[p].checks = <<>>
<1>1. ASSUME NEW p \in Probes, evidence[p] # <<>>
      PROVE  /\ First[p] = evidence[p][1] /\ 1 \in DOMAIN evidence[p]
             /\ CandidateVerdict(First[p])
  <2>1. First[p] = evidence[p][1]
    BY <1>1 DEF First
  <2>2. evidence[p] \in Seq(Outcomes[p])
    BY <1>1 DEF EvidenceOK
  <2>3. 1 \in DOMAIN evidence[p] /\ evidence[p][1] \in Outcomes[p]
    BY <1>1, <2>2
  <2>4. CandidateVerdict(evidence[p][1])
    BY <1>1, <2>3, GauntletAssumption
  <2> QED
    BY <2>1, <2>3, <2>4
<1>2. ASSUME NEW p \in Probes, evidence[p] = <<>> PROVE First[p].checks = <<>>
  <2>1. First[p] = [failed |-> FALSE, checks |-> <<>>]
    BY <1>2, Zenon DEF First
  <2> QED
    BY <2>1
<1>3. IsList(<<>>) /\ DOMAIN <<>> = {}
  BY DEF IsList
<1>4. ASSUME NEW p \in Probes
      PROVE  IsList(First[p].checks) /\ \A i \in DOMAIN First[p].checks : Recording(First[p].checks[i])
  <2>1. CASE evidence[p] = <<>>
    <3>1. First[p].checks = <<>>
      BY <1>2, <1>4, <2>1
    <3> QED
      BY <1>3, <3>1
  <2>2. CASE evidence[p] # <<>>
    <3>1. CandidateVerdict(First[p])
      BY <1>1, <1>4, <2>2
    <3> QED
      BY <3>1 DEF CandidateVerdict, IsList
  <2> QED
    BY <2>1, <2>2
<1>5. Graded(First)
  BY <1>4 DEF Graded
<1>6. options.policy \in Policies /\ options.stubbed \in BOOLEAN
  BY DEF OptionType
<1>7. options.policy.on \in BOOLEAN
  BY <1>6, GauntletAssumption
<1>8. Table(Rows(First, options.policy))
  BY <1>5, <1>7, RowsAreATable
<1> QED
  BY <1>1, <1>2, <1>5, <1>6, <1>7, <1>8

\* A list with one more element.
LEMMA OneLonger ==
  ASSUME NEW T, NEW s \in Seq(T), NEW x \in T
  PROVE  Append(s, x) \in Seq(T) /\ Len(s) \in Nat /\ Len(Append(s, x)) = Len(s) + 1
OBVIOUS

\* What one more verdict does to what was gathered.
LEMMA OneMoreVerdict ==
  ASSUME EvidenceOK, NEW p \in Probes, NEW v \in Outcomes[p], Len(evidence[p]) < Runs,
         evidence' = [evidence EXCEPT ![p] = Append(@, v)]
  PROVE  /\ EvidenceOK' /\ Len(evidence'[p]) = Len(evidence[p]) + 1 /\ Len(evidence[p]) \in Nat
         /\ \A q \in Probes \ {p} : evidence'[q] = evidence[q]
         /\ \A q \in Probes : Len(evidence'[q]) \in 0..Runs
<1>1. evidence[p] \in Seq(Outcomes[p]) /\ Runs \in Nat
  BY GauntletAssumption DEF EvidenceOK
<1>2. evidence'[p] = Append(evidence[p], v) /\ \A q \in Probes \ {p} : evidence'[q] = evidence[q]
  BY DEF EvidenceOK
<1>3. evidence' = [q \in Probes |-> evidence'[q]]
  BY DEF EvidenceOK
<1>4. /\ Append(evidence[p], v) \in Seq(Outcomes[p]) /\ Len(evidence[p]) \in Nat
      /\ Len(Append(evidence[p], v)) = Len(evidence[p]) + 1
  BY <1>1, OneLonger, Zenon
<1>5. evidence'[p] \in Seq(Outcomes[p]) /\ Len(evidence'[p]) <= Runs
  BY <1>1, <1>2, <1>4
<1>6. \A q \in Probes : evidence'[q] \in Seq(Outcomes[q]) /\ Len(evidence'[q]) <= Runs
  BY <1>2, <1>5, Zenon DEF EvidenceOK
<1>7. EvidenceOK'
  BY <1>3, <1>6, Zenon DEF EvidenceOK
<1>8. ASSUME NEW q \in Probes PROVE Len(evidence'[q]) \in 0..Runs
  <2>1. evidence'[q] \in Seq(Outcomes[q]) /\ Len(evidence'[q]) <= Runs
    BY <1>6, <1>8
  <2>2. Len(evidence'[q]) \in Nat
    BY <2>1
  <2> QED
    BY <1>1, <2>1, <2>2
<1> QED
  BY <1>2, <1>4, <1>7, <1>8

\* Every validation begins in the invariant.
LEMMA InitGauntletInv == GauntletInit => GauntletInv
<1> SUFFICES ASSUME GauntletInit PROVE GauntletInv
  OBVIOUS
<1>1. /\ Runs \in Nat \ {0} /\ MaxAttempts \in Nat \ {0} /\ MaxRounds \in Nat \ {0}
      /\ \A s \in InitialSidecars : s.present => \A k \in 1..3 : s.scores[k] \in -1..100
  BY GauntletAssumption
<1>2. evidence = [p \in Probes |-> <<>>] /\ \A p \in Probes : evidence[p] = <<>>
  BY DEF GauntletInit, NoEvidence
<1>3. /\ "gold" \in Probes /\ "empty" \in Probes /\ "stub" \in Probes
      /\ \A p \in Probes : Len(evidence[p]) = 0
  BY <1>2 DEF Probes
<1>4. \A p \in Probes : <<>> \in Seq(Outcomes[p])
  OBVIOUS
<1>5. EvidenceOK
  <2>1. \A p \in Probes : evidence[p] \in Seq(Outcomes[p])
    BY <1>2, <1>4, Zenon
  <2>2. \A p \in Probes : Len(evidence[p]) <= Runs
    BY <1>1, <1>3
  <2> QED
    BY <1>2, <2>1, <2>2, Zenon DEF EvidenceOK
<1>6. Gathered
  BY <1>1, <1>2, <1>3 DEF Gathered, GauntletInit
<1>7. WrittenIsPayload
  <2>1. ~report.written
    BY DEF GauntletInit, NoReport
  <2> QED
    BY <2>1 DEF WrittenIsPayload
<1>8. GauntletTypeOK
  <2>1. report \in [goldGreen : BOOLEAN, emptyRed : BOOLEAN, stable : BOOLEAN,
                    floorBelow : BOOLEAN, strict : BOOLEAN, written : BOOLEAN, drift : BOOLEAN]
    BY DEF GauntletInit, NoReport
  <2>2. \A p \in Probes : Len(evidence[p]) \in 0..Runs
    BY <1>1, <1>3
  <2>3. sidecar.present => \A k \in 1..3 : sidecar.scores[k] \in -1..100
    BY <1>1 DEF GauntletInit
  <2>4. /\ stage \in {"probing", "reported", "aborted", "refused"}
        /\ probe \in Probes \union {"none"} /\ attempt \in 0..MaxAttempts
        /\ rounds \in 1..MaxRounds /\ faulted \in BOOLEAN /\ options \in OptionType
    <3>1. attempt \in 0..MaxAttempts /\ rounds \in 1..MaxRounds
      BY <1>1 DEF GauntletInit
    <3>2. stage = "probing" /\ probe = "gold" /\ faulted = FALSE /\ options \in OptionType
      BY DEF GauntletInit
    <3> QED
      BY <1>3, <3>1, <3>2
  <2> QED
    BY <2>1, <2>2, <2>3, <2>4, Zenon DEF GauntletTypeOK
<1>9. stage = "probing" => attempt < MaxAttempts
  BY <1>1 DEF GauntletInit
<1> QED
  BY <1>5, <1>6, <1>7, <1>8, <1>9 DEF GauntletInv

\* A grade that counts.
LEMMA GradeCountsInv ==
  ASSUME GauntletInv, GradeCounts
  PROVE  GauntletInv'
<1>1. /\ stage = "probing" /\ probe # "none" /\ attempt' = 0
      /\ probe' = IF Len(evidence[probe]) + 1 < Runs THEN probe ELSE NextProbe(probe)
      /\ UNCHANGED <<sidecar, options, stage, report, faulted, rounds>>
  BY DEF GradeCounts
<1>2. PICK v \in Outcomes[probe] : evidence' = [evidence EXCEPT ![probe] = Append(@, v)]
  BY DEF GradeCounts
<1>3. /\ probe \in Probes /\ EvidenceOK /\ Gathered /\ GauntletTypeOK /\ WrittenIsPayload
      /\ Runs \in Nat \ {0} /\ MaxAttempts \in Nat \ {0}
  BY <1>1, GauntletAssumption DEF GauntletInv, GauntletTypeOK
<1>4. \A p : p \in Probes <=> p = "gold" \/ p = "empty" \/ p = "stub"
  BY DEF Probes
<1>5. Len(evidence[probe]) < Runs
  BY <1>3, <1>4 DEF Gathered
<1>6. /\ EvidenceOK' /\ Len(evidence'[probe]) = Len(evidence[probe]) + 1
      /\ Len(evidence[probe]) \in Nat
      /\ \A q \in Probes \ {probe} : evidence'[q] = evidence[q]
      /\ \A q \in Probes : Len(evidence'[q]) \in 0..Runs
  BY <1>2, <1>3, <1>5, OneMoreVerdict
<1>7. NextProbe(probe) = IF probe = "gold" THEN "empty"
                         ELSE IF probe = "empty" /\ options.stubbed THEN "stub" ELSE "none"
  BY Zenon DEF NextProbe
<1>8. Len(<<>>) = 0
  OBVIOUS
<1>9. Gathered'
  <2>1. CASE Len(evidence[probe]) + 1 < Runs
    <3>1. probe' = probe /\ Len(evidence'[probe]) < Runs
      BY <1>1, <1>6, <2>1
    <3> QED
      BY <1>1, <1>3, <1>4, <1>6, <3>1 DEF Gathered
  <2>2. CASE ~(Len(evidence[probe]) + 1 < Runs)
    <3>1. Len(evidence'[probe]) = Runs /\ probe' = NextProbe(probe)
      BY <1>1, <1>3, <1>5, <1>6, <2>2
    <3>2. CASE probe = "gold"
      BY <1>1, <1>3, <1>4, <1>6, <1>7, <1>8, <3>1, <3>2 DEF Gathered
    <3>3. CASE probe = "empty"
      <4>1. CASE options.stubbed
        BY <1>1, <1>3, <1>4, <1>6, <1>7, <1>8, <3>1, <3>3, <4>1 DEF Gathered
      <4>2. CASE ~options.stubbed
        BY <1>1, <1>3, <1>4, <1>6, <1>7, <1>8, <3>1, <3>3, <4>2 DEF Gathered
      <4> QED
        BY <4>1, <4>2
    <3>4. CASE probe = "stub"
      BY <1>1, <1>3, <1>4, <1>6, <1>7, <1>8, <3>1, <3>4 DEF Gathered
    <3> QED
      BY <1>3, <1>4, <3>2, <3>3, <3>4
  <2> QED
    BY <2>1, <2>2
<1>10. GauntletTypeOK'
  <2>1. probe' \in Probes \union {"none"}
    BY <1>1, <1>3, <1>4, <1>7
  <2>2. attempt' \in 0..MaxAttempts
    BY <1>1, <1>3
  <2> QED
    BY <1>1, <1>3, <1>6, <2>1, <2>2, Zenon DEF GauntletTypeOK
<1>11. attempt' < MaxAttempts
  BY <1>1, <1>3
<1>12. WrittenIsPayload'
  <2>1. ~report'.written
    BY <1>1, <1>3 DEF WrittenIsPayload
  <2> QED
    BY <2>1 DEF WrittenIsPayload
<1> QED
  BY <1>6, <1>9, <1>10, <1>11, <1>12 DEF GauntletInv

\* A step that keeps the verdicts and the probe.
LEMMA VerdictsUnchanged ==
  ASSUME GauntletInv, UNCHANGED <<evidence, probe, options>>
  PROVE  EvidenceOK' /\ Gathered'
BY DEF GauntletInv, EvidenceOK, Gathered

\* A grade that fails.
LEMMA GradeFailsInv ==
  ASSUME GauntletInv, GradeFails
  PROVE  GauntletInv'
<1>1. /\ stage = "probing" /\ attempt' = attempt + 1
      /\ stage' = IF attempt' = MaxAttempts THEN "aborted" ELSE "probing"
      /\ UNCHANGED <<sidecar, options, probe, evidence, report, rounds>>
  BY DEF GradeFails
<1>2. /\ GauntletTypeOK /\ WrittenIsPayload /\ attempt \in 0..MaxAttempts /\ attempt < MaxAttempts
      /\ MaxAttempts \in Nat /\ faulted \in BOOLEAN
  BY <1>1, GauntletAssumption DEF GauntletInv, GauntletTypeOK
<1>3. faulted' \in BOOLEAN
  <2>1. faulted' \in (IF Usable(sidecar) THEN {TRUE} ELSE {faulted, TRUE})
    BY DEF GradeFails
  <2>2. faulted' = TRUE \/ faulted' = faulted
    BY <2>1, Zenon
  <2> QED
    BY <1>2, <2>2, Zenon
<1>4. attempt' \in 0..MaxAttempts /\ (stage' = "probing" => attempt' < MaxAttempts)
  BY <1>1, <1>2
<1>5. stage' \in {"probing", "reported", "aborted", "refused"}
  BY <1>1
<1>6. GauntletTypeOK'
  BY <1>1, <1>2, <1>3, <1>4, <1>5, Zenon DEF GauntletTypeOK
<1>7. WrittenIsPayload'
  <2>1. ~report'.written
    BY <1>1, <1>2 DEF WrittenIsPayload
  <2> QED
    BY <2>1 DEF WrittenIsPayload
<1> QED
  BY <1>1, <1>4, <1>6, <1>7, VerdictsUnchanged DEF GauntletInv

\* A policy that is refused.
LEMMA PolicyRefusedInv ==
  ASSUME GauntletInv, PolicyRefused
  PROVE  GauntletInv'
<1>1. /\ stage = "probing" /\ stage' = "refused"
      /\ UNCHANGED <<sidecar, options, probe, attempt, evidence, report, faulted, rounds>>
  BY DEF PolicyRefused
<1>2. GauntletTypeOK /\ WrittenIsPayload
  BY DEF GauntletInv
<1>3. GauntletTypeOK'
  BY <1>1, <1>2 DEF GauntletTypeOK
<1>4. WrittenIsPayload'
  <2>1. ~report'.written
    BY <1>1, <1>2 DEF WrittenIsPayload
  <2> QED
    BY <2>1 DEF WrittenIsPayload
<1> QED
  BY <1>1, <1>3, <1>4, VerdictsUnchanged DEF GauntletInv

\* The next validation.
LEMMA AgainInv ==
  ASSUME GauntletInv, Again
  PROVE  GauntletInv'
<1>1. /\ rounds < MaxRounds /\ rounds' = rounds + 1 /\ options' = [options EXCEPT !.write = FALSE]
      /\ probe' = "gold" /\ attempt' = 0 /\ evidence' = NoEvidence /\ stage' = "probing"
      /\ report' = NoReport /\ faulted' = FALSE /\ UNCHANGED sidecar
  BY DEF Again
<1>2. /\ GauntletTypeOK /\ Runs \in Nat \ {0} /\ MaxAttempts \in Nat \ {0} /\ MaxRounds \in Nat
      /\ rounds \in 1..MaxRounds
  BY GauntletAssumption DEF GauntletInv, GauntletTypeOK
<1>3. evidence' = [p \in Probes |-> <<>>] /\ \A p \in Probes : evidence'[p] = <<>>
  BY <1>1 DEF NoEvidence
<1>4. /\ "gold" \in Probes /\ "empty" \in Probes /\ "stub" \in Probes
      /\ \A p \in Probes : Len(evidence'[p]) = 0
  BY <1>3 DEF Probes
<1>5. EvidenceOK'
  <2>1. \A p \in Probes : <<>> \in Seq(Outcomes[p])
    OBVIOUS
  <2>2. \A p \in Probes : evidence'[p] \in Seq(Outcomes[p])
    BY <1>3, <2>1, Zenon
  <2>3. \A p \in Probes : Len(evidence'[p]) <= Runs
    BY <1>2, <1>4
  <2>4. evidence' = [p \in Probes |-> evidence'[p]]
    BY <1>3
  <2> QED
    BY <2>2, <2>3, <2>4, Zenon DEF EvidenceOK
<1>6. Gathered'
  BY <1>1, <1>2, <1>3, <1>4 DEF Gathered
<1>7. ~report'.written
  BY <1>1 DEF NoReport
<1>8. GauntletTypeOK'
  <2>1. report' \in [goldGreen : BOOLEAN, emptyRed : BOOLEAN, stable : BOOLEAN,
                     floorBelow : BOOLEAN, strict : BOOLEAN, written : BOOLEAN, drift : BOOLEAN]
    BY <1>1 DEF NoReport
  <2>2. \A p \in Probes : Len(evidence'[p]) \in 0..Runs
    BY <1>2, <1>4
  <2>3. attempt' \in 0..MaxAttempts /\ rounds' \in 1..MaxRounds
    BY <1>1, <1>2
  <2>4. options' \in OptionType
    <3>1. options \in OptionType
      BY <1>2 DEF GauntletTypeOK
    <3> QED
      BY <1>1, <3>1 DEF OptionType
  <2>5. /\ stage' \in {"probing", "reported", "aborted", "refused"}
        /\ probe' \in Probes \union {"none"} /\ faulted' \in BOOLEAN
    BY <1>1, <1>4
  <2>6. sidecar'.present => \A k \in 1..3 : sidecar'.scores[k] \in -1..100
    BY <1>1, <1>2, Zenon DEF GauntletTypeOK
  <2> QED
    BY <2>1, <2>2, <2>3, <2>4, <2>5, <2>6, Zenon DEF GauntletTypeOK
<1>9. WrittenIsPayload'
  BY <1>7 DEF WrittenIsPayload
<1>10. attempt' < MaxAttempts
  BY <1>1, <1>2
<1> QED
  BY <1>5, <1>6, <1>8, <1>9, <1>10 DEF GauntletInv

-------------------------------------------------------------------------------
(* The report. *)

\* What the gates saw when a baseline was written.
SawThrough ==
  LET rows == Rows(First, options.policy)
  IN  /\ \A i \in DOMAIN evidence["gold"] : LegacyResolved(evidence["gold"][i])
      /\ \A i \in DOMAIN evidence["empty"] : ~LegacyResolved(evidence["empty"][i])
      /\ \A p \in Probes : Stable(p)
      /\ Max({HeldRows(rows, "empty"), IF options.stubbed THEN HeldRows(rows, "stub") ELSE 0})
           < HeldRows(rows, "gold")

\* What a report does.
LEMMA WhatIsReported ==
  ASSUME Report
  PROVE  /\ stage = "probing" /\ probe = "none" /\ stage' = "reported"
         /\ UNCHANGED <<options, probe, attempt, evidence, faulted, rounds>>
         /\ report' \in [goldGreen : BOOLEAN, emptyRed : BOOLEAN, stable : BOOLEAN,
                         floorBelow : BOOLEAN, strict : BOOLEAN, written : BOOLEAN, drift : BOOLEAN]
         /\ \/ ~report'.written /\ sidecar' = sidecar
            \/ /\ sidecar' = Payload(Rows(First, options.policy), options.stubbed)
               /\ SawThrough
<1> DEFINE rows    == Rows(First, options.policy)
           payload == Payload(rows, options.stubbed)
           floor   == Max({HeldRows(rows, "empty"),
                           IF options.stubbed THEN HeldRows(rows, "stub") ELSE 0})
           red     == \A i \in DOMAIN evidence["empty"] : ~LegacyResolved(evidence["empty"][i])
           green   == \A i \in DOMAIN evidence["gold"] : LegacyResolved(evidence["gold"][i])
           steady  == \A p \in Probes : Stable(p)
           below   == red /\ floor < HeldRows(rows, "gold")
           strict  == StrictGate(payload)
           drift   == ~options.write /\ sidecar.present /\ sidecar # payload
           judged  == [goldGreen |-> green, emptyRed |-> red, stable |-> steady,
                       floorBelow |-> below, strict |-> strict, written |-> FALSE, drift |-> drift]
           writes  == options.write /\ Gates(judged)
<1>1. /\ stage = "probing" /\ probe = "none" /\ stage' = "reported"
      /\ UNCHANGED <<options, probe, attempt, evidence, faulted, rounds>>
  BY DEF Report
<1>2. /\ sidecar' = IF writes THEN payload ELSE sidecar
      /\ report' = [judged EXCEPT !.written = writes]
  BY Zenon DEF Report
<1>3. SawThrough <=> green /\ red /\ steady /\ floor < HeldRows(rows, "gold")
  BY Zenon DEF SawThrough
<1>4. /\ green \in BOOLEAN /\ red \in BOOLEAN /\ steady \in BOOLEAN
      /\ below \in BOOLEAN /\ drift \in BOOLEAN
  BY Zenon
<1>5. strict \in BOOLEAN
  BY Zenon DEF StrictGate
<1>6. below <=> red /\ floor < HeldRows(rows, "gold")
  OBVIOUS
<1> HIDE DEF green, red, steady, below, strict, drift
<1>7. Gates(judged) <=> green /\ red /\ steady /\ below
  <2>1. judged.goldGreen = green /\ judged.emptyRed = red /\ judged.stable = steady /\ judged.floorBelow = below
    BY Zenon
  <2> HIDE DEF judged
  <2> QED
    BY <2>1, Zenon DEF Gates
<1>8. writes \in BOOLEAN
  BY Zenon
<1>9. report' = [goldGreen |-> green, emptyRed |-> red, stable |-> steady,
                 floorBelow |-> below, strict |-> strict, written |-> writes, drift |-> drift]
  <2> HIDE DEF writes
  <2> QED
    BY <1>2
<1>10. writes => green /\ red /\ steady /\ below
  BY <1>7, Zenon
<1> HIDE DEF writes, judged
<1>11. report'.written = writes
  BY <1>9
<1>12. report' \in [goldGreen : BOOLEAN, emptyRed : BOOLEAN, stable : BOOLEAN,
                    floorBelow : BOOLEAN, strict : BOOLEAN, written : BOOLEAN, drift : BOOLEAN]
  BY <1>4, <1>5, <1>8, <1>9
<1> HIDE DEF payload, floor
<1>13. \/ ~report'.written /\ sidecar' = sidecar
       \/ sidecar' = payload /\ SawThrough
  <2>1. CASE writes
    BY <1>2, <1>3, <1>6, <1>10, <2>1, Zenon
  <2>2. CASE ~writes
    BY <1>2, <1>11, <2>2, Zenon
  <2> QED
    BY <2>1, <2>2
<1> QED
  BY <1>1, <1>12, <1>13, Zenon DEF payload

\* A report, whether it writes or not.
LEMMA ReportInv ==
  ASSUME GauntletInv, Report
  PROVE  GauntletInv'
<1>1. /\ stage = "probing" /\ probe = "none" /\ stage' = "reported"
      /\ UNCHANGED <<options, probe, attempt, evidence, faulted, rounds>>
      /\ report' \in [goldGreen : BOOLEAN, emptyRed : BOOLEAN, stable : BOOLEAN,
                      floorBelow : BOOLEAN, strict : BOOLEAN, written : BOOLEAN, drift : BOOLEAN]
      /\ \/ ~report'.written /\ sidecar' = sidecar
         \/ sidecar' = Payload(Rows(First, options.policy), options.stubbed)
  BY WhatIsReported
<1>2. GauntletTypeOK /\ EvidenceOK /\ options \in OptionType
  BY DEF GauntletInv, GauntletTypeOK
<1>3. sidecar'.present => \A k \in 1..3 : sidecar'.scores[k] \in -1..100
  <2>1. CASE sidecar' = sidecar
    BY <1>2, <2>1, Zenon DEF GauntletTypeOK
  <2>2. CASE sidecar' = Payload(Rows(First, options.policy), options.stubbed)
    <3>1. Table(Rows(First, options.policy)) /\ options.stubbed \in BOOLEAN
      BY <1>2, FirstVerdicts
    <3>2. \A k \in 1..3 : Payload(Rows(First, options.policy), options.stubbed).scores[k] \in -1..100
      BY <3>1, PayloadOfTable
    <3> QED
      BY <2>2, <3>2, Zenon
  <2> QED
    BY <1>1, <2>1, <2>2
<1>4. stage' \in {"probing", "reported", "aborted", "refused"}
  BY <1>1
<1>5. GauntletTypeOK'
  BY <1>1, <1>2, <1>3, <1>4, Zenon DEF GauntletTypeOK
<1>6. WrittenIsPayload'
  <2> SUFFICES ASSUME report'.written
               PROVE  sidecar' = Payload(Rows(First, options.policy), options.stubbed)'
    BY <1>1 DEF WrittenIsPayload
  <2>1. First' = First
    BY <1>1 DEF First
  <2>2. Payload(Rows(First, options.policy), options.stubbed)' = Payload(Rows(First, options.policy), options.stubbed)
    BY <1>1, <2>1, Zenon
  <2> QED
    BY <1>1, <2>2
<1> QED
  BY <1>1, <1>5, <1>6, VerdictsUnchanged DEF GauntletInv

\* Every step keeps the invariant.
LEMMA NextGauntletInv == GauntletInv /\ [GauntletNext]_gauntletVars => GauntletInv'
<1> SUFFICES ASSUME GauntletInv, [GauntletNext]_gauntletVars PROVE GauntletInv'
  OBVIOUS
<1>1. CASE UNCHANGED gauntletVars
  <2>1. UNCHANGED <<sidecar, options, probe, attempt, evidence, stage, report, faulted, rounds>>
    BY <1>1 DEF gauntletVars
  <2>2. GauntletTypeOK'
    BY <2>1 DEF GauntletInv, GauntletTypeOK
  <2>3. First' = First
    BY <2>1 DEF First
  <2>4. Payload(Rows(First, options.policy), options.stubbed)' = Payload(Rows(First, options.policy), options.stubbed)
    BY <2>1, <2>3, Zenon
  <2>5. WrittenIsPayload'
    BY <2>1, <2>4 DEF GauntletInv, WrittenIsPayload
  <2>6. stage' = "probing" => attempt' < MaxAttempts
    BY <2>1 DEF GauntletInv
  <2> QED
    BY <2>1, <2>2, <2>5, <2>6, VerdictsUnchanged DEF GauntletInv
<1> QED
  BY <1>1, GradeCountsInv, GradeFailsInv, ReportInv, PolicyRefusedInv, AgainInv DEF GauntletNext

\* The invariant holds of every validation.
THEOREM GauntletInvariant == GauntletSpec => []GauntletInv
  BY InitGauntletInv, NextGauntletInv, PTL DEF GauntletSpec

-------------------------------------------------------------------------------
(* What a validation reports and writes. *)

\* A probe's rows of a name are held exactly when the scorer finds the name held.
LEMMA RowsAreHeld ==
  ASSUME NEW v, Graded(v), NEW y, y.on \in BOOLEAN, NEW p \in {"empty", "stub"},
         AsOften(v[p], v["gold"]), NEW n \in RowNames(Rows(v, y))
  PROVE  Held(v[p].checks, n) <=> RowHeld(Rows(v, y), n, p)
<1> DEFINE rows == Rows(v, y)
           g == v["gold"].checks
<1>1. DOMAIN rows = DOMAIN g /\ \A i \in DOMAIN rows : rows[i].name = g[i].name /\ rows[i][p] = Hit(v[p], g, i)
  BY RowsAreATable
<1>2. IsList(v[p].checks) /\ IsList(g)
  BY DEF Graded, Probes
<1> HIDE DEF rows
<1>3. n \in Recorded(g) /\ Instances(rows, n) = Instances(g, n)
  BY <1>1 DEF RowNames, Recorded, Instances, rows
<1>4. (\A i \in Instances(g, n) : Hit(v[p], g, i)) <=> Held(v[p].checks, n)
  BY <1>2, <1>3, HitsAreHeld
<1>5. RowHeld(rows, n, p) <=> \A i \in Instances(g, n) : Hit(v[p], g, i)
  <2>1. \A i \in Instances(g, n) : i \in DOMAIN rows
    BY <1>1 DEF Instances
  <2>2. \A i \in Instances(g, n) : rows[i][p] = Hit(v[p], g, i)
    BY <1>1, <2>1, Zenon
  <2> QED
    BY <1>3, <2>2, Zenon DEF RowHeld
<1> QED
  BY <1>4, <1>5 DEF rows

\* Where a written baseline can be scored with, gold held all of its checks and
\* earns something.
LEMMA UsableIsPerfect ==
  ASSUME NEW s, Usable(s)
  PROVE  Perfect(s.rows) /\ s.required # {} /\ MaxScore(Manifest(s)) > 0
<1> DEFINE M == Manifest(s)
           r(n) == [ok |-> RowHeld(s.rows, n, "gold"), pass |-> RowOf(s.rows, n).pass,
                    fail |-> RowOf(s.rows, n).fail, mandatory |-> n \in s.required]
<1>1. M = [n \in RowNames(s.rows) |-> r(n)]
  BY Zenon DEF Manifest
<1>2. s.required # {} /\ GoldAccepted(M)
  BY DEF Usable
<1>3. \A n : r(n).ok = RowHeld(s.rows, n, "gold")
  BY Zenon
<1> HIDE DEF M, r
<1>4. ASSUME NEW n \in RowNames(s.rows) PROVE RowHeld(s.rows, n, "gold")
  <2>1. n \in DOMAIN M /\ M[n] = r(n)
    BY <1>1
  <2>2. M[n].ok
    BY <1>2, <2>1 DEF GoldAccepted
  <2> QED
    BY <1>3, <2>1, <2>2, Zenon
<1>5. MaxScore(M) > 0
  BY <1>2, Zenon DEF GoldAccepted
<1> QED
  BY <1>2, <1>4, <1>5 DEF Perfect, M

\* The evidence of a report that wrote.
LEMMA WrittenEvidence ==
  ASSUME GauntletInv, probe = "none"
  PROVE  /\ First["gold"] = evidence["gold"][1] /\ 1 \in DOMAIN evidence["gold"]
         /\ First["empty"] = evidence["empty"][1] /\ 1 \in DOMAIN evidence["empty"]
         /\ options.stubbed => First["stub"] = evidence["stub"][1] /\ 1 \in DOMAIN evidence["stub"]
         /\ ~options.stubbed => First["stub"].checks = <<>>
<1>1. /\ EvidenceOK /\ Gathered /\ options \in OptionType /\ Runs \in Nat \ {0}
  BY GauntletAssumption DEF GauntletInv, GauntletTypeOK
<1>2. Len(<<>>) = 0
  OBVIOUS
<1>3. evidence["gold"] # <<>> /\ evidence["empty"] # <<>> /\ (options.stubbed => evidence["stub"] # <<>>)
      /\ (~options.stubbed => evidence["stub"] = <<>>)
  BY <1>1, <1>2 DEF Gathered
<1>4. "gold" \in Probes /\ "empty" \in Probes /\ "stub" \in Probes
  BY DEF Probes
<1> QED
  BY <1>1, <1>3, <1>4, FirstVerdicts, Zenon

\* validate.py:392 and scoring.py:186: two implementations, one score.
LEMMA WriterAgrees == GauntletInv => WriterAgreesWithScorer
<1> SUFFICES ASSUME GauntletInv, report.written, NEW p \in {"empty", "stub"},
                    p = "stub" => options.stubbed,
                    Usable(sidecar), ~evidence[p][1].failed,
                    SameCounts(evidence[p][1], evidence["gold"][1]),
                    SameNameCounts(evidence[p][1], evidence["gold"][1]),
                    \A n \in Recorded(evidence[p][1].checks) \ sidecar.required :
                      Worst(evidence[p][1].checks, n).mandatory => Worst(evidence[p][1].checks, n).ok
             PROVE  sidecar.scores[IF p = "empty" THEN 1 ELSE 2]
                      = TaskScore(evidence[p][1].checks, Manifest(sidecar), evidence[p][1].failed)
  BY Zenon DEF WriterAgreesWithScorer
<1> DEFINE rows == Rows(First, options.policy)
           v == evidence[p][1]
<1>1. /\ EvidenceOK /\ options \in OptionType /\ probe = "none"
      /\ sidecar = Payload(rows, options.stubbed)
  BY DEF GauntletInv, GauntletTypeOK, WrittenIsPayload
<1>2. /\ Graded(First) /\ options.policy.on \in BOOLEAN /\ options.stubbed \in BOOLEAN /\ Table(rows)
  BY <1>1, FirstVerdicts
<1>3. First["gold"] = evidence["gold"][1] /\ First[p] = v /\ v.failed \in BOOLEAN
  <2>1. First["gold"] = evidence["gold"][1] /\ First[p] = v /\ 1 \in DOMAIN evidence[p]
    BY <1>1, WrittenEvidence
  <2>2. p \in Probes /\ evidence[p] \in Seq(Outcomes[p])
    BY <1>1 DEF EvidenceOK, Probes
  <2>3. v \in Outcomes[p]
    BY <2>1, <2>2
  <2>4. CandidateVerdict(v)
    BY <2>2, <2>3, GauntletAssumption
  <2> QED
    BY <2>1, <2>4 DEF CandidateVerdict
<1>4. v.failed = FALSE
  BY <1>3
<1>5. AsOften(First[p], First["gold"])
  BY <1>3 DEF AsOften
<1>6. /\ sidecar.rows = rows /\ sidecar.required = Completion(rows).required
      /\ sidecar.scores[1] = FixedScore(rows, "empty")
      /\ options.stubbed => sidecar.scores[2] = FixedScore(rows, "stub")
  BY <1>1, <1>2, PayloadOfTable
<1>7. Perfect(rows) /\ sidecar.required # {} /\ MaxScore(Manifest(sidecar)) > 0
  BY <1>6, UsableIsPerfect
<1>8. Ceiling(rows) > 0
  BY <1>2, <1>6, <1>7, ManifestOfTable
<1>9. \A n \in RowNames(rows) : Held(v.checks, n) <=> RowHeld(rows, n, p)
  <2>1. \A n \in RowNames(rows) : Held(First[p].checks, n) <=> RowHeld(rows, n, p)
    BY <1>2, <1>5, RowsAreHeld
  <2> QED
    BY <1>3, <2>1, Zenon
<1> HIDE DEF rows, v
<1>10. FixedScore(rows, p) = TaskScore(v.checks, Manifest(sidecar), FALSE)
  <2>1. \A n \in Recorded(v.checks) \ sidecar.required : Worst(v.checks, n).mandatory => Worst(v.checks, n).ok
    BY DEF v
  <2> DEFINE c == v.checks
  <2>2. /\ \A n \in RowNames(rows) : Held(c, n) <=> RowHeld(rows, n, p)
        /\ \A n \in Recorded(c) \ sidecar.required : Worst(c, n).mandatory => Worst(c, n).ok
    BY <1>9, <2>1
  <2>3. /\ Table(rows) /\ Perfect(rows) /\ sidecar.rows = rows
        /\ sidecar.required = Completion(rows).required /\ sidecar.required # {} /\ Ceiling(rows) > 0
    BY <1>2, <1>6, <1>7, <1>8
  <2> HIDE DEF c
  <2>4. FixedScore(rows, p) = TaskScore(c, Manifest(sidecar), FALSE)
    BY <2>2, <2>3, WrittenIsScored, Zenon
  <2> QED
    BY <2>4 DEF c
<1>11. sidecar.scores[IF p = "empty" THEN 1 ELSE 2] = FixedScore(rows, p)
  <2>1. CASE p = "empty"
    BY <1>6, <2>1
  <2>2. CASE p = "stub"
    BY <1>6, <2>2
  <2> QED
    BY <2>1, <2>2
<1>12. TaskScore(v.checks, Manifest(sidecar), v.failed) = TaskScore(v.checks, Manifest(sidecar), FALSE)
  BY <1>4, Zenon
<1> QED
  BY <1>10, <1>11, <1>12, Zenon DEF v

\* validate.py:320 and scoring.py:44: what is written can be scored with.
LEMMA PerfectGold == GauntletInv => PerfectGoldIsUsable
<1> SUFFICES ASSUME GauntletInv, report.written,
                    HeldRows(sidecar.rows, "gold") = Len(sidecar.rows), sidecar.scores[1] >= 0
             PROVE  Usable(sidecar)
  BY Zenon DEF PerfectGoldIsUsable
<1> DEFINE rows == Rows(First, options.policy)
<1>1. /\ EvidenceOK /\ options \in OptionType /\ sidecar = Payload(rows, options.stubbed)
  BY DEF GauntletInv, GauntletTypeOK, WrittenIsPayload
<1>2. Table(rows) /\ options.stubbed \in BOOLEAN
  BY <1>1, FirstVerdicts
<1>3. /\ sidecar.present /\ sidecar.rows = rows
      /\ sidecar.mode = Completion(rows).mode /\ sidecar.required = Completion(rows).required
      /\ sidecar.scores[1] = FixedScore(rows, "empty")
  BY <1>1, <1>2, PayloadOfTable
<1> HIDE DEF rows
<1>4. \A i \in DOMAIN rows : rows[i]["gold"]
  BY <1>2, <1>3, FewerRowsMissOne
<1>5. Perfect(rows)
  BY <1>4 DEF Perfect, RowHeld, Instances
<1>6. Ceiling(rows) > 0 /\ RowNames(rows) # {}
  <2>1. Ceiling(rows) > 0
    BY <1>2, <1>3, FixedScoreInPercent
  <2>2. RowNames(rows) = {} => Ceiling(rows) = 0
    BY <1>2, EarningsAreIntegers
  <2> QED
    BY <2>1, <2>2
<1>7. AllGold(rows) # {}
  <2>1. PICK i \in DOMAIN rows : TRUE
    BY <1>6 DEF RowNames
  <2>2. rows[i].gold
    BY <1>4
  <2>3. rows[i].name \in AllGold(rows)
    BY <2>2 DEF AllGold
  <2> QED
    BY <2>3
<1>8. /\ sidecar.required # {}
      /\ sidecar.required = IF sidecar.mode = "authored_mandatory_checks" THEN AuthoredMandatory(rows)
                                                                        ELSE AllGold(rows)
  <2>1. CASE AuthoredMandatory(rows) # {}
    <3>1. Completion(rows) = [mode |-> "authored_mandatory_checks", required |-> AuthoredMandatory(rows)]
      BY <2>1, Zenon DEF Completion
    <3> QED
      BY <1>3, <2>1, <3>1
  <2>2. CASE AuthoredMandatory(rows) = {}
    <3>1. Completion(rows) = [mode |-> "all_authored_gold_checks", required |-> AllGold(rows)]
      BY <2>2, Zenon DEF Completion
    <3> QED
      BY <1>3, <1>7, <3>1
  <2> QED
    BY <2>1, <2>2
<1>9. GoldAccepted(Manifest(sidecar))
  <2>1. /\ DOMAIN Manifest(sidecar) = RowNames(rows)
        /\ \A n \in RowNames(rows) : Manifest(sidecar)[n].ok
        /\ MaxScore(Manifest(sidecar)) = Ceiling(rows)
        /\ Required(Manifest(sidecar)) = Needed(rows)
    BY <1>2, <1>3, <1>5, ManifestOfTable
  <2>2. sidecar.required = Needed(rows)
    BY <1>2, <1>3, <1>5, ContractIsNeeded
  <2>3. Required(Manifest(sidecar)) # {}
    BY <1>8, <2>1, <2>2
  <2>4. MaxScore(Manifest(sidecar)) > 0
    BY <1>6, <2>1
  <2> QED
    BY <2>1, <2>3, <2>4, Zenon DEF GoldAccepted
<1> QED
  BY <1>3, <1>8, <1>9, Zenon DEF Usable

\* Whatever the probes measure, and however often a task is validated.
THEOREM GauntletIsCorrect == GauntletSpec => []GauntletCorrect
<1>1. GauntletInv => EvidenceIsCandidates
  <2> SUFFICES ASSUME GauntletInv, NEW p \in Probes, NEW i \in DOMAIN evidence[p]
               PROVE  evidence[p][i].owner = "candidate"
    BY DEF EvidenceIsCandidates
  <2>1. evidence[p] \in Seq(Outcomes[p])
    BY DEF GauntletInv, EvidenceOK
  <2>2. evidence[p][i] \in Outcomes[p]
    BY <2>1
  <2>3. CandidateVerdict(evidence[p][i])
    BY <2>2, GauntletAssumption
  <2> QED
    BY <2>3 DEF CandidateVerdict
<1>2. GauntletInv => GauntletCorrect
  BY <1>1, WriterAgrees, PerfectGold DEF GauntletInv, GauntletCorrect
<1> QED
  BY <1>2, GauntletInvariant, PTL

\* validate.py:68: a sidecar is replaced by what every run reproduced only.
THEOREM OnlyReproducedIsWritten == GauntletSpec => WrittenIsReproduced
<1> DEFINE Reproduced ==
      sidecar' # sidecar =>
        /\ \A p \in Probes : \A i, j \in DOMAIN evidence[p] : evidence[p][i] = evidence[p][j]
        /\ LegacyResolved(evidence["gold"][1])
        /\ ~LegacyResolved(evidence["empty"][1])
        /\ \A p \in {"empty", "stub"} : \E i \in DOMAIN sidecar'.rows :
             sidecar'.rows[i].gold /\ ~sidecar'.rows[i][p]
<1>1. GauntletInv /\ [GauntletNext]_gauntletVars => [Reproduced]_gauntletVars
  <2> SUFFICES ASSUME GauntletInv, [GauntletNext]_gauntletVars, sidecar' # sidecar PROVE Reproduced
    BY DEF gauntletVars
  <2>1. Report
    BY DEF GauntletNext, gauntletVars, GradeCounts, GradeFails, PolicyRefused, Again
  <2> DEFINE rows == Rows(First, options.policy)
             stub == IF options.stubbed THEN HeldRows(rows, "stub") ELSE 0
  <2>2. probe = "none" /\ sidecar' = Payload(rows, options.stubbed) /\ SawThrough
    BY <2>1, WhatIsReported
  <2>3. EvidenceOK /\ options \in OptionType
    BY DEF GauntletInv, GauntletTypeOK
  <2>4. Graded(First) /\ options.policy.on \in BOOLEAN /\ options.stubbed \in BOOLEAN /\ Table(rows)
    BY <2>3, FirstVerdicts
  <2>5. sidecar'.rows = rows
    BY <2>2, <2>4, PayloadOfTable
  <2>6. /\ \A i \in DOMAIN evidence["gold"] : LegacyResolved(evidence["gold"][i])
        /\ \A i \in DOMAIN evidence["empty"] : ~LegacyResolved(evidence["empty"][i])
        /\ \A p \in Probes : Stable(p)
        /\ Max({HeldRows(rows, "empty"), stub}) < HeldRows(rows, "gold")
    BY <2>2 DEF SawThrough
  <2>7. LegacyResolved(evidence["gold"][1]) /\ ~LegacyResolved(evidence["empty"][1])
    BY <2>2, <2>6, WrittenEvidence
  <2>8. ASSUME NEW p \in Probes, NEW i \in DOMAIN evidence[p], NEW j \in DOMAIN evidence[p]
        PROVE  evidence[p][i] = evidence[p][j]
    <3>1. evidence[p][i] = evidence[p][1] /\ evidence[p][j] = evidence[p][1]
      BY <2>6, <2>8 DEF Stable
    <3> QED
      BY <3>1
  <2>9. /\ HeldRows(rows, "empty") \in Nat /\ HeldRows(rows, "stub") \in Nat
        /\ HeldRows(rows, "gold") \in Nat
    BY <2>4, FewerRowsMissOne
  <2>10. HeldRows(rows, "empty") < HeldRows(rows, "gold") /\ stub < HeldRows(rows, "gold") /\ stub \in Nat
    <3>1. stub \in Nat
      BY <2>9
    <3> HIDE DEF stub
    <3>2. /\ HeldRows(rows, "empty") \in Int /\ stub \in Int
      BY <2>9, <3>1
    <3>3. /\ Max({HeldRows(rows, "empty"), stub}) \in {HeldRows(rows, "empty"), stub}
          /\ Max({HeldRows(rows, "empty"), stub}) >= HeldRows(rows, "empty")
          /\ Max({HeldRows(rows, "empty"), stub}) >= stub
      BY <3>2, LargerOfTwo, Zenon
    <3> DEFINE max == Max({HeldRows(rows, "empty"), stub})
    <3> HIDE DEF rows, max
    <3>4. max \in {HeldRows(rows, "empty"), stub} /\ max >= HeldRows(rows, "empty") /\ max >= stub
          /\ max < HeldRows(rows, "gold")
      BY <2>6, <3>3, Zenon DEF max
    <3> QED
      BY <2>9, <3>1, <3>4
  <2>11. \E i \in DOMAIN rows : rows[i]["gold"] /\ ~rows[i]["empty"]
    BY <2>4, <2>10, FewerRowsMissOne
  <2>12. \E i \in DOMAIN rows : rows[i]["gold"] /\ ~rows[i]["stub"]
    <3>1. CASE options.stubbed
      <4>1. HeldRows(rows, "stub") < HeldRows(rows, "gold")
        BY <2>10, <3>1
      <4> QED
        BY <2>4, <4>1, FewerRowsMissOne
    <3>2. CASE ~options.stubbed
      <4>1. DOMAIN First["stub"].checks = {}
        <5>1. First["stub"].checks = <<>>
          BY <2>2, <3>2, WrittenEvidence
        <5> QED
          BY <5>1
      <4>2. \A i \in DOMAIN rows : rows[i]["stub"] = Hit(First["stub"], First["gold"].checks, i)
        BY <2>4, RowsAreATable
      <4>3. \A i : ~Hit(First["stub"], First["gold"].checks, i)
        BY <4>1, Zenon DEF Hit
      <4>4. \A i \in DOMAIN rows : ~rows[i]["stub"]
        BY <4>2, <4>3, Zenon
      <4>5. PICK i \in DOMAIN rows : rows[i]["gold"]
        <5>1. {i \in DOMAIN rows : rows[i]["gold"]} = {} => HeldRows(rows, "gold") = 0
          BY FS_EmptySet DEF HeldRows
        <5>2. HeldRows(rows, "gold") # 0
          BY <2>9, <2>10
        <5> QED
          BY <5>1, <5>2
      <4> QED
        BY <4>4, <4>5
    <3> QED
      BY <2>4, <3>1, <3>2
  <2> HIDE DEF rows
  <2>13. \A p \in {"empty", "stub"} : \E i \in DOMAIN sidecar'.rows :
           sidecar'.rows[i].gold /\ ~sidecar'.rows[i][p]
    BY <2>5, <2>11, <2>12
  <2> QED
    BY <2>7, <2>8, <2>13
<1> QED
  BY <1>1, GauntletInvariant, PTL DEF GauntletSpec, WrittenIsReproduced

===============================================================================
