------------------------- MODULE SnapshotStoreProofs -------------------------
(***************************************************************************)
(* Theorems about SnapshotStore, for any readers, documents, limit and     *)
(* number of clock readings.  What retention takes and leaves (PruneInv)   *)
(* does not depend on the clock; that a snapshot keeps its meaning and     *)
(* survives its own save (NameInv) does, and is proved for a clock that    *)
(* is not set back - the run clock_back shows that it must not be.  With   *)
(* such a clock the files implement the archive of SnapshotArchive.        *)
(***************************************************************************)
EXTENDS SnapshotStore, FiniteSetTheorems, WellFoundedInduction, TLAPS

-----------------------------------------------------------------------------
(* Oldest and newest of a set of names, and what the listing counts.       *)

LEMMA OldestExists ==
    ASSUME NEW S \in SUBSET Stamps, S # {}
    PROVE  \E n \in S : \A m \in S : n <= m
<1>. DEFINE R == OpToRel(<, Nat)
<1>1. S \subseteq Nat
    BY DEF Stamps
<1>2. \E n \in S : \A m \in S : ~ (<<m, n>> \in R)
    BY <1>1, WFMin, NatLessThanWellFounded
<1>3. \A n, m \in S : ~ (<<m, n>> \in R) => n <= m
    BY <1>1 DEF OpToRel
<1>. QED BY <1>2, <1>3

LEMMA NewestExists ==
    ASSUME NEW S \in SUBSET Stamps, S # {}
    PROVE  \E n \in S : \A m \in S : n >= m
<1>. DEFINE Age(n) == (MaxTime + 1) - n
            T == {Age(n) : n \in S}
<1>1. T \in SUBSET Stamps /\ T # {}
    BY StoreAssumption DEF Stamps
<1>2. PICK a \in T : \A b \in T : a <= b
    BY <1>1, OldestExists
<1>3. PICK n \in S : a = Age(n)
    OBVIOUS
<1>4. ASSUME NEW m \in S PROVE n >= m
    <2>1. Age(n) <= Age(m)
        BY <1>2, <1>3
    <2>. QED BY <2>1, StoreAssumption DEF Stamps
<1>. QED BY <1>4

LEMMA FiniteStamps ==
    ASSUME NEW S \in SUBSET Stamps
    PROVE  IsFiniteSet(S) /\ Cardinality(S) \in Nat
<1>1. 1 \in Int /\ MaxTime \in Int
    BY StoreAssumption
<1>2. IsFiniteSet(Stamps)
    BY <1>1, FS_Interval DEF Stamps
<1>. QED BY <1>2, FS_Subset, FS_CardinalityType

LEMMA SmallerSet ==
    ASSUME NEW T \in SUBSET Stamps, NEW S \in SUBSET T
    PROVE  Cardinality(S) <= Cardinality(T)
BY FiniteStamps, FS_Subset

LEMMA ListedType == Listed \in SUBSET Stamps /\ \A n : Newer(n) \in SUBSET Listed
BY DEF Listed, Newer

(* The loop of _prune takes members of what is stale.                      *)
LEMMA NextIsStale ==
    ASSUME stale \in SUBSET Stamps, stale # {}
    PROVE  NextStale \in stale
BY NewestExists DEF NextStale

(* What list()[keep:] leaves is at most Keep snapshots ...                 *)
LEMMA KeptAreFew ==
    Cardinality({n \in Listed : ~ (Cardinality(Newer(n)) >= Keep)}) <= Keep
<1>. DEFINE K == {n \in Listed : ~ (Cardinality(Newer(n)) >= Keep)}
<1>1. K \in SUBSET Stamps
    BY ListedType
<1>2. CASE K = {}
    BY <1>2, FS_EmptySet, StoreAssumption
<1>3. CASE K # {}
    <2>1. PICK n \in K : \A m \in K : n <= m
        BY <1>1, <1>3, OldestExists
    <2>2. K \subseteq Newer(n) \cup {n}
        <3>1. ASSUME NEW m \in K, m # n PROVE m > n
            <4>1. n <= m /\ n \in Stamps /\ m \in Stamps
                BY <1>1, <2>1
            <4>. QED BY <3>1, <4>1 DEF Stamps
        <3>. QED BY <3>1 DEF Newer
    <2>3. Newer(n) \in SUBSET Stamps /\ Newer(n) \cup {n} \in SUBSET Stamps
        BY <1>1, ListedType
    <2>4. Cardinality(K) <= Cardinality(Newer(n) \cup {n})
        BY <2>2, <2>3, SmallerSet
    <2>5. Cardinality(Newer(n) \cup {n}) <= Cardinality(Newer(n)) + 1
        BY <2>3, FiniteStamps, FS_AddElement
    <2>6. Cardinality(Newer(n)) \in Nat /\ Cardinality(K) \in Nat
          /\ Cardinality(Newer(n) \cup {n}) \in Nat
        BY <1>1, <2>3, FiniteStamps
    <2>7. Cardinality(Newer(n)) + 1 <= Keep
        BY <2>1, <2>6, StoreAssumption
    <2>. QED BY <2>4, <2>5, <2>6, <2>7, StoreAssumption
<1>. QED BY <1>2, <1>3

(* ... and each snapshot it takes has Keep newer ones among them.          *)
LEMMA KeptAreNewer ==
    LET S == {n \in Listed : Cardinality(Newer(n)) >= Keep} IN
    \A n \in S : Cardinality({m \in Listed \ S : m > n}) >= Keep
<1>. DEFINE S == {n \in Listed : Cardinality(Newer(n)) >= Keep}
<1>. SUFFICES ASSUME NEW n \in S
              PROVE  Cardinality({m \in Listed \ S : m > n}) >= Keep
    OBVIOUS
<1>. DEFINE Same == {m \in S : m >= n}
<1>1. S \in SUBSET Stamps
    BY ListedType
<1>2. n \in Same /\ Same \in SUBSET Stamps
    BY <1>1 DEF Stamps
<1>3. PICK s \in Same : \A m \in Same : s >= m
    BY <1>2, NewestExists
<1>4. Newer(s) \subseteq {m \in Listed \ S : m > n}
    <2>1. s \in Listed /\ s \in Stamps /\ s >= n /\ n \in Stamps
        BY <1>1
    <2>2. ASSUME NEW m \in Newer(s) PROVE m \in Listed /\ m > s /\ m \in Stamps
        BY ListedType DEF Newer
    <2>3. ASSUME NEW m \in Newer(s) PROVE m > n
        BY <2>1, <2>2 DEF Stamps
    <2>4. ASSUME NEW m \in Newer(s) PROVE m \notin S
        <3>1. SUFFICES ASSUME m \in S PROVE FALSE
            OBVIOUS
        <3>2. m >= n
            BY <2>1, <2>3, <2>2 DEF Stamps
        <3>3. s >= m
            BY <1>3, <3>1, <3>2
        <3>. QED BY <2>1, <2>2, <3>3 DEF Stamps
    <2>. QED BY <2>2, <2>3, <2>4
<1>5. {m \in Listed \ S : m > n} \in SUBSET Stamps
    BY ListedType
<1>6. Cardinality(Newer(s)) <= Cardinality({m \in Listed \ S : m > n})
    BY <1>4, <1>5, SmallerSet
<1>7. Cardinality(Newer(s)) \in Nat /\ Cardinality({m \in Listed \ S : m > n}) \in Nat
    BY <1>4, <1>5, FiniteStamps
<1>8. Cardinality(Newer(s)) >= Keep
    BY <1>3
<1>. QED BY <1>6, <1>7, <1>8, StoreAssumption

-----------------------------------------------------------------------------
(* The inductive invariants.                                               *)

(* A save in progress has a name and a document.                           *)
Typed == TypeOK /\ (step # "idle" => stamp \in Stamps /\ document \in Documents)

(* What will be left when the pruning is done.                             *)
Left == Listed \ stale

(* While it prunes, save() holds a choice that keeps Keep snapshots and    *)
(* lets go only of those with Keep newer ones among the kept.              *)
PruneInv ==
    /\ step \in {"pruning", "unlinking"} =>
          /\ Cardinality(Left) <= Keep
          /\ \A n \in stale : Cardinality({m \in Left : m > n}) >= Keep
    /\ step = "unlinking" => stale # {} /\ doc[NextStale] = Missing
    /\ step = "returned" => Cardinality(Listed) <= Keep

Superseded(n) == \E m \in Stamps : m > n /\ given[m] # Missing

(* A name is given once: what has it on disk is what it was given for, or  *)
(* part of that, and when it is gone, or about to go, a later name has     *)
(* been given.                                                             *)
NamesOK ==
    \A n \in Stamps :
        /\ given[n] # Missing => n <= now
        /\ doc[n] # Missing => given[n] # Missing
        /\ doc[n] \in Documents => doc[n] = given[n]
        /\ given[n] # Missing /\ doc[n] = Missing => Superseded(n)
        /\ n \in stale => Superseded(n)

(* The save in progress has the newest name.                               *)
SaverOK ==
    /\ step # "idle" =>
          /\ stamp <= now
          /\ \A n \in Stamps : given[n] # Missing => n <= stamp
    /\ step \notin {"idle", "creating"} => given[stamp] = document
    /\ step \in {"annotating", "listing", "pruning", "unlinking", "returned"} =>
          doc[stamp] = document

(* A reader expects what the name it found was given for, and has nothing  *)
(* else.                                                                   *)
ReaderOK(r) ==
    /\ reader[r].at \in {"found", "loaded"} =>
          /\ reader[r].name \in Stamps
          /\ given[reader[r].name] # Missing /\ reader[r].expected = given[reader[r].name]
    /\ reader[r].at = "loaded" => reader[r].got = reader[r].expected
    /\ reader[r].at \in {"found", "failed"} => reader[r].got = Missing

NameInv == NamesOK /\ SaverOK /\ \A r \in Readers : ReaderOK(r)

-----------------------------------------------------------------------------
(* Types.                                                                  *)

(* Every variable of the store and its readers keeps its type, at any      *)
(* reading of any clock and after any failure.                             *)
LEMMA TypeStep ==
    ASSUME Typed, [Next]_vars
    PROVE  Typed'
<1>. USE DEF Typed, TypeOK, Content, SaveSteps
<1>1. CASE Begin
    BY <1>1 DEF Begin
<1>2. CASE Create
    BY <1>2 DEF Create
<1>3. CASE Write
    BY <1>3 DEF Write
<1>4. CASE Annotate
    BY <1>4 DEF Annotate
<1>5. CASE List
    BY <1>5, ListedType DEF List
<1>6. CASE Unlink
    BY <1>6 DEF Unlink
<1>7. CASE UnlinkMeta
    BY <1>7 DEF UnlinkMeta
<1>8. CASE Return
    BY <1>8 DEF Return
<1>9. CASE Fail \/ Finish
    BY <1>9 DEF Fail, Finish, Leave
<1>10. ASSUME NEW r \in Readers, NEW n \in Stamps, Get(r, n) PROVE Typed'
    BY <1>10 DEF Get, saver
<1>11. ASSUME NEW r \in Readers, Load(r) PROVE Typed'
    BY <1>11 DEF Load, saver
<1>12. ASSUME NEW r \in Readers, Done(r) PROVE Typed'
    BY <1>12 DEF Done, Idle, saver
<1>13. CASE Tick
    BY <1>13 DEF Tick, saver
<1>14. CASE UNCHANGED vars
    BY <1>14 DEF vars
<1>. QED BY <1>1, <1>2, <1>3, <1>4, <1>5, <1>6, <1>7, <1>8, <1>9, <1>10, <1>11, <1>12, <1>13,
         <1>14 DEF Next, Save

-----------------------------------------------------------------------------
(* Retention.                                                              *)

(* The choice is made in one step and only carried out in the others.      *)
LEMMA PruneStep ==
    ASSUME Typed, PruneInv, [Next]_vars
    PROVE  PruneInv'
<1>. USE DEF PruneInv
<1>1. CASE Begin
    BY <1>1 DEF Begin
<1>2. CASE Create
    BY <1>2 DEF Create
<1>3. CASE Write
    BY <1>3 DEF Write
<1>4. CASE Annotate
    BY <1>4 DEF Annotate
<1>5. CASE List
    <2>. DEFINE S == {n \in Listed : Cardinality(Newer(n)) >= Keep}
    <2>1. step' = "pruning" /\ stale' = S /\ Listed' = Listed
        BY <1>5 DEF List, Listed
    <2>2. Left' = Listed \ S
        BY <2>1 DEF Left
    <2>3. Listed \ S = {n \in Listed : ~ (Cardinality(Newer(n)) >= Keep)}
        OBVIOUS
    <2>4. Cardinality(Left') <= Keep
        BY <2>2, <2>3, KeptAreFew
    <2>5. \A n \in stale' : Cardinality({m \in Left' : m > n}) >= Keep
        BY <2>1, <2>2, KeptAreNewer
    <2>. QED BY <2>1, <2>4, <2>5
<1>6. CASE Unlink
    <2>1. NextStale \in stale /\ stale \in SUBSET Stamps
        BY <1>6, NextIsStale DEF Unlink, Typed, TypeOK
    <2>2. doc' = [doc EXCEPT ![NextStale] = Missing] /\ stale' = stale
        BY <1>6 DEF Unlink
    <2>3. NextStale' = NextStale
        BY <2>2 DEF NextStale
    <2>4. doc'[NextStale] = Missing
        BY <2>1, <2>2 DEF Typed, TypeOK
    <2>5. Left' = Left
        BY <2>1, <2>2, <2>4 DEF Left, Listed, Typed, TypeOK
    <2>6. PruneInv!1'
        BY <1>6, <2>2, <2>5 DEF Unlink
    <2>7. PruneInv!2'
        BY <1>6, <2>2, <2>3, <2>4 DEF Unlink
    <2>8. PruneInv!3'
        BY <1>6 DEF Unlink
    <2>. QED BY <2>6, <2>7, <2>8
<1>7. CASE UnlinkMeta
    <2>1. NextStale \notin Listed
        BY <1>7 DEF UnlinkMeta, Listed
    <2>2. step' = "pruning" /\ stale' = stale \ {NextStale} /\ Listed' = Listed
        BY <1>7 DEF UnlinkMeta, Listed
    <2>3. Left' = Left
        BY <2>1, <2>2 DEF Left
    <2>. QED BY <1>7, <2>2, <2>3 DEF UnlinkMeta
<1>8. CASE Return
    <2>1. Listed' = Left /\ step' = "returned"
        BY <1>8 DEF Return, Left, Listed
    <2>. QED BY <1>8, <2>1 DEF Return
<1>9. CASE Fail \/ Finish
    BY <1>9 DEF Fail, Finish, Leave
<1>10. ASSUME UNCHANGED <<doc, step, stale>> PROVE PruneInv'
    <2>1. Listed' = Listed /\ Left' = Left /\ NextStale' = NextStale
        BY <1>10 DEF Listed, Left, NextStale
    <2>. QED BY <1>10, <2>1
<1>11. ASSUME (\E r \in Readers : (\E n \in Stamps : Get(r, n)) \/ Load(r) \/ Done(r))
              \/ Tick \/ UNCHANGED vars
       PROVE  UNCHANGED <<doc, step, stale>>
    BY <1>11 DEF Get, Load, Done, Tick, saver, vars
<1>. QED BY <1>1, <1>2, <1>3, <1>4, <1>5, <1>6, <1>7, <1>8, <1>9, <1>10, <1>11 DEF Next, Save

(* The only step that takes a document away takes a stale one.             *)
LEMMA TakesStale ==
    ASSUME Typed, PruneInv, [Next]_vars,
           NEW n \in Stamps, doc[n] # Missing, doc'[n] = Missing
    PROVE  Cardinality(Newer(n)) >= Keep
<1>1. CASE Unlink
    <2>1. n = NextStale /\ n \in stale
        BY <1>1, NextIsStale DEF Unlink, Typed, TypeOK
    <2>2. Cardinality({m \in Left : m > n}) >= Keep
        BY <1>1, <2>1 DEF Unlink, PruneInv
    <2>3. {m \in Left : m > n} \subseteq Newer(n) /\ Newer(n) \in SUBSET Stamps
        BY ListedType DEF Left, Newer
    <2>4. Cardinality({m \in Left : m > n}) <= Cardinality(Newer(n))
        BY <2>3, SmallerSet
    <2>5. Cardinality({m \in Left : m > n}) \in Nat /\ Cardinality(Newer(n)) \in Nat
        BY <2>3, FiniteStamps
    <2>. QED BY <2>2, <2>4, <2>5, StoreAssumption
<1>2. CASE Create
    BY <1>2, StoreAssumption DEF Create, Typed, TypeOK
<1>3. CASE Write
    <2>1. document \in Documents
        BY <1>3 DEF Write, Typed
    <2>. QED BY <1>3, <2>1, StoreAssumption DEF Write, Typed, TypeOK
<1>4. CASE ~ Unlink /\ ~ Create /\ ~ Write
    <2>1. doc' = doc
        BY <1>4 DEF Next, Save, Begin, Annotate, List, UnlinkMeta, Return, Fail, Finish, Leave,
           Get, Load, Done, Tick, saver, vars
    <2>. QED BY <2>1
<1>. QED BY <1>1, <1>2, <1>3, <1>4

-----------------------------------------------------------------------------
(* Names, while the clock is not set back.                                 *)

(* What is stale has a newer snapshot, since at least one is kept.         *)
LEMMA StaleSuperseded ==
    ASSUME Typed, NamesOK, NEW n \in Listed, Cardinality(Newer(n)) >= Keep
    PROVE  Superseded(n)
<1>1. Newer(n) # {}
    BY FS_EmptySet, StoreAssumption
<1>. QED BY <1>1 DEF Newer, Listed, NamesOK, Superseded

(* The name a save creates has never been given: were it, it would be on   *)
(* disk or a later one would have been given.                              *)
LEMMA NameIsFresh ==
    ASSUME Typed, NamesOK, SaverOK, Create
    PROVE  given[stamp] = Missing
<1>1. stamp \in Stamps /\ doc[stamp] = Missing
    BY DEF Create, Typed
<1>2. ~ Superseded(stamp)
    BY <1>1 DEF Create, SaverOK, Superseded, Stamps
<1>. QED BY <1>1, <1>2 DEF NamesOK

LEMMA CreateStep ==
    ASSUME Typed, NamesOK, SaverOK, Create
    PROVE  NamesOK' /\ SaverOK'
<1>1. /\ stamp \in Stamps /\ document \in Documents /\ stamp <= now
      /\ doc' = [doc EXCEPT ![stamp] = Torn] /\ given' = [given EXCEPT ![stamp] = document]
      /\ step = "creating" /\ step' = "writing"
      /\ UNCHANGED <<now, stamp, document, stale>>
    BY DEF Create, Typed, SaverOK
<1>2. document # Missing /\ Torn \notin Documents /\ Torn # Missing
    BY <1>1, StoreAssumption
<1>3. \A n \in Stamps : given[n] # Missing => given'[n] # Missing
    BY <1>1, <1>2 DEF Typed, TypeOK
<1>4. \A n \in Stamps : Superseded(n) => Superseded(n)'
    BY <1>3 DEF Superseded
<1>5. ASSUME NEW n \in Stamps PROVE
        /\ doc'[n] = IF n = stamp THEN Torn ELSE doc[n]
        /\ given'[n] = IF n = stamp THEN document ELSE given[n]
    BY <1>1 DEF Typed, TypeOK
<1>6. NamesOK'
    BY <1>1, <1>2, <1>4, <1>5 DEF NamesOK
<1>7. SaverOK'
    BY <1>1, <1>5 DEF SaverOK, Stamps
<1>. QED BY <1>6, <1>7

(* Completing the file makes it what its name was given for.               *)
LEMMA WriteStep ==
    ASSUME Typed, NamesOK, SaverOK, Write
    PROVE  NamesOK' /\ SaverOK'
<1>1. /\ stamp \in Stamps /\ document \in Documents /\ document # Missing
      /\ doc' = [doc EXCEPT ![stamp] = document] /\ given[stamp] = document
      /\ step = "writing" /\ step' = "annotating"
      /\ UNCHANGED <<now, given, stamp, document, stale>>
    BY StoreAssumption DEF Write, Typed, SaverOK
<1>2. ASSUME NEW n \in Stamps PROVE doc'[n] = IF n = stamp THEN document ELSE doc[n]
    BY <1>1 DEF Typed, TypeOK
<1>3. \A n \in Stamps : Superseded(n)' <=> Superseded(n)
    BY <1>1 DEF Superseded
<1>4. NamesOK'
    BY <1>1, <1>2, <1>3 DEF NamesOK
<1>5. SaverOK'
    BY <1>1, <1>2 DEF SaverOK
<1>. QED BY <1>4, <1>5

LEMMA ListStep ==
    ASSUME Typed, NamesOK, SaverOK, List
    PROVE  NamesOK' /\ SaverOK'
<1>1. /\ step = "listing" /\ step' = "pruning"
      /\ stale' = {n \in Listed : Cardinality(Newer(n)) >= Keep}
      /\ UNCHANGED <<now, doc, given, stamp, document>>
    BY DEF List
<1>2. \A n \in stale' : Superseded(n)
    BY <1>1, StaleSuperseded
<1>3. \A n \in Stamps : Superseded(n)' <=> Superseded(n)
    BY <1>1 DEF Superseded
<1>4. NamesOK'
    BY <1>1, <1>2, <1>3 DEF NamesOK
<1>5. SaverOK'
    BY <1>1 DEF SaverOK
<1>. QED BY <1>4, <1>5

(* What pruning takes is superseded, so it is not the save's own.          *)
LEMMA UnlinkStep ==
    ASSUME Typed, NamesOK, SaverOK, Unlink
    PROVE  NamesOK' /\ SaverOK'
<1>. DEFINE gone == NextStale
<1>1. gone \in stale /\ gone \in Stamps
    BY NextIsStale DEF Unlink, Typed, TypeOK
<1>2. /\ step = "pruning" /\ step' = "unlinking"
      /\ doc' = [doc EXCEPT ![gone] = Missing]
      /\ UNCHANGED <<now, given, stamp, document, stale>>
    BY DEF Unlink
<1>3. Superseded(gone)
    BY <1>1 DEF NamesOK
<1>4. stamp \in Stamps /\ \A n \in Stamps : given[n] # Missing => n <= stamp
    BY <1>2 DEF Typed, SaverOK
<1>5. gone # stamp
    BY <1>3, <1>4 DEF Superseded, Stamps
<1>. HIDE DEF gone
<1>6. ASSUME NEW n \in Stamps PROVE doc'[n] = IF n = gone THEN Missing ELSE doc[n]
    BY <1>2 DEF Typed, TypeOK
<1>7. \A n \in Stamps : Superseded(n)' <=> Superseded(n)
    BY <1>2 DEF Superseded
<1>8. NamesOK'
    BY <1>1, <1>2, <1>3, <1>6, <1>7, StoreAssumption DEF NamesOK
<1>9. SaverOK'
    BY <1>2, <1>4, <1>5, <1>6 DEF SaverOK
<1>. QED BY <1>8, <1>9

(* The steps of save() that leave documents and names alone.               *)
LEMMA QuietStep ==
    ASSUME Typed, NamesOK, SaverOK, UNCHANGED <<doc, given>>, stale' \subseteq stale,
           \/ Begin \/ Annotate \/ UnlinkMeta \/ Return \/ Fail \/ Finish
    PROVE  NamesOK' /\ SaverOK'
<1>1. now' = now
    BY DEF Begin, Annotate, UnlinkMeta, Return, Fail, Finish, Leave
<1>2. \A n \in Stamps : Superseded(n)' <=> Superseded(n)
    BY DEF Superseded
<1>3. NamesOK'
    BY <1>1, <1>2 DEF NamesOK
<1>4. CASE Begin
    BY <1>4, <1>1, <1>3 DEF Begin, NamesOK, SaverOK, Stamps, Typed, TypeOK
<1>5. CASE Annotate \/ UnlinkMeta \/ Return
    BY <1>5, <1>3 DEF Annotate, UnlinkMeta, Return, SaverOK
<1>6. CASE Fail \/ Finish
    BY <1>6, <1>3 DEF Fail, Finish, Leave, SaverOK
<1>. QED BY <1>4, <1>5, <1>6

(* Readers and the clock do not touch the store.                           *)
LEMMA AsideStep ==
    ASSUME ~ ClockSteps, Typed, NamesOK, SaverOK, UNCHANGED <<doc, saver, given>>,
           Tick \/ now' = now
    PROVE  NamesOK' /\ SaverOK'
<1>1. now \in Stamps /\ now' \in Stamps /\ now <= now'
    BY DEF Tick, Typed, TypeOK, Stamps
<1>2. \A n \in Stamps : Superseded(n)' <=> Superseded(n)
    BY DEF Superseded
<1>3. UNCHANGED <<doc, given, step, stamp, document, stale>>
    BY DEF saver
<1>4. NamesOK'
    BY <1>1, <1>2, <1>3 DEF NamesOK, Stamps
<1>5. SaverOK'
    BY <1>1, <1>3 DEF SaverOK, Typed, Stamps
<1>. QED BY <1>4, <1>5

LEMMA StoreStep ==
    ASSUME ~ ClockSteps, Typed, NamesOK, SaverOK, [Next]_vars
    PROVE  NamesOK' /\ SaverOK'
<1>1. CASE Begin \/ Annotate \/ UnlinkMeta \/ Return \/ Fail \/ Finish
    <2>1. UNCHANGED <<doc, given>> /\ stale' \subseteq stale
        BY <1>1 DEF Begin, Annotate, UnlinkMeta, Return, Fail, Finish, Leave
    <2>. QED BY <1>1, <2>1, QuietStep
<1>2. CASE (\E r \in Readers : (\E n \in Stamps : Get(r, n)) \/ Load(r) \/ Done(r))
           \/ Tick \/ UNCHANGED vars
    <2>1. UNCHANGED <<doc, saver, given>> /\ (Tick \/ now' = now)
        BY <1>2 DEF Get, Load, Done, Tick, vars, saver
    <2>. QED BY <2>1, AsideStep
<1>. QED BY <1>1, <1>2, CreateStep, WriteStep, ListStep, UnlinkStep DEF Next, Save

(* A name that has been given keeps its document.                          *)
LEMMA GivenOnce ==
    ASSUME Typed, NamesOK, SaverOK, [Next]_vars,
           NEW n \in Stamps, given[n] # Missing
    PROVE  given'[n] = given[n]
<1>1. CASE Create
    <2>1. n # stamp
        BY <1>1, NameIsFresh
    <2>. QED BY <1>1, <2>1 DEF Create, Typed, TypeOK
<1>2. CASE ~ Create
    BY <1>2 DEF Next, Save, Begin, Write, Annotate, List, Unlink, UnlinkMeta, Return, Fail, Finish,
       Leave, Get, Load, Done, Tick, saver, vars
<1>. QED BY <1>1, <1>2

LEMMA ReaderStep ==
    ASSUME Typed, NameInv, [Next]_vars, NEW r \in Readers
    PROVE  ReaderOK(r)'
<1>. USE DEF NameInv
<1>1. ASSUME reader'[r] = reader[r] PROVE ReaderOK(r)'
    BY <1>1, GivenOnce DEF ReaderOK
<1>2. ASSUME NEW n \in Stamps, Get(r, n) PROVE ReaderOK(r)'
    <2>1. reader'[r] = [at |-> "found", name |-> n, got |-> Missing, expected |-> given[n]]
        BY <1>2 DEF Get, Typed, TypeOK
    <2>2. given'[n] = given[n] /\ given[n] # Missing
        BY <1>2 DEF Get, Listed, NamesOK
    <2>. QED BY <2>1, <2>2 DEF ReaderOK
<1>3. CASE Load(r)
    <2>. DEFINE name == reader[r].name
                content == doc[name]
    <2>1. /\ reader[r].at = "found" /\ name \in Stamps
          /\ given[name] # Missing /\ reader[r].expected = given[name]
        BY <1>3 DEF Load, ReaderOK
    <2>2. given' = given
        BY <1>3 DEF Load
    <2>3. CASE content \in Documents
        <3>1. reader'[r] = [reader[r] EXCEPT !.at = "loaded", !.got = content]
            BY <1>3, <2>3 DEF Load, Typed, TypeOK
        <3>2. /\ reader'[r].at = "loaded" /\ reader'[r].got = content
              /\ reader'[r].name = name /\ reader'[r].expected = reader[r].expected
            BY <3>1 DEF Typed, TypeOK
        <3>3. content = given[name]
            BY <2>1, <2>3 DEF NamesOK
        <3>. QED BY <2>1, <2>2, <3>2, <3>3 DEF ReaderOK
    <2>4. CASE content \notin Documents
        <3>1. reader'[r].at = "failed" /\ reader'[r].got = Missing
            BY <1>3, <2>1, <2>4 DEF Load, ReaderOK, Typed, TypeOK
        <3>. QED BY <3>1 DEF ReaderOK
    <2>. QED BY <2>3, <2>4
<1>4. CASE Done(r)
    BY <1>4 DEF Done, Idle, ReaderOK, Typed, TypeOK
<1>5. ASSUME ~ (\E n \in Stamps : Get(r, n)), ~ Load(r), ~ Done(r) PROVE reader'[r] = reader[r]
    BY <1>5 DEF Next, Save, Begin, Create, Write, Annotate, List, Unlink, UnlinkMeta, Return, Fail,
       Finish, Leave, Get, Load, Done, Tick, saver, vars, Typed, TypeOK
<1>. QED BY <1>1, <1>2, <1>3, <1>4, <1>5

-----------------------------------------------------------------------------
(* The theorems.                                                           *)

LEMMA InitOK == Init => Typed /\ PruneInv /\ NameInv
<1>. SUFFICES ASSUME Init PROVE Typed /\ PruneInv /\ NameInv
    OBVIOUS
<1>1. Typed
    BY DEF Init, Idle, Typed, TypeOK, Content, SaveSteps
<1>2. PruneInv
    BY DEF Init, PruneInv
<1>3. NameInv
    BY StoreAssumption DEF Init, Idle, NameInv, NamesOK, SaverOK, ReaderOK
<1>. QED BY <1>1, <1>2, <1>3

(* Every variable has the values the code can give it.                     *)
THEOREM StoreTyping == Spec => []TypeOK
<1>1. Typed => TypeOK
    BY DEF Typed
<1>. QED BY <1>1, InitOK, TypeStep, PTL DEF Spec

(* Retention's choice stays right while it is carried out, whatever the    *)
(* clock does and wherever saves fail (_prune).                            *)
THEOREM Pruning == Spec => [](Typed /\ PruneInv)
BY InitOK, TypeStep, PruneStep, PTL DEF Spec

(* A save that returns leaves at most Keep snapshots.                      *)
THEOREM WithinLimit == Spec => []Retention
<1>1. PruneInv => Retention
    BY DEF PruneInv, Retention
<1>. QED BY <1>1, Pruning, PTL

(* No snapshot disappears that is among the Keep newest listed.            *)
THEOREM NewestSurvive == Spec => OnlyStaleDisappear
<1>1. Typed /\ PruneInv /\ [Next]_vars =>
        \A n \in Stamps :
          doc[n] # Missing /\ doc'[n] = Missing => Cardinality(Newer(n)) >= Keep
    BY TakesStale
<1>. QED BY <1>1, Pruning, PTL DEF Spec, OnlyStaleDisappear

(* With a clock that is not set back, a name means one document for ever.  *)
THEOREM NamesKeepMeaning == ~ ClockSteps => (Spec => [](Typed /\ NameInv))
<1>. SUFFICES ASSUME ~ ClockSteps PROVE Spec => [](Typed /\ NameInv)
    OBVIOUS
<1>1. Typed /\ NameInv /\ [Next]_vars => (Typed /\ NameInv)'
    BY TypeStep, StoreStep, ReaderStep DEF NameInv
<1>. QED BY <1>1, InitOK, PTL DEF Spec

(* Then what restore loads is the whole configuration that was listed.     *)
THEOREM LoadsAreWhole == ~ ClockSteps => (Spec => []LoadsWhatWasListed)
<1>. SUFFICES ASSUME ~ ClockSteps PROVE Spec => []LoadsWhatWasListed
    OBVIOUS
<1>1. NameInv => LoadsWhatWasListed
    BY DEF NameInv, ReaderOK, LoadsWhatWasListed
<1>2. Spec => [](Typed /\ NameInv)
    BY NamesKeepMeaning
<1>. QED BY <1>1, <1>2, PTL

(* And the undo link points at a snapshot that is there.                   *)
THEOREM SavedStays == ~ ClockSteps => (Spec => []SavedIsStored)
<1>. SUFFICES ASSUME ~ ClockSteps PROVE Spec => []SavedIsStored
    OBVIOUS
<1>1. NameInv => SavedIsStored
    BY DEF NameInv, SaverOK, SavedIsStored
<1>2. Spec => [](Typed /\ NameInv)
    BY NamesKeepMeaning
<1>. QED BY <1>1, <1>2, PTL


-----------------------------------------------------------------------------
(* The archive the files implement.                                        *)

IInv == Typed /\ PruneInv /\ NameInv

(* The archive counts as its module's own copy of FiniteSets does.         *)
LEMMA SameCount == \A S : Archive!Cardinality(S) = Cardinality(S)
BY DEF Archive!Cardinality, Cardinality

LEMMA InitMaps == Init => Archive!Init
<1>. SUFFICES ASSUME Init PROVE Archive!Init
    OBVIOUS
<1>1. Whole = {}
    BY StoreAssumption DEF Init, Whole
<1>2. Seen = [r \in Readers |-> Archive!Idle]
    BY DEF Init, Idle, Seen, Archive!Idle
<1>. QED BY <1>1, <1>2 DEF Init, Archive!Init, Archive!Names, Stamps

(* Steps that leave the files, the names and the readers alone.            *)
LEMMA Aside ==
    ASSUME UNCHANGED <<doc, given, reader>>
    PROVE  UNCHANGED Archive!vars
BY DEF Whole, Seen, Archive!vars

(* A created file takes its name: it is later than all others, and the     *)
(* file is not whole before or after.                                      *)
LEMMA CreateMaps ==
    ASSUME IInv, Create
    PROVE  Archive!Name(stamp, document)
<1>. USE DEF IInv, NameInv
<1>1. /\ stamp \in Stamps /\ given[stamp] = Missing
      /\ \A m \in Stamps : given[m] # Missing => m <= stamp
    BY NameIsFresh DEF Create, Typed, SaverOK
<1>2. \A m \in Archive!Given : m < stamp
    BY <1>1 DEF Archive!Given, Archive!Names, Stamps
<1>3. doc[stamp] = Missing /\ doc' = [doc EXCEPT ![stamp] = Torn]
    BY DEF Create
<1>4. Whole' = Whole
    BY <1>3, StoreAssumption DEF Whole, Typed, TypeOK
<1>. QED BY <1>2, <1>4 DEF Create, Archive!Name, Seen

(* Its last byte completes the newest name's configuration.                *)
LEMMA WriteMaps ==
    ASSUME IInv, Write
    PROVE  Archive!Complete(stamp) \/ UNCHANGED Archive!vars
<1>. USE DEF IInv, NameInv
<1>1. /\ stamp \in Stamps /\ document \in Documents /\ given[stamp] = document
      /\ \A m \in Stamps : given[m] # Missing => m <= stamp
    BY DEF Write, Typed, SaverOK
<1>2. doc' = [doc EXCEPT ![stamp] = document] /\ given' = given /\ reader' = reader
    BY DEF Write
<1>3. Whole' = Whole \cup {stamp}
    BY <1>1, <1>2 DEF Whole, Typed, TypeOK
<1>4. CASE stamp \in Whole
    BY <1>2, <1>3, <1>4 DEF Seen, Archive!vars
<1>5. CASE stamp \notin Whole
    <2>1. stamp \in Archive!Given
        BY <1>1, StoreAssumption DEF Archive!Given, Archive!Names, Stamps
    <2>2. Archive!Later(stamp) = {}
        BY <1>1 DEF Archive!Later, Archive!Given, Archive!Names, Stamps
    <2>. QED BY <1>2, <1>3, <1>5, <2>1, <2>2 DEF Archive!Complete, Seen
<1>. QED BY <1>4, <1>5

(* What pruning takes has Keep newer files, and those have later names.    *)
LEMMA UnlinkMaps ==
    ASSUME IInv, Unlink
    PROVE  Archive!Drop(NextStale) \/ UNCHANGED Archive!vars
<1>. USE DEF IInv, NameInv
<1>. DEFINE gone == NextStale
<1>1. gone \in stale /\ gone \in Stamps
    BY NextIsStale DEF Unlink, Typed, TypeOK
<1>2. doc' = [doc EXCEPT ![gone] = Missing] /\ given' = given /\ reader' = reader
    BY DEF Unlink
<1>3. Cardinality({m \in Left : m > gone}) >= Keep
    BY <1>1 DEF Unlink, PruneInv
<1>4. {m \in Left : m > gone} \subseteq Archive!Later(gone) /\ Archive!Later(gone) \in SUBSET Stamps
    BY DEF Left, Listed, NamesOK, Archive!Later, Archive!Given, Archive!Names, Stamps
<1>. HIDE DEF gone
<1>5. Cardinality(Archive!Later(gone)) >= Keep
    <2>1. Cardinality({m \in Left : m > gone}) <= Cardinality(Archive!Later(gone))
        BY <1>4, SmallerSet
    <2>2. /\ Cardinality({m \in Left : m > gone}) \in Nat
          /\ Cardinality(Archive!Later(gone)) \in Nat
        BY <1>4, FiniteStamps
    <2>. QED BY <1>3, <2>1, <2>2, StoreAssumption
<1>6. Whole' = Whole \ {gone}
    BY <1>1, <1>2, StoreAssumption DEF Whole, Typed, TypeOK
<1>7. CASE gone \in Whole
    <2>1. Archive!Drop(gone)
        BY <1>2, <1>5, <1>6, <1>7, SameCount DEF Archive!Drop, Seen
    <2>. QED BY <2>1 DEF gone
<1>8. CASE gone \notin Whole
    BY <1>2, <1>6, <1>8 DEF Seen, Archive!vars
<1>. QED BY <1>7, <1>8

(* A file that is found has a given name, and loads when it is whole, as   *)
(* what its name stands for.                                               *)
LEMMA ReaderMaps ==
    ASSUME IInv, NEW r \in Readers,
           (\E n \in Stamps : Get(r, n)) \/ Load(r) \/ Done(r)
    PROVE  Archive!Next
<1>. USE DEF IInv, NameInv
<1>1. UNCHANGED <<doc, given>>
    BY DEF Get, Load, Done
<1>2. given' = given /\ Whole' = Whole
    BY <1>1 DEF Whole
<1>3. ASSUME NEW at, NEW name, NEW got,
             \A q \in Readers : q # r => reader'[q] = reader[q],
             reader'[r].at = at, reader'[r].name = name, reader'[r].got = got
      PROVE  Seen' = [Seen EXCEPT ![r] = [at |-> at, name |-> name, got |-> got]]
    BY <1>3 DEF Seen
<1>0. \A q \in Readers : q # r => reader'[q] = reader[q]
    BY DEF Get, Load, Done, Typed, TypeOK
<1>4. ASSUME NEW n \in Stamps, Get(r, n) PROVE Archive!Find(r, n)
    <2>1. n \in Archive!Given /\ Seen[r].at = "idle"
        BY <1>4 DEF Get, Listed, NamesOK, Seen, Archive!Given, Archive!Names, Stamps
    <2>2. Seen' = [Seen EXCEPT ![r] = [at |-> "found", name |-> n, got |-> Missing]]
        <3>1. /\ reader'[r].at = "found" /\ reader'[r].name = n /\ reader'[r].got = Missing
            BY <1>4 DEF Get, Typed, TypeOK
        <3>. QED BY <1>0, <1>3, <3>1
    <2>. QED BY <1>2, <2>1, <2>2 DEF Archive!Find
<1>5. CASE Load(r)
    <2>. DEFINE n == reader[r].name
    <2>1. /\ reader[r].at = "found" /\ n \in Stamps
          /\ Seen[r] = [at |-> "found", name |-> n, got |-> reader[r].got]
        BY <1>5 DEF Load, ReaderOK, Seen
    <2>2. CASE doc[n] \in Documents
        <3>1. reader'[r].at = "loaded" /\ reader'[r].name = n /\ reader'[r].got = doc[n]
            BY <1>5, <2>2 DEF Load, Typed, TypeOK
        <3>2. doc[n] = given[n] /\ n \in Whole
            BY <2>1, <2>2 DEF NamesOK, Whole
        <3>3. Seen' = [Seen EXCEPT ![r] = [at |-> "loaded", name |-> n, got |-> given[n]]]
            BY <1>0, <1>3, <3>1, <3>2
        <3>4. /\ Seen[r].at = "found" /\ Seen[r].name = n
              /\ (IF n \in Whole THEN [at |-> "loaded", name |-> n, got |-> given[n]]
                  ELSE [at |-> "failed", name |-> n, got |-> Missing])
                 = [at |-> "loaded", name |-> n, got |-> given[n]]
            BY <2>1, <3>2
        <3>5. Archive!Load(r)
            BY <1>2, <3>3, <3>4, Zenon DEF Archive!Load
        <3>. QED BY <3>5 DEF Archive!Next
    <2>3. CASE doc[n] \notin Documents
        <3>1. reader'[r].at = "failed" /\ reader'[r].name = n /\ reader'[r].got = Missing
            BY <1>5, <2>1, <2>3 DEF Load, ReaderOK, Typed, TypeOK
        <3>2. n \notin Whole
            BY <2>3 DEF Whole
        <3>3. Seen' = [Seen EXCEPT ![r] = [at |-> "failed", name |-> n, got |-> Missing]]
            BY <1>0, <1>3, <3>1
        <3>4. Archive!Load(r)
            BY <1>2, <2>1, <3>2, <3>3 DEF Archive!Load
        <3>. QED BY <3>4 DEF Archive!Next
    <2>. QED BY <2>2, <2>3
<1>6. CASE Done(r)
    <2>1. Seen[r].at \in {"loaded", "failed"}
        BY <1>6 DEF Done, Seen
    <2>2. Seen' = [Seen EXCEPT ![r] = Archive!Idle]
        <3>1. reader'[r].at = "idle" /\ reader'[r].name = 0 /\ reader'[r].got = Missing
            BY <1>6 DEF Done, Idle, Typed, TypeOK
        <3>. QED BY <1>0, <1>3, <3>1 DEF Archive!Idle
    <2>. QED BY <1>2, <2>1, <2>2 DEF Archive!Done, Archive!Next
<1>. QED BY <1>4, <1>5, <1>6 DEF Archive!Next, Archive!Names, Stamps

LEMMA StepMaps ==
    ASSUME IInv, [Next]_vars
    PROVE  [Archive!Next]_(Archive!vars)
<1>1. CASE Create
    <2>1. stamp \in Archive!Names /\ document \in Documents
        BY <1>1 DEF Create, IInv, Typed, Archive!Names, Stamps
    <2>. QED BY <1>1, <2>1, CreateMaps DEF Archive!Next
<1>2. CASE Write
    <2>1. stamp \in Archive!Names
        BY <1>2 DEF Write, IInv, Typed, Archive!Names, Stamps
    <2>. QED BY <1>2, <2>1, WriteMaps DEF Archive!Next
<1>3. CASE Unlink
    <2>1. NextStale \in Archive!Names
        BY <1>3, NextIsStale DEF Unlink, IInv, Typed, TypeOK, Archive!Names, Stamps
    <2>. QED BY <1>3, <2>1, UnlinkMaps DEF Archive!Next
<1>4. ASSUME NEW r \in Readers, (\E n \in Stamps : Get(r, n)) \/ Load(r) \/ Done(r)
      PROVE  Archive!Next
    BY <1>4, ReaderMaps
<1>5. CASE Begin \/ Annotate \/ List \/ UnlinkMeta \/ Return \/ Fail \/ Finish \/ Tick \/ UNCHANGED vars
    <2>1. UNCHANGED <<doc, given, reader>>
        BY <1>5 DEF Begin, Annotate, List, UnlinkMeta, Return, Fail, Finish, Leave, Tick, saver, vars
    <2>. QED BY <2>1, Aside
<1>. QED BY <1>1, <1>2, <1>3, <1>4, <1>5 DEF Next, Save

(* Lock-free readers of the files see an archive whose names keep their    *)
(* meaning, whose configurations are whole, and whose Keep latest names    *)
(* stay (save, _prune, list, get and load), if the clock is not set back.  *)
THEOREM StoreImplementsArchive == ~ ClockSteps => (Spec => ImplementsArchive)
<1>. SUFFICES ASSUME ~ ClockSteps PROVE Spec => ImplementsArchive
    OBVIOUS
<1>1. Spec => []IInv
    <2>1. Spec => [](Typed /\ PruneInv)
        BY Pruning
    <2>2. Spec => [](Typed /\ NameInv)
        BY NamesKeepMeaning
    <2>. QED BY <2>1, <2>2, PTL DEF IInv
<1>. QED BY <1>1, InitMaps, StepMaps, PTL DEF Spec, ImplementsArchive, Archive!Spec
=============================================================================
