------------------------- MODULE BatchDelete_proofs -------------------------
(***************************************************************************)
(* BatchDelete for any list of items, any bucket, any page size and any    *)
(* number of workers: types, that only objects of the list are deleted,    *)
(* that a reported success means that the objects are gone, and that every *)
(* item is answered at most once (the safety part of ItemResults).         *)
(***************************************************************************)
EXTENDS BatchDelete, FiniteSetTheorems, WellFoundedInduction, TLAPS

-----------------------------------------------------------------------------
(* The inductive invariant, item by item.                                  *)

\* Directories and files go through different steps.
Fits(i) ==
  /\ step[i] \in {"listing", "deleting"} => Target[i] \in Directories
  /\ step[i] \in {"waiting", "working", "replied"} => Target[i] \in Objects
  /\ step[i] = "queued" =>
       at[i] = None /\ todo[i] = {} /\ visited[i] = {} /\ found[i] = {}

\* The walk and the found objects of an item stay inside the item.
Inside(i) ==
  /\ \A d \in todo[i] \cup visited[i] : Covers(i, d)
  /\ \A o \in found[i] : Covers(i, o)

Parent(d) == SubSeq(d, 1, Len(d) - 1)

\* Levels are opened once, after the level they were found on was finished.
InOrder(i) ==
  /\ todo[i] \cap visited[i] = {}
  /\ at[i] # None => at[i] \in visited[i]
  /\ \A d \in todo[i] \cup visited[i] : d = Target[i] \/ Parent(d) \in visited[i]
  /\ \A d \in visited[i] : d = Target[i] \/ Parent(d) # at[i]

WalkInv(i) == Fits(i) /\ Inside(i) /\ InOrder(i)

\* Object o is found, on a level still to list, or behind the marker.
Tracked(i, o) ==
  \/ o \in found[i]
  \/ \E d \in todo[i] : Under(d, o)
  \/ at[i] # None /\ Under(at[i], o) /\ o[Len(at[i]) + 1] > marker[i]

\* What was there from the start is tracked until it is deleted, and gone when
\* success is reported.
NothingSkipped(i) ==
  /\ step[i] = "listing" =>
       \A o \in store \ fresh : Under(Target[i], o) => Tracked(i, o)
  /\ step[i] = "deleting" /\ reasons[i] = {} =>
       \A o \in store \ fresh : Under(Target[i], o) => o \in found[i]
  /\ step[i] = "replied" /\ reasons[i] = {} => Target[i] \notin store \ fresh
  /\ result[i] # None /\ result[i].success => \A o \in store \ fresh : ~Covers(i, o)

DeleteInv == \A i \in Items : WalkInv(i) /\ NothingSkipped(i)

-----------------------------------------------------------------------------
(* Paths.                                                                  *)

LEMMA PathType == \A d \in Objects \cup Directories :
  d \in Seq(Nat \ {0}) /\ Len(d) \in Nat
  BY PathsAssumption DEF Paths

LEMMA ItemType == ASSUME NEW i \in Items PROVE Target[i] \in Objects \cup Directories
  BY ItemsAssumption

LEMMA ParentOfChild ==
  ASSUME NEW d \in Directories, NEW n \in Nat \ {0}
  PROVE  /\ Append(d, n) \in Seq(Nat \ {0})
         /\ Len(Append(d, n)) = Len(d) + 1
         /\ Parent(Append(d, n)) = d
<1>1. d \in Seq(Nat \ {0}) /\ Len(d) \in Nat
  BY PathType
<1>2. Append(d, n) \in Seq(Nat \ {0}) /\ Len(Append(d, n)) = Len(d) + 1
  BY <1>1
<1>3. Parent(Append(d, n)) = SubSeq(Append(d, n), 1, Len(d))
  BY <1>1, <1>2 DEF Parent
<1>4. SubSeq(Append(d, n), 1, Len(d)) \in Seq(Nat \ {0})
      /\ Len(SubSeq(Append(d, n), 1, Len(d))) = Len(d)
  BY <1>1, <1>2
<1>5. \A k \in 1..Len(d) : SubSeq(Append(d, n), 1, Len(d))[k] = d[k]
  BY <1>1, <1>2
<1> QED
  BY <1>1, <1>2, <1>3, <1>4, <1>5

\* What lies below a directory lies below its parents too.
LEMMA UnderAppend ==
  ASSUME NEW t \in Directories, NEW d \in Directories, NEW n \in Nat \ {0},
         d = t \/ Under(t, d)
  PROVE  Under(t, Append(d, n))
  BY PathType DEF Under

\* A name on a level is an object of that level or a directory above objects.
LEMMA ChildIsPath ==
  ASSUME NEW d \in Directories, NEW o \in Objects, Under(d, o)
  PROVE  LET n == o[Len(d) + 1]
         IN  /\ n \in Nat \ {0}
             /\ \/ Append(d, n) = o
                \/ Append(d, n) \in Directories /\ Under(Append(d, n), o)
<1> DEFINE n == o[Len(d) + 1]
           c == Append(d, n)
<1>1. /\ d \in Seq(Nat \ {0}) /\ Len(d) \in Nat
      /\ o \in Seq(Nat \ {0}) /\ Len(o) \in Nat /\ Len(d) < Len(o)
      /\ \A k \in 1..Len(d) : o[k] = d[k]
  BY PathType DEF Under
<1>2. n \in Nat \ {0}
  BY <1>1
<1>3. c \in Seq(Nat \ {0}) /\ Len(c) = Len(d) + 1 /\ \A k \in 1..Len(c) : c[k] = o[k]
  BY <1>1, <1>2
<1>4. CASE Len(o) = Len(c)
  <2>1. c = o
    BY <1>1, <1>3, <1>4
  <2> QED
    BY <1>2, <2>1
<1>5. CASE Len(o) > Len(c)
  <2>1. SubSeq(o, 1, Len(c)) \in Directories
    BY <1>1, <1>3, <1>5, PathsAssumption
  <2>2. SubSeq(o, 1, Len(c)) = c
    <3>1. /\ SubSeq(o, 1, Len(c)) \in Seq(Nat \ {0})
          /\ Len(SubSeq(o, 1, Len(c))) = Len(c)
          /\ \A k \in 1..Len(c) : SubSeq(o, 1, Len(c))[k] = o[k]
      BY <1>1, <1>3, <1>5
    <3> QED
      BY <1>3, <3>1
  <2>3. Under(c, o)
    BY <1>3, <1>5 DEF Under
  <2> QED
    BY <1>2, <2>1, <2>2, <2>3
<1> QED
  BY <1>1, <1>3, <1>4, <1>5

\* No object lies below an object.
LEMMA ObjectsAreLeaves ==
  ASSUME NEW o \in Objects, NEW x \in Objects PROVE ~Under(o, x)
<1> SUFFICES ASSUME Under(o, x) PROVE FALSE
  OBVIOUS
<1>1. /\ o \in Seq(Nat \ {0}) /\ Len(o) \in Nat
      /\ x \in Seq(Nat \ {0}) /\ Len(x) \in Nat /\ Len(o) < Len(x)
      /\ \A k \in 1..Len(o) : x[k] = o[k]
  BY PathType DEF Under
<1>2. /\ SubSeq(x, 1, Len(o)) \in Seq(Nat \ {0})
      /\ Len(SubSeq(x, 1, Len(o))) = Len(o)
      /\ \A k \in 1..Len(o) : SubSeq(x, 1, Len(o))[k] = x[k]
  BY <1>1
<1>3. SubSeq(x, 1, Len(o)) = o
  BY <1>1, <1>2
<1>4. Len(o) \in 1..Len(x) - 1
  <2>1. o # <<>>
    BY PathsAssumption
  <2> QED
    BY <1>1, <2>1
<1>5. o \in Directories
  BY <1>3, <1>4, PathsAssumption
<1> QED
  BY <1>5, PathsAssumption

-----------------------------------------------------------------------------
(* Pages.                                                                  *)

\* Among finite subsets of a set there is one with no other inside it.
LEMMA MinimalSubset ==
  ASSUME NEW S, NEW T, T \subseteq FiniteSubsetsOf(S), T # {}
  PROVE  \E x \in T : \A y \in T : y \subseteq x => y = x
<1>1. IsWellFoundedOn(StrictSubsetOrdering(S), FiniteSubsetsOf(S))
  BY FS_StrictSubsetOrderingWellFounded
<1>2. PICK x \in T : \A y \in T : ~(<<y, x>> \in StrictSubsetOrdering(S))
  BY <1>1, WFMin
<1>3. ASSUME NEW y \in T, y \subseteq x, y # x PROVE FALSE
  <2>1. <<y, x>> \in (SUBSET S) \X (SUBSET S)
    BY DEF FiniteSubsetsOf
  <2>2. <<y, x>> \in StrictSubsetOrdering(S)
    BY <1>3, <2>1 DEF StrictSubsetOrdering
  <2> QED
    BY <1>2, <2>2
<1> QED
  BY <1>3

LEMMA FiniteMinimum ==
  ASSUME NEW S, S \subseteq Nat, IsFiniteSet(S), S # {}
  PROVE  \E n \in S : \A k \in S : n <= k
<1> DEFINE Below(n) == {k \in S : k < n}
           T == {Below(n) : n \in S}
<1>1. T \subseteq FiniteSubsetsOf(S) /\ T # {}
  <2>1. \A n \in S : Below(n) \in SUBSET S
    OBVIOUS
  <2>2. \A n \in S : IsFiniteSet(Below(n))
    BY <2>1, FS_Subset
  <2>3. \A n \in S : Below(n) \in FiniteSubsetsOf(S)
    BY <2>1, <2>2 DEF FiniteSubsetsOf
  <2> QED
    BY <2>3
<1>2. PICK n \in S : \A k \in S : Below(k) \subseteq Below(n) => Below(k) = Below(n)
  <2>1. \A k \in S : Below(k) \in T
    OBVIOUS
  <2>2. \A x \in T : \E n \in S : x = Below(n)
    OBVIOUS
  <2> HIDE DEF T
  <2>3. PICK x \in T : \A y \in T : y \subseteq x => y = x
    BY <1>1, MinimalSubset
  <2>4. PICK n \in S : x = Below(n)
    BY <2>2
  <2> HIDE DEF Below
  <2>5. \A k \in S : Below(k) \subseteq Below(n) => Below(k) = Below(n)
    BY <2>1, <2>3, <2>4
  <2> QED
    BY <2>5
<1>4. ASSUME NEW k \in S, k < n PROVE FALSE
  <2>1. k \in Nat /\ n \in Nat /\ \A j \in S : j \in Nat
    OBVIOUS
  <2>2. \A j \in S : j < k => j < n
    BY <1>4, <2>1
  <2>3. k \in Below(n) /\ k \notin Below(k)
    BY <1>4, <2>1
  <2>4. Below(k) \subseteq Below(n)
    BY <2>2
  <2> QED
    BY <1>2, <2>3, <2>4
<1> QED
  BY <1>4

LEMMA FiniteMaximum ==
  ASSUME NEW S, S \subseteq Nat, IsFiniteSet(S), S # {}
  PROVE  Maximum(S) \in S /\ \A k \in S : k <= Maximum(S)
<1> DEFINE Above(n) == {k \in S : k > n}
           T == {Above(n) : n \in S}
<1>1. T \subseteq FiniteSubsetsOf(S) /\ T # {}
  <2>1. \A n \in S : Above(n) \in SUBSET S
    OBVIOUS
  <2>2. \A n \in S : IsFiniteSet(Above(n))
    BY <2>1, FS_Subset
  <2>3. \A n \in S : Above(n) \in FiniteSubsetsOf(S)
    BY <2>1, <2>2 DEF FiniteSubsetsOf
  <2> QED
    BY <2>3
<1>2. PICK n \in S : \A k \in S : Above(k) \subseteq Above(n) => Above(k) = Above(n)
  <2>1. \A k \in S : Above(k) \in T
    OBVIOUS
  <2>2. \A x \in T : \E n \in S : x = Above(n)
    OBVIOUS
  <2> HIDE DEF T
  <2>3. PICK x \in T : \A y \in T : y \subseteq x => y = x
    BY <1>1, MinimalSubset
  <2>4. PICK n \in S : x = Above(n)
    BY <2>2
  <2> HIDE DEF Above
  <2>5. \A k \in S : Above(k) \subseteq Above(n) => Above(k) = Above(n)
    BY <2>1, <2>3, <2>4
  <2> QED
    BY <2>5
<1>4. ASSUME NEW k \in S, k > n PROVE FALSE
  <2>1. k \in Nat /\ n \in Nat /\ \A j \in S : j \in Nat
    OBVIOUS
  <2>2. \A j \in S : j > k => j > n
    BY <1>4, <2>1
  <2>3. k \in Above(n) /\ k \notin Above(k)
    BY <1>4, <2>1
  <2>4. Above(k) \subseteq Above(n)
    BY <2>2
  <2> QED
    BY <1>2, <2>3, <2>4
<1>5. \A k \in S : k <= n
  BY <1>4
<1> QED
  BY <1>5 DEF Maximum

LEMMA NamesFinite ==
  ASSUME TypeOK, NEW d \in Directories
  PROVE  IsFiniteSet(Names(d)) /\ Names(d) \subseteq Nat \ {0}
<1> DEFINE S == {x \in store : Under(d, x)}
           f == [x \in S |-> x[Len(d) + 1]]
<1>1. IsFiniteSet(S)
  BY PathsAssumption, FS_Subset DEF TypeOK
<1>2. Names(d) = {x[Len(d) + 1] : x \in S}
  BY DEF Names
<1>3. f \in Surjection(S, Names(d))
  BY <1>2 DEF Surjection
<1>4. IsFiniteSet(Names(d))
  BY <1>1, <1>3, FS_Surjection
<1>5. Names(d) \subseteq Nat \ {0}
  BY <1>2, ChildIsPath DEF TypeOK
<1> QED
  BY <1>4, <1>5

\* A page that is not full misses nothing behind the marker; what a full page
\* misses comes after all of it.
LEMMA PageComplete ==
  ASSUME TypeOK, NEW d \in Directories, NEW m \in Nat,
         NEW n \in Names(d), n > m, n \notin Page(d, m)
  PROVE  /\ ~(Cardinality(Page(d, m)) < MaxKeys)
         /\ \A p \in Page(d, m) : p < n
<1> DEFINE Before(x) == {k \in Names(d) : m < k /\ k < x}
           missed == {x \in Names(d) : x > m /\ x \notin Page(d, m)}
<1>1. IsFiniteSet(Names(d)) /\ Names(d) \subseteq Nat \ {0} /\ MaxKeys \in Nat \ {0}
  BY NamesFinite, BoundsAssumption
<1>2. \A x \in Nat : IsFiniteSet(Before(x)) /\ Cardinality(Before(x)) \in Nat
  BY <1>1, FS_Subset, FS_CardinalityType
<1>3. Page(d, m) = {x \in Names(d) : x > m /\ Cardinality(Before(x)) < MaxKeys}
  BY DEF Page
<1>4. ~(Cardinality(Page(d, m)) < MaxKeys)
  <2>1. PICK x \in missed : \A y \in missed : x <= y
    <3>1. missed \subseteq Nat /\ IsFiniteSet(missed) /\ missed # {}
      BY <1>1, FS_Subset
    <3> QED
      BY <3>1, FiniteMinimum
  <2>2. Before(x) \subseteq Page(d, m)
    BY <1>1, <2>1
  <2>3. IsFiniteSet(Page(d, m)) /\ Cardinality(Page(d, m)) \in Nat
    BY <1>1, <1>3, FS_Subset, FS_CardinalityType
  <2>4. Cardinality(Before(x)) <= Cardinality(Page(d, m))
    BY <2>2, <2>3, FS_Subset
  <2>5. ~(Cardinality(Before(x)) < MaxKeys)
    BY <1>3, <2>1
  <2> QED
    BY <1>1, <1>2, <2>3, <2>4, <2>5
<1>5. ASSUME NEW p \in Page(d, m) PROVE p < n
  <2>1. p \in Nat /\ n \in Nat /\ p # n /\ Cardinality(Before(p)) < MaxKeys
        /\ ~(Cardinality(Before(n)) < MaxKeys)
    BY <1>1, <1>3
  <2>2. CASE n < p
    <3>1. Before(n) \subseteq Before(p)
      BY <1>1, <2>1, <2>2
    <3>2. Cardinality(Before(n)) <= Cardinality(Before(p))
      BY <1>2, <2>1, <3>1, FS_Subset
    <3> QED
      BY <1>1, <1>2, <2>1, <3>2
  <2> QED
    BY <2>1, <2>2
<1> QED
  BY <1>4, <1>5

\* The next marker is an entry of the page.
LEMMA MarkerOnPage ==
  ASSUME TypeOK, NEW d \in Directories, NEW m \in Nat, NEW files,
         files \subseteq Page(d, m), Page(d, m) # {}
  PROVE  NextMarker(files, Page(d, m) \ files) \in Page(d, m)
<1>1. IsFiniteSet(Page(d, m)) /\ Page(d, m) \subseteq Nat
  BY NamesFinite, FS_Subset DEF Page
<1>2. \A S \in SUBSET Page(d, m) : S # {} => Maximum(S) \in S
  BY <1>1, FS_Subset, FiniteMaximum
<1> QED
  BY <1>2 DEF NextMarker

-----------------------------------------------------------------------------
(* Types.                                                                  *)

LEMMA CodesKnown ==
  /\ {"none", "delete_request_canceled", "delete_request_timeout",
      "provider_operation_failed", "invalid_bucket_credential",
      "storage_object_not_found"} \subseteq Codes
  /\ {"canceled", "timeout", "rejected", "missing", "failed"} = Outcomes
<1>1. /\ DeleteCode("canceled") = "delete_request_canceled"
      /\ DeleteCode("timeout") = "delete_request_timeout"
      /\ DeleteCode("rejected") = "invalid_bucket_credential"
      /\ DeleteCode("missing") = "storage_object_not_found"
      /\ DeleteCode("failed") = "provider_operation_failed"
  BY DEF DeleteCode, FileCode
<1>2. \A o \in Outcomes : DeleteCode(o) \in Codes
  BY DEF Codes
<1> QED
  BY <1>1, <1>2 DEF Codes, Outcomes

LEMMA ResultType ==
  /\ Success \in Results
  /\ \A o \in Outcomes :
       Failure(DeleteCode(o), {o}) \in Results /\ Failure(FileCode(o), {o}) \in Results
  /\ \A R \in SUBSET Outcomes : Failure(DirectoryCode(R), R) \in Results
<1>1. \A o \in Outcomes : DeleteCode(o) \in Codes /\ FileCode(o) \in Codes
  BY CodesKnown DEF Codes, FileCode
<1>2. \A R \in SUBSET Outcomes : DirectoryCode(R) \in Codes
  BY CodesKnown DEF DirectoryCode
<1>3. "none" \in Codes
  BY CodesKnown
<1> QED
  BY <1>1, <1>2, <1>3 DEF Results, Success, Failure

LEMMA PossibleType == Possible \subseteq Outcomes
  BY EnvironmentAssumption DEF Possible

LEMMA AnswerType ==
  ASSUME TypeOK, NEW i \in Items, NEW entry \in Results, Answer(i, entry)
  PROVE  /\ result' \in [Items -> Results \cup {None}]
         /\ step' \in [Items -> Steps]
         /\ found' \in [Items -> SUBSET Objects]
         /\ at' \in [Items -> Directories \cup {None}]
         /\ todo' \in [Items -> SUBSET Directories]
  BY DEF TypeOK, Answer, Steps

\* A page holds objects and directories of its level.
LEMMA PageType ==
  ASSUME TypeOK, NEW d \in Directories, NEW m \in Nat, NEW n \in Page(d, m)
  PROVE  n \in Nat \ {0} /\ Append(d, n) \in Objects \cup Directories
<1>1. PICK o \in store : Under(d, o) /\ n = o[Len(d) + 1]
  BY DEF Page, Names
<1> QED
  BY <1>1, ChildIsPath DEF TypeOK

LEMMA TypeInit == Init => TypeOK
<1> SUFFICES ASSUME Init PROVE TypeOK
  OBVIOUS
<1>1. /\ store \subseteq Objects /\ fresh \subseteq Objects
      /\ context \in {"live", "canceled", "timeout"} /\ returned \in BOOLEAN
  BY DEF Init
<1>2. /\ step \in [Items -> Steps]
      /\ at \in [Items -> Directories \cup {None}]
      /\ marker \in [Items -> Nat]
      /\ result \in [Items -> Results \cup {None}]
  BY DEF Init, Steps
<1>3. /\ todo \in [Items -> SUBSET Directories]
      /\ visited \in [Items -> SUBSET Directories]
      /\ found \in [Items -> SUBSET Objects]
      /\ reasons \in [Items -> SUBSET Outcomes]
  BY DEF Init
<1> QED
  BY <1>1, <1>2, <1>3 DEF TypeOK

LEMMA TypeStep == TypeOK /\ [Next]_vars => TypeOK'
<1> SUFFICES ASSUME TypeOK, [Next]_vars PROVE TypeOK'
  OBVIOUS
<1> USE DEF TypeOK, walkVars
<1>1. ASSUME NEW i \in Items, TakeItem(i) PROVE TypeOK'
  BY <1>1, ItemType DEF TakeItem, Steps, IsDirectory
<1>2. ASSUME NEW i \in Items, OpenLevel(i) PROVE TypeOK'
  BY <1>2 DEF OpenLevel
<1>3. ASSUME NEW i \in Items, ListPage(i) PROVE TypeOK'
  <2> DEFINE d == at[i]
             page == Page(d, marker[i])
             files == {n \in page : Append(d, n) \in Objects}
  <2>1. d \in Directories /\ marker[i] \in Nat
    BY <1>3 DEF ListPage
  <2>2. \A n \in page : n \in Nat /\ Append(d, n) \in Objects \cup Directories
    BY <2>1, PageType
  <2>3. ~(Cardinality(page) < MaxKeys) => page # {}
    BY FS_EmptySet, BoundsAssumption
  <2>4. ~(Cardinality(page) < MaxKeys) => NextMarker(files, page \ files) \in Nat
    BY <2>1, <2>2, <2>3, MarkerOnPage
  <2> HIDE DEF page
  <2>5. /\ found' = [found EXCEPT ![i] = @ \cup {Append(d, n) : n \in files}]
        /\ todo' = [todo EXCEPT ![i] = @ \cup {Append(d, n) : n \in page \ files}]
        /\ \/ at' = [at EXCEPT ![i] = None] /\ marker' = [marker EXCEPT ![i] = 0]
           \/ /\ ~(Cardinality(page) < MaxKeys)
              /\ marker' = [marker EXCEPT ![i] = NextMarker(files, page \ files)]
              /\ at' = at
        /\ UNCHANGED <<store, fresh, context, step, visited, reasons, result, returned>>
    BY <1>3 DEF ListPage, page
  <2>6. {Append(d, n) : n \in files} \subseteq Objects
        /\ {Append(d, n) : n \in page \ files} \subseteq Directories
    BY <2>2
  <2>7. found' \in [Items -> SUBSET Objects] /\ todo' \in [Items -> SUBSET Directories]
    BY <2>5, <2>6
  <2>8. at' \in [Items -> Directories \cup {None}]
    BY <2>5
  <2>9. marker' \in [Items -> Nat]
    <3> DEFINE m == NextMarker(files, page \ files)
    <3>1. \/ marker' = [marker EXCEPT ![i] = 0]
          \/ m \in Nat /\ marker' = [marker EXCEPT ![i] = m]
      BY <2>4, <2>5
    <3> HIDE DEF m
    <3> QED
      BY <3>1
  <2> QED
    BY <2>5, <2>7, <2>8, <2>9
<1>4. ASSUME NEW i \in Items, FailListing(i) PROVE TypeOK'
  <2>1. PICK outcome \in Possible : Answer(i, Failure(DeleteCode(outcome), {outcome}))
    BY <1>4 DEF FailListing
  <2>2. Failure(DeleteCode(outcome), {outcome}) \in Results
    BY <2>1, PossibleType, ResultType
  <2> QED
    BY <1>4, <2>1, <2>2, AnswerType DEF FailListing
<1>5. ASSUME NEW i \in Items, EndListing(i) PROVE TypeOK'
  BY <1>5 DEF EndListing, Steps
<1>6. ASSUME NEW i \in Items, NEW o \in Objects, DeleteFound(i, o) PROVE TypeOK'
  BY <1>6, PossibleType DEF DeleteFound, Delete
<1>7. ASSUME NEW i \in Items, AnswerDirectory(i) PROVE TypeOK'
  <2>1. PICK entry \in Results : Answer(i, entry)
    BY <1>7, ResultType DEF AnswerDirectory
  <2> QED
    BY <1>7, <2>1, AnswerType DEF AnswerDirectory
<1>8. ASSUME NEW i \in Items, TakeFile(i) PROVE TypeOK'
  BY <1>8 DEF TakeFile, Steps
<1>9. ASSUME NEW i \in Items, DeleteFile(i) PROVE TypeOK'
  BY <1>9, PossibleType DEF DeleteFile, Delete, Steps
<1>10. ASSUME NEW i \in Items, AnswerFile(i) PROVE TypeOK'
  <2>1. PICK entry \in Results : Answer(i, entry)
    BY <1>10, ResultType DEF AnswerFile
  <2> QED
    BY <1>10, <2>1, AnswerType DEF AnswerFile
<1>11. ASSUME Return PROVE TypeOK'
  BY <1>11 DEF Return
<1>12. ASSUME EndContext PROVE TypeOK'
  BY <1>12 DEF EndContext
<1>13. ASSUME NEW o \in Objects, Upload(o) PROVE TypeOK'
  BY <1>13 DEF Upload
<1>14. CASE UNCHANGED vars
  BY <1>14 DEF vars
<1> QED
  BY <1>1, <1>2, <1>3, <1>4, <1>5, <1>6, <1>7, <1>8, <1>9, <1>10, <1>11, <1>12,
     <1>13, <1>14 DEF Next, CallStep, DirectoryStep, FileStep

\* Every variable keeps its type, for any list and bucket.
THEOREM TypeCorrect == Spec => []TypeOK
  BY TypeInit, TypeStep, PTL DEF Spec

-----------------------------------------------------------------------------
(* Steps of one item and the invariant of another.                         *)

itemVars(j) == <<step[j], at[j], marker[j], todo[j], visited[j], found[j], reasons[j], result[j]>>

LEMMA Undisturbed ==
  ASSUME NEW j \in Items, WalkInv(j), NothingSkipped(j),
         itemVars(j)' = itemVars(j), store' \ fresh' \subseteq store \ fresh
  PROVE  WalkInv(j)' /\ NothingSkipped(j)'
<1>1. Fits(j)' /\ Inside(j)' /\ InOrder(j)'
  BY DEF WalkInv, Fits, Inside, InOrder, itemVars, Covers
<1>2. \A o : Tracked(j, o)' <=> Tracked(j, o)
  BY DEF Tracked, itemVars
<1> QED
  BY <1>1, <1>2 DEF WalkInv, NothingSkipped, itemVars, Covers

\* A step of one item leaves the others alone; objects only go.
LEMMA StepFrame ==
  ASSUME TypeOK, NEW i \in Items, CallStep(i)
  PROVE  /\ \A j \in Items \ {i} : itemVars(j)' = itemVars(j)
         /\ store' \subseteq store /\ fresh' = fresh
<1> USE DEF TypeOK, walkVars, itemVars
<1>1. CASE TakeItem(i)
  BY <1>1 DEF TakeItem
<1>2. CASE OpenLevel(i)
  BY <1>2 DEF OpenLevel
<1>3. CASE ListPage(i)
  BY <1>3 DEF ListPage
<1>4. CASE FailListing(i)
  BY <1>4 DEF FailListing, Answer
<1>5. CASE EndListing(i)
  BY <1>5 DEF EndListing
<1>6. CASE \E o \in Objects : DeleteFound(i, o)
  BY <1>6 DEF DeleteFound, Delete
<1>7. CASE AnswerDirectory(i)
  BY <1>7 DEF AnswerDirectory, Answer
<1>8. CASE FileStep(i)
  BY <1>8 DEF FileStep, TakeFile, DeleteFile, AnswerFile, Answer, Delete
<1> QED
  BY <1>1, <1>2, <1>3, <1>4, <1>5, <1>6, <1>7, <1>8 DEF CallStep, DirectoryStep

\* What a page adds.
LEMMA PageListed ==
  ASSUME TypeOK, NEW i \in Items, ListPage(i)
  PROVE  LET d == at[i]
             page == Page(d, marker[i])
         IN  /\ d \in Directories /\ step[i] = "listing" /\ step' = step
             /\ found'[i] = found[i] \cup {Append(d, n) : n \in {x \in page : Append(d, x) \in Objects}}
             /\ todo'[i] = todo[i] \cup {Append(d, n) : n \in {x \in page : Append(d, x) \notin Objects}}
             /\ \A n \in page : n \in Nat \ {0} /\ Append(d, n) \in Objects \cup Directories
             /\ \/ at'[i] = None /\ Cardinality(page) < MaxKeys
                \/ at'[i] = d /\ marker'[i] \in page
             /\ UNCHANGED <<store, fresh, visited, reasons, result>>
<1> DEFINE d == at[i]
           page == Page(d, marker[i])
           files == {n \in page : Append(d, n) \in Objects}
           nested == {n \in page : Append(d, n) \notin Objects}
<1> USE DEF TypeOK
<1>1. d \in Directories /\ marker[i] \in Nat /\ step[i] = "listing"
      /\ UNCHANGED <<store, fresh, step, visited, reasons, result>>
  BY DEF ListPage
<1>2. \A n \in page : n \in Nat \ {0} /\ Append(d, n) \in Objects \cup Directories
  BY <1>1, PageType
<1>3. page \ files = nested
  OBVIOUS
<1>4. /\ found' = [found EXCEPT ![i] = @ \cup {Append(d, n) : n \in files}]
      /\ todo' = [todo EXCEPT ![i] = @ \cup {Append(d, n) : n \in nested}]
      /\ IF Cardinality(page) < MaxKeys
         THEN at' = [at EXCEPT ![i] = None]
         ELSE marker' = [marker EXCEPT ![i] = NextMarker(files, nested)] /\ at' = at
  BY <1>3 DEF ListPage
<1>5. ~(Cardinality(page) < MaxKeys) => NextMarker(files, nested) \in page
  <2>1. ~(Cardinality(page) < MaxKeys) => page # {}
    BY FS_EmptySet, BoundsAssumption
  <2> QED
    BY <1>1, <1>3, <2>1, MarkerOnPage
<1>6. \/ at'[i] = None /\ Cardinality(page) < MaxKeys
      \/ at'[i] = d /\ marker'[i] \in page
  <2> HIDE DEF page, files, nested
  <2> QED
    BY <1>4, <1>5
<1>7. /\ found'[i] = found[i] \cup {Append(d, n) : n \in files}
      /\ todo'[i] = todo[i] \cup {Append(d, n) : n \in nested}
  <2> HIDE DEF page, files, nested, d
  <2> QED
    BY <1>4
<1> QED
  BY <1>1, <1>2, <1>6, <1>7

\* A directory on the list of an item is no marker of "no level".
LEMMA ParentsAreLevels ==
  ASSUME TypeOK, NEW i \in Items, InOrder(i), NEW d \in visited[i]
  PROVE  d = Target[i] \/ Parent(d) # None
  BY NoneAssumption DEF TypeOK, InOrder

\* An item that is answered has no walk left; its verdict is the entry given.
LEMMA AnswerKeepsWalk ==
  ASSUME TypeOK, NEW i \in Items, WalkInv(i), NEW entry, Answer(i, entry), visited' = visited
  PROVE  /\ WalkInv(i)'
         /\ step'[i] = "answered" /\ result'[i] = entry
<1>1. /\ step'[i] = "answered" /\ result'[i] = entry
      /\ at'[i] = None /\ todo'[i] = {} /\ found'[i] = {} /\ visited'[i] = visited[i]
  BY DEF TypeOK, Answer
<1>2. Fits(i)'
  BY <1>1 DEF Fits
<1>3. Inside(i)'
  BY <1>1 DEF WalkInv, Inside, Covers
<1>4. InOrder(i)'
  BY <1>1, ParentsAreLevels DEF WalkInv, InOrder
<1> QED
  BY <1>1, <1>2, <1>3, <1>4 DEF WalkInv

LEMMA TakeItemKeeps ==
  ASSUME TypeOK, NEW i \in Items, WalkInv(i), NothingSkipped(i), TakeItem(i)
  PROVE  WalkInv(i)' /\ NothingSkipped(i)'
<1>1. /\ at[i] = None /\ todo[i] = {} /\ visited[i] = {} /\ found[i] = {}
      /\ UNCHANGED <<store, fresh, at, marker, visited, found, reasons, result>>
  BY DEF TakeItem, WalkInv, Fits
<1>2. CASE IsDirectory(i)
  <2>1. step'[i] = "listing" /\ todo'[i] = {Target[i]}
    BY <1>2 DEF TakeItem, TypeOK
  <2>2. WalkInv(i)'
    BY <1>1, <1>2, <2>1 DEF WalkInv, Fits, Inside, InOrder, Covers, IsDirectory
  <2>3. NothingSkipped(i)'
    BY <1>1, <2>1 DEF NothingSkipped, Tracked, Covers
  <2> QED
    BY <2>2, <2>3
<1>3. CASE ~IsDirectory(i)
  <2>1. step'[i] = "waiting" /\ todo'[i] = {}
    BY <1>1, <1>3 DEF TakeItem, TypeOK
  <2>2. Target[i] \in Objects
    BY <1>3, ItemType DEF IsDirectory
  <2>3. WalkInv(i)'
    BY <1>1, <2>1, <2>2 DEF WalkInv, Fits, Inside, InOrder, Covers
  <2>4. NothingSkipped(i)'
    BY <1>1, <2>1 DEF NothingSkipped, Covers
  <2> QED
    BY <2>3, <2>4
<1> QED
  BY <1>2, <1>3

\* A level is opened once: it was never visited, and neither was a child of it.
LEMMA OpenLevelKeeps ==
  ASSUME TypeOK, NEW i \in Items, WalkInv(i), NothingSkipped(i), OpenLevel(i)
  PROVE  WalkInv(i)' /\ NothingSkipped(i)'
<1>1. PICK d \in todo[i] :
        /\ todo' = [todo EXCEPT ![i] = @ \ {d}]
        /\ at' = [at EXCEPT ![i] = IF d \in visited[i] THEN None ELSE d]
        /\ visited' = [visited EXCEPT ![i] = @ \cup {d}]
  BY DEF OpenLevel
<1>2. d \notin visited[i] /\ d \in Directories
  BY DEF WalkInv, InOrder, TypeOK
<1>3. /\ step[i] = "listing" /\ step' = step /\ at[i] = None
      /\ todo'[i] = todo[i] \ {d} /\ at'[i] = d /\ visited'[i] = visited[i] \cup {d}
      /\ marker'[i] = 0
      /\ UNCHANGED <<store, fresh, found, reasons, result>>
  BY <1>1, <1>2 DEF OpenLevel, TypeOK
<1>4. WalkInv(i)'
  <2>1. Fits(i)'
    BY <1>3 DEF WalkInv, Fits
  <2>2. Inside(i)'
    BY <1>3 DEF WalkInv, Inside, Covers
  <2>3. /\ todo'[i] \cap visited'[i] = {} /\ at'[i] \in visited'[i]
        /\ \A e \in todo'[i] \cup visited'[i] : e = Target[i] \/ Parent(e) \in visited'[i]
    BY <1>3 DEF WalkInv, InOrder
  <2>4. \A e \in visited'[i] : e = Target[i] \/ Parent(e) # d
    <3>1. \A e \in todo[i] \cup visited[i] : e = Target[i] \/ Parent(e) \in visited[i]
      BY DEF WalkInv, InOrder
    <3> QED
      BY <1>2, <1>3, <3>1
  <2>5. InOrder(i)'
    BY <1>3, <2>3, <2>4 DEF InOrder
  <2> QED
    BY <2>1, <2>2, <2>5 DEF WalkInv
<1>5. ASSUME NEW o \in store \ fresh, Under(Target[i], o) PROVE Tracked(i, o)'
  <2>1. Tracked(i, o)
    BY <1>3, <1>5 DEF NothingSkipped
  <2>2. CASE Under(d, o)
    <3>1. o[Len(d) + 1] \in Nat \ {0}
      BY <1>2, <2>2, ChildIsPath DEF TypeOK
    <3>2. d # None
      BY <1>2, NoneAssumption
    <3>3. o[Len(d) + 1] > 0
      BY <3>1
    <3> QED
      BY <1>3, <2>2, <3>2, <3>3 DEF Tracked
  <2>3. CASE ~Under(d, o)
    BY <1>3, <2>1, <2>3 DEF Tracked
  <2> QED
    BY <2>2, <2>3
<1>6. NothingSkipped(i)'
  BY <1>3, <1>5 DEF NothingSkipped, Covers
<1> QED
  BY <1>4, <1>6

\* A page moves its entries to the found objects and the levels to list; what
\* it misses stays behind the next marker.
LEMMA ListPageKeeps ==
  ASSUME TypeOK, NEW i \in Items, WalkInv(i), NothingSkipped(i), ListPage(i)
  PROVE  WalkInv(i)' /\ NothingSkipped(i)'
<1> DEFINE d == at[i]
           page == Page(d, marker[i])
           files == {x \in page : Append(d, x) \in Objects}
           levels == {x \in page : Append(d, x) \notin Objects}
<1>1. /\ d \in Directories /\ step[i] = "listing" /\ step' = step
      /\ found'[i] = found[i] \cup {Append(d, n) : n \in files}
      /\ todo'[i] = todo[i] \cup {Append(d, n) : n \in levels}
      /\ \A n \in page : n \in Nat \ {0} /\ Append(d, n) \in Objects \cup Directories
      /\ \/ at'[i] = None /\ Cardinality(page) < MaxKeys
         \/ at'[i] = d /\ marker'[i] \in page
      /\ UNCHANGED <<store, fresh, visited, reasons, result>>
  BY PageListed
<1>2. d # None /\ Target[i] \in Directories /\ d \in visited[i] /\ Covers(i, d)
  BY <1>1, NoneAssumption DEF WalkInv, Fits, Inside, InOrder
<1>3. marker[i] \in Nat
  BY DEF TypeOK
<1> HIDE DEF page
<1>4. ASSUME NEW n \in page
      PROVE  /\ Under(Target[i], Append(d, n)) /\ Parent(Append(d, n)) = d
             /\ Append(d, n) \notin visited[i]
  <2>1. Under(Target[i], Append(d, n)) /\ Parent(Append(d, n)) = d
    BY <1>1, <1>2, UnderAppend, ParentOfChild DEF Covers
  <2>2. Append(d, n) # Target[i]
    <3>1. Len(Target[i]) \in Nat
      BY <1>2, PathType
    <3> QED
      BY <2>1, <3>1 DEF Under
  <2>3. Append(d, n) \notin visited[i]
    BY <2>1, <2>2 DEF WalkInv, InOrder
  <2> QED
    BY <2>1, <2>3
<1>5. Fits(i)'
  BY <1>1 DEF WalkInv, Fits
<1>6. Inside(i)'
  <2>1. \A e \in todo'[i] \cup visited'[i] : e \in todo[i] \cup visited[i] \/ Covers(i, e)
    BY <1>1, <1>4 DEF Covers
  <2>2. \A o \in found'[i] : o \in found[i] \/ Covers(i, o)
    BY <1>1, <1>4 DEF Covers
  <2> QED
    BY <2>1, <2>2 DEF WalkInv, Inside, Covers
<1>7. InOrder(i)'
  <2>1. todo'[i] \cap visited'[i] = {}
    <3>1. \A e \in todo'[i] : e \in todo[i] \/ \E n \in page : e = Append(d, n)
      BY <1>1
    <3>2. \A e \in todo'[i] : e \notin visited[i]
      BY <1>4, <3>1 DEF WalkInv, InOrder
    <3> QED
      BY <1>1, <3>2
  <2>2. at'[i] # None => at'[i] \in visited'[i]
    BY <1>1, <1>2
  <2>3. \A e \in todo'[i] \cup visited'[i] : e = Target[i] \/ Parent(e) \in visited'[i]
    BY <1>1, <1>2, <1>4 DEF WalkInv, InOrder
  <2>4. \A e \in visited'[i] : e = Target[i] \/ Parent(e) # at'[i]
    <3>1. \A e \in visited[i] : e = Target[i] \/ Parent(e) # d
      BY DEF WalkInv, InOrder
    <3>2. \A e \in visited[i] : e = Target[i] \/ Parent(e) # None
      BY ParentsAreLevels DEF WalkInv
    <3> QED
      BY <1>1, <3>1, <3>2
  <2> QED
    BY <2>1, <2>2, <2>3, <2>4 DEF InOrder
<1>8. ASSUME NEW o \in store \ fresh, Under(Target[i], o) PROVE Tracked(i, o)'
  <2>1. Tracked(i, o)
    BY <1>1, <1>8 DEF NothingSkipped
  <2>2. CASE o \in found[i] \/ \E e \in todo[i] : Under(e, o)
    BY <1>1, <2>2 DEF Tracked
  <2>3. CASE Under(d, o) /\ o[Len(d) + 1] > marker[i]
    <3> DEFINE n == o[Len(d) + 1]
    <3>1. /\ n \in Nat \ {0}
          /\ \/ Append(d, n) = o
             \/ Append(d, n) \in Directories /\ Under(Append(d, n), o)
      <4>1. o \in Objects
        BY DEF TypeOK
      <4>2. d \in Directories /\ Under(d, o)
        BY <1>1, <2>3
      <4> HIDE DEF d
      <4> QED
        BY <4>1, <4>2, ChildIsPath
    <3>2. CASE n \in page /\ Append(d, n) = o
      <4>1. Append(d, n) \in Objects
        BY <3>2 DEF TypeOK
      <4>2. o \in found'[i]
        BY <1>1, <3>2, <4>1
      <4> QED
        BY <4>2 DEF Tracked
    <3>3. CASE n \in page /\ Append(d, n) \in Directories /\ Under(Append(d, n), o)
      <4>1. Append(d, n) \notin Objects
        BY <3>3, PathsAssumption
      <4>2. Append(d, n) \in todo'[i]
        BY <1>1, <3>3, <4>1
      <4> QED
        BY <3>3, <4>2 DEF Tracked
    <3>4. CASE n \notin page
      <4>1. n \in Names(d)
        BY <2>3 DEF Names
      <4>2. ~(Cardinality(page) < MaxKeys) /\ \A p \in page : p < n
        BY <1>1, <1>3, <2>3, <3>4, <4>1, PageComplete DEF page
      <4>3. at'[i] = d /\ marker'[i] < n /\ marker'[i] \in Nat
        BY <1>1, <4>2
      <4>4. n > marker'[i]
        BY <3>1, <4>3
      <4> QED
        BY <1>2, <2>3, <4>3, <4>4 DEF Tracked
    <3> QED
      BY <3>1, <3>2, <3>3, <3>4
  <2> QED
    BY <2>1, <2>2, <2>3 DEF Tracked
<1>9. NothingSkipped(i)'
  BY <1>1, <1>8 DEF NothingSkipped, Covers
<1> QED
  BY <1>5, <1>6, <1>7, <1>9 DEF WalkInv

LEMMA EndListingKeeps ==
  ASSUME TypeOK, NEW i \in Items, WalkInv(i), NothingSkipped(i), EndListing(i)
  PROVE  WalkInv(i)' /\ NothingSkipped(i)'
<1>1. /\ step[i] = "listing" /\ at[i] = None /\ todo[i] = {} /\ step'[i] = "deleting"
      /\ UNCHANGED <<store, fresh, at, marker, todo, visited, found, reasons, result>>
  BY DEF EndListing, walkVars, TypeOK
<1>2. WalkInv(i)'
  BY <1>1 DEF WalkInv, Fits, Inside, InOrder, Covers
<1>3. \A o \in store \ fresh : Under(Target[i], o) => o \in found[i]
  BY <1>1 DEF NothingSkipped, Tracked
<1>4. NothingSkipped(i)'
  BY <1>1, <1>3 DEF NothingSkipped, Covers
<1> QED
  BY <1>2, <1>4

\* An outcome that leaves no reason is a success.
LEMMA NoReason ==
  ASSUME TypeOK, NEW i \in Items, NEW outcome \in Possible \cup {"ok"},
         reasons' = [reasons EXCEPT ![i] = @ \cup ({outcome} \ {"ok"})], reasons'[i] = {}
  PROVE  reasons[i] = {} /\ outcome = "ok"
  BY DEF TypeOK

LEMMA DeleteFoundKeeps ==
  ASSUME TypeOK, NEW i \in Items, WalkInv(i), NothingSkipped(i),
         NEW o \in Objects, DeleteFound(i, o)
  PROVE  WalkInv(i)' /\ NothingSkipped(i)'
<1>1. /\ step[i] = "deleting" /\ found'[i] = found[i] \ {o} /\ store' \subseteq store
      /\ UNCHANGED <<fresh, step, at, marker, todo, visited, result>>
  BY DEF DeleteFound, Delete, walkVars, TypeOK
<1>2. WalkInv(i)'
  BY <1>1 DEF WalkInv, Fits, Inside, InOrder, Covers
<1>3. reasons'[i] = {} => reasons[i] = {} /\ store' = store \ {o}
  BY NoReason DEF DeleteFound, Delete
<1>4. NothingSkipped(i)'
  BY <1>1, <1>3 DEF NothingSkipped, Covers
<1> QED
  BY <1>2, <1>4

LEMMA FileStepKeeps ==
  ASSUME TypeOK, NEW i \in Items, WalkInv(i), NothingSkipped(i), TakeFile(i) \/ DeleteFile(i)
  PROVE  WalkInv(i)' /\ NothingSkipped(i)'
<1>1. CASE TakeFile(i)
  <2>1. /\ step[i] = "waiting" /\ step'[i] = "working"
        /\ UNCHANGED <<store, fresh, at, marker, todo, visited, found, reasons, result>>
    BY <1>1 DEF TakeFile, walkVars, TypeOK
  <2>2. WalkInv(i)'
    BY <2>1 DEF WalkInv, Fits, Inside, InOrder, Covers
  <2>3. NothingSkipped(i)'
    BY <2>1 DEF NothingSkipped, Covers
  <2> QED
    BY <2>2, <2>3
<1>2. CASE DeleteFile(i)
  <2>1. /\ step[i] = "working" /\ step'[i] = "replied" /\ store' \subseteq store
        /\ UNCHANGED <<fresh, at, marker, todo, visited, found, result>>
    BY <1>2 DEF DeleteFile, Delete, walkVars, TypeOK
  <2>2. WalkInv(i)'
    BY <2>1 DEF WalkInv, Fits, Inside, InOrder, Covers
  <2>3. reasons'[i] = {} => store' = store \ {Target[i]}
    BY <1>2, NoReason DEF DeleteFile, Delete
  <2>4. NothingSkipped(i)'
    BY <2>1, <2>3 DEF NothingSkipped, Covers
  <2> QED
    BY <2>2, <2>4
<1> QED
  BY <1>1, <1>2

\* Success is answered only when nothing of the item is left.
LEMMA AnswerKeeps ==
  ASSUME TypeOK, NEW i \in Items, WalkInv(i), NothingSkipped(i),
         FailListing(i) \/ AnswerDirectory(i) \/ AnswerFile(i)
  PROVE  WalkInv(i)' /\ NothingSkipped(i)'
<1>1. \A code, R : Failure(code, R).success = FALSE
  BY DEF Failure
<1>2. PICK entry : /\ Answer(i, entry)
                   /\ entry.success => \A o \in store \ fresh : ~Covers(i, o)
  <2>1. CASE FailListing(i)
    BY <1>1, <2>1 DEF FailListing
  <2>2. CASE AnswerDirectory(i)
    <3>1. step[i] = "deleting" /\ found[i] = {} /\ Target[i] \in Directories
      BY <2>2 DEF AnswerDirectory, WalkInv, Fits
    <3>2. reasons[i] = {} => \A o \in store \ fresh : ~Covers(i, o)
      BY <3>1, PathsAssumption DEF NothingSkipped, Covers, TypeOK
    <3>3. CASE reasons[i] = {}
      BY <2>2, <3>2, <3>3 DEF AnswerDirectory
    <3>4. CASE reasons[i] # {}
      BY <1>1, <2>2, <3>4 DEF AnswerDirectory
    <3> QED
      BY <3>3, <3>4
  <2>3. CASE AnswerFile(i)
    <3>1. step[i] = "replied" /\ Target[i] \in Objects
      BY <2>3 DEF AnswerFile, WalkInv, Fits
    <3>2. reasons[i] = {} => \A o \in store \ fresh : ~Covers(i, o)
      BY <3>1, ObjectsAreLeaves DEF NothingSkipped, Covers, TypeOK
    <3>3. CASE reasons[i] = {} /\ Answer(i, Success)
      BY <3>2, <3>3
    <3>4. CASE \E outcome \in reasons[i] : Answer(i, Failure(FileCode(outcome), {outcome}))
      BY <1>1, <3>4
    <3> QED
      BY <2>3, <3>3, <3>4 DEF AnswerFile
  <2> QED
    BY <2>1, <2>2, <2>3
<1>3. UNCHANGED <<store, fresh, visited>>
  BY DEF FailListing, AnswerDirectory, AnswerFile
<1>4. WalkInv(i)' /\ step'[i] = "answered" /\ result'[i] = entry
  BY <1>2, <1>3, AnswerKeepsWalk
<1>5. NothingSkipped(i)'
  BY <1>2, <1>3, <1>4 DEF NothingSkipped, Covers
<1> QED
  BY <1>4, <1>5

LEMMA CallStepKeeps ==
  ASSUME TypeOK, NEW i \in Items, WalkInv(i), NothingSkipped(i), CallStep(i)
  PROVE  WalkInv(i)' /\ NothingSkipped(i)'
  BY TakeItemKeeps, OpenLevelKeeps, ListPageKeeps, EndListingKeeps, DeleteFoundKeeps,
     FileStepKeeps, AnswerKeeps DEF CallStep, DirectoryStep, FileStep

LEMMA DeleteInit == Init => DeleteInv
<1> SUFFICES ASSUME Init, NEW i \in Items PROVE WalkInv(i) /\ NothingSkipped(i)
  BY DEF DeleteInv
<1>1. /\ step[i] = "queued" /\ at[i] = None /\ todo[i] = {} /\ visited[i] = {}
      /\ found[i] = {} /\ result[i] = None
  BY DEF Init
<1> QED
  BY <1>1 DEF WalkInv, Fits, Inside, InOrder, NothingSkipped

LEMMA DeleteStep == TypeOK /\ DeleteInv /\ [Next]_vars => DeleteInv'
<1> SUFFICES ASSUME TypeOK, DeleteInv, [Next]_vars, NEW j \in Items
             PROVE  WalkInv(j)' /\ NothingSkipped(j)'
  BY DEF DeleteInv
<1>1. WalkInv(j) /\ NothingSkipped(j)
  BY DEF DeleteInv
<1>2. ASSUME NEW i \in Items, CallStep(i) PROVE WalkInv(j)' /\ NothingSkipped(j)'
  <2>1. CASE i = j
    BY <1>1, <1>2, <2>1, CallStepKeeps
  <2>2. CASE i # j
    BY <1>1, <1>2, <2>2, StepFrame, Undisturbed
  <2> QED
    BY <2>1, <2>2
<1>3. CASE Return
  BY <1>1, <1>3, Undisturbed DEF Return, walkVars, itemVars
<1>4. CASE EndContext
  BY <1>1, <1>4, Undisturbed DEF EndContext, walkVars, itemVars
<1>5. ASSUME NEW o \in Objects, Upload(o) PROVE WalkInv(j)' /\ NothingSkipped(j)'
  <2>1. store' \ fresh' \subseteq store \ fresh
    BY <1>5 DEF Upload
  <2> QED
    BY <1>1, <1>5, <2>1, Undisturbed DEF Upload, walkVars, itemVars
<1>6. CASE UNCHANGED vars
  BY <1>1, <1>6, Undisturbed DEF vars, walkVars, itemVars
<1> QED
  BY <1>2, <1>3, <1>4, <1>5, <1>6 DEF Next

LEMMA DeleteInvariant == Spec => [](TypeOK /\ DeleteInv)
  BY TypeInit, TypeStep, DeleteInit, DeleteStep, PTL DEF Spec

-----------------------------------------------------------------------------
(* What the call promises.                                                 *)

\* An item that reports success has left no object behind that was there when
\* the call began: none is passed over between two pages or two levels.
THEOREM SuccessCorrect == Spec => []SuccessMeansGone
<1>1. DeleteInv => SuccessMeansGone
  BY DEF DeleteInv, NothingSkipped, SuccessMeansGone
<1> QED
  BY <1>1, DeleteInvariant, PTL

\* However an item is walked, only objects that some item covers are deleted.
THEOREM TargetsCorrect == Spec => OnlyTargetsDeleted
<1>1. TypeOK /\ DeleteInv /\ [Next]_vars =>
        [\A o \in store \ store' : \E i \in Items : Covers(i, o)]_vars
  <2> SUFFICES ASSUME DeleteInv, Next, NEW o \in store \ store'
               PROVE  \E i \in Items : Covers(i, o)
    OBVIOUS
  <2>1. ASSUME NEW i \in Items, CallStep(i) PROVE Covers(i, o)
    <3>1. CASE \E x \in Objects : DeleteFound(i, x)
      <4>1. o \in found[i]
        BY <3>1 DEF DeleteFound, Delete
      <4> QED
        BY <4>1 DEF DeleteInv, WalkInv, Inside
    <3>2. CASE DeleteFile(i)
      BY <3>2 DEF DeleteFile, Delete, Covers
    <3>3. CASE UNCHANGED store
      BY <3>3
    <3> QED
      BY <2>1, <3>1, <3>2, <3>3 DEF CallStep, DirectoryStep, FileStep, TakeItem, OpenLevel,
         ListPage, FailListing, EndListing, AnswerDirectory, TakeFile, AnswerFile
  <2>2. CASE Return \/ EndContext \/ \E x \in Objects : Upload(x)
    BY <2>2 DEF Return, EndContext, Upload
  <2> QED
    BY <2>1, <2>2 DEF Next
<1> QED
  BY <1>1, DeleteInvariant, PTL DEF Spec, OnlyTargetsDeleted

-----------------------------------------------------------------------------
(* One answer for every item (the safety part of ItemResults).             *)

\* An item has its result once its worker is done with it.
Answered == \A i \in Items : step[i] = "answered" <=> result[i] # None

LEMMA EntryGiven ==
  ASSUME TypeOK, NEW i \in Items, FailListing(i) \/ AnswerDirectory(i) \/ AnswerFile(i)
  PROVE  \E entry \in Results : Answer(i, entry) /\ step[i] # "answered" /\ UNCHANGED returned
<1>1. CASE FailListing(i)
  BY <1>1, PossibleType, ResultType DEF FailListing
<1>2. CASE AnswerDirectory(i)
  BY <1>2, ResultType DEF AnswerDirectory, TypeOK
<1>3. CASE AnswerFile(i)
  BY <1>3, ResultType DEF AnswerFile, TypeOK
<1> QED
  BY <1>1, <1>2, <1>3

\* A step of the call either answers an item or leaves the results alone.
LEMMA StepAnswers ==
  ASSUME TypeOK, [Next]_vars
  PROVE  \/ /\ \E i \in Items, entry \in Results :
                 Answer(i, entry) /\ step[i] # "answered" /\ UNCHANGED returned
         \/ /\ UNCHANGED <<result, returned>>
            /\ \A i \in Items : step'[i] = "answered" <=> step[i] = "answered"
         \/ Return
<1>1. ASSUME NEW i \in Items,
             TakeItem(i) \/ OpenLevel(i) \/ ListPage(i) \/ EndListing(i)
               \/ (\E o \in Objects : DeleteFound(i, o)) \/ TakeFile(i) \/ DeleteFile(i)
      PROVE  /\ UNCHANGED <<result, returned>>
             /\ \A j \in Items : step'[j] = "answered" <=> step[j] = "answered"
  BY <1>1 DEF TakeItem, OpenLevel, ListPage, EndListing, DeleteFound, TakeFile,
     DeleteFile, walkVars, TypeOK
<1>2. CASE EndContext \/ (\E o \in Objects : Upload(o)) \/ UNCHANGED vars
  BY <1>2 DEF EndContext, Upload, vars
<1> QED
  BY <1>1, <1>2, EntryGiven DEF Next, CallStep, DirectoryStep, FileStep

LEMMA AnsweredStep == TypeOK /\ Answered /\ [Next]_vars => Answered'
<1> SUFFICES ASSUME TypeOK, Answered, [Next]_vars PROVE Answered'
  OBVIOUS
<1>1. ASSUME NEW i \in Items, NEW entry \in Results, Answer(i, entry) PROVE Answered'
  BY <1>1, NoneAssumption DEF Answered, Answer, TypeOK
<1>2. CASE UNCHANGED result /\ \A i \in Items : step'[i] = "answered" <=> step[i] = "answered"
  BY <1>2 DEF Answered
<1>3. CASE Return
  BY <1>3 DEF Answered, Return
<1> QED
  BY <1>1, <1>2, <1>3, StepAnswers

\* Whatever the pools do, an item gets one result, which stays, and the call
\* returns only when every item has one.
THEOREM AnswersOnce == Spec => ItemList!ItemsSafeSpec
<1>1. Init => Answered /\ ItemList!ItemsInit
  BY DEF Init, Answered, ItemList!ItemsInit, decided
<1>2. TypeOK /\ Answered /\ [Next]_vars => [ItemList!ItemsNext]_(ItemList!itemVars)
  <2> SUFFICES ASSUME TypeOK, Answered, [Next]_vars
               PROVE  [ItemList!ItemsNext]_(ItemList!itemVars)
    OBVIOUS
  <2>1. ASSUME NEW i \in Items, NEW entry \in Results, Answer(i, entry),
               step[i] # "answered", UNCHANGED returned
        PROVE  ItemList!ItemsNext
    <3> DEFINE verdict == IF entry.success THEN "success" ELSE "failure"
    <3>1. entry # None /\ result[i] = None /\ result' = [result EXCEPT ![i] = entry]
      BY <2>1, NoneAssumption DEF Answered, Answer
    <3>2. decided[i] = "open" /\ decided' = [decided EXCEPT ![i] = verdict]
      BY <3>1 DEF decided, TypeOK
    <3> QED
      BY <2>1, <3>2 DEF ItemList!ItemsNext, ItemList!Decide
  <2>2. CASE UNCHANGED <<result, returned>>
    BY <2>2 DEF ItemList!itemVars, decided
  <2>3. CASE Return
    <3>1. \A i \in Items : step[i] = "answered"
      BY <2>3 DEF Return, In, TypeOK
    <3>2. \A i \in Items : decided[i] # "open"
      BY <3>1 DEF Answered, decided
    <3> QED
      BY <2>3, <3>2 DEF Return, ItemList!ItemsNext, ItemList!Return, decided
  <2> QED
    BY <2>1, <2>2, <2>3, StepAnswers
<1>3. TypeOK /\ Answered /\ [Next]_vars => Answered'
  BY AnsweredStep
<1> QED
  BY <1>1, <1>2, <1>3, TypeInit, TypeStep, PTL DEF Spec, ItemList!ItemsSafeSpec
=============================================================================
