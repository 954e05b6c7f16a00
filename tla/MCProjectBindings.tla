------------------------- MODULE MCProjectBindings --------------------------
(***************************************************************************)
(* Instances of ProjectBindings for TLC: the lists that requests submit.   *)
(***************************************************************************)
EXTENDS ProjectBindings, TLC

\* The overlapping requests are interchangeable.
CallSymmetry == Permutations(Calls)

Keep(n, provider, primary) ==
  [from |-> n, name |-> n, provider |-> provider, primary |-> primary, op |-> "KEEP",
   secret |-> FALSE]
Rename(from, n, primary) ==
  [from |-> from, name |-> n, provider |-> "aliyun", primary |-> primary, op |-> "",
   secret |-> FALSE]
Replace(n, provider, primary) ==
  [from |-> None, name |-> n, provider |-> provider, primary |-> primary, op |-> "REPLACE",
   secret |-> TRUE]

\* No bucket, one kept or replaced, one moved to another provider, one renamed,
\* two, and a list with two primaries.
MCBucketInputs ==
  { {}, {Keep("b1", "aliyun", TRUE)}, {Keep("b1", "tencent", TRUE)},
    {Replace("b1", "tencent", TRUE)}, {Rename("b1", "b2", TRUE)},
    {Replace("b1", "aliyun", TRUE), Replace("b2", "tencent", FALSE)},
    {Replace("b1", "aliyun", TRUE), Replace("b2", "tencent", TRUE)} }

MCCDNInputs ==
  { {}, {Keep("c1", "aliyun", TRUE)},
    {Replace("c2", "aliyun", TRUE), Replace("c3", "tencent", FALSE)} }

\* A bucket that is marked KEEP although it is new and has a credential.
NewKept(n) ==
  [from |-> None, name |-> n, provider |-> "aliyun", primary |-> TRUE, op |-> "KEEP",
   secret |-> TRUE]

\* Creations: the lists that bring their credentials, and a bucket marked KEEP.
NewBuckets == {bs \in MCBucketInputs : \A b \in bs : b.secret} \cup { {NewKept("b1")} }
NewCDNs == {cs \in MCCDNInputs : \A c \in cs : c.secret}

\* Two requests each submit one new endpoint.
TwoEndpoints == { {Replace("c1", "aliyun", TRUE)}, {Replace("c2", "aliyun", TRUE)} }
NoBuckets == { {} }
=============================================================================
