---------------------------- MODULE MCStoragePage ----------------------------
(***************************************************************************)
(* Instances of the storage page for TLC.                                  *)
(***************************************************************************)
EXTENDS UploadPanel

CONSTANTS p1, b1, b2

CallSymmetry == Permutations(CallIds)

\* A directory, which the user may name without its slash; or a file.
OneDirectory == {<<"d">>}
OneFile == {<<"f">>}
Nothing == {}
WithoutSlash == {Written(<<"d">>, FALSE)}

OneBucket == p1 :> <<b1>>
TwoBuckets == p1 :> <<b1, b2>>
AdminOfOne == p1 :> "project_admin"

FileSizes == [f \in LocalFiles |-> 1]

record(success, failure) ==
  [successEntries |-> success, uploaded |-> success, failedEntries |-> failure, failed |-> failure,
   totalEntries |-> success + failure,
   result |-> IF failure > 0 THEN "failure" ELSE "success", finished |-> TRUE]

\* An archive of which one entry failed, or a plain file.
Archive == { [results |-> <<"success", "failure">>, log |-> record(1, 1)] }
Plain == { [results |-> <<"success">>, log |-> None] }
PlainOrArchive == Plain \cup Archive
=============================================================================
