---------------------------- MODULE MCBatchDelete ----------------------------
(***************************************************************************)
(* Instances of BatchDelete for TLC: a bucket with a directory <<1>> that  *)
(* holds a directory <<1, 1>> and objects, and an object beside it.         *)
(***************************************************************************)
EXTENDS BatchDelete

CONSTANTS tree, subtree, file

MCObjects == {<<1, 1, 1>>, <<1, 2>>, <<1, 3>>, <<2>>}
MCDirectories == {<<>>, <<1>>, <<1, 1>>}
MCUploads == {<<1, 2>>}
OverlappingItems == {tree, subtree, file}
OverlappingTarget ==
  [i \in OverlappingItems |->
     CASE i = tree -> <<1>> [] i = subtree -> <<1, 1>> [] i = file -> <<1, 3>>]
=============================================================================
