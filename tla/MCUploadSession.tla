--------------------------- MODULE MCUploadSession ---------------------------
(***************************************************************************)
(* Instances of UploadSession for TLC.                                     *)
(***************************************************************************)
EXTENDS UploadSession

CONSTANTS k1, k2

file(key, size) == [archive |-> FALSE, opens |-> TRUE, key |-> key, size |-> size]
plain(key) == [regular |-> TRUE, safe |-> TRUE, readable |-> TRUE, key |-> key, size |-> 1]
archive(entries) ==
  [archive |-> TRUE, opens |-> TRUE, readable |-> TRUE, entries |-> entries, truncated |-> FALSE]

\* Three files and three entries to upload under two keys, and every way to
\* refuse a part: a file without a key, an entry that is a directory, one that is
\* too large, an archive that breaks off and one that does not decompress.
MixedForm ==
  << file(k1, 1),
     archive(<<plain(k2), [plain(k2) EXCEPT !.regular = FALSE], [plain(k2) EXCEPT !.size = 3],
               plain(k1)>>),
     file(None, 1),
     [archive(<<plain(k1)>>) EXCEPT !.truncated = TRUE],
     file(k2, 0),
     [archive(<<>>) EXCEPT !.readable = FALSE],
     file(k1, 2) >>
=============================================================================
