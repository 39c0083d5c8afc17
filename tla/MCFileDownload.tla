--------------------------- MODULE MCFileDownload ---------------------------
(* Contents for model checking FileDownload: versions of the shared file that
   share a prefix, with up to three frames, so that chunk sizes 1 and 2 cut
   them into one, two or three chunks.  One is empty: what comes late for an
   earlier version then falls behind the end of the file. *)
EXTENDS FileDownload

CONSTANTS a, b, x, u

OneVersion  == {<<a, b>>}
Versions    == {<<a, b>>, <<a, x>>, <<>>}
TwoSizes    == {<<a>>, <<b, x, a>>}
UserFile    == {<<u>>}
NoLocal     == {NoFile}
UserLocal   == {NoFile, <<u>>}
OnlyUser    == {<<u>>}
=============================================================================
