--------------------------- MODULE MCDownloadWindow --------------------------
(* A manifest of three files whose sizes TLC chooses, each with its name and the
   candidates for a second copy; the first has two of them. *)
EXTENDS DownloadWindow, TLC

CONSTANTS f1, f2, f3, a, b, c, a1, a2, b1, c1

Three == <<f1, f2, f3>>
Names3 == f1 :> a @@ f2 :> b @@ f3 :> c
Apart == a :> <<a1, a2>> @@ b :> <<b1>> @@ c :> <<c1>>

(* A copy that is there already matters to the policy that makes copies. *)
CopiesMatter == policy = "keep_both" \/ \A n \in Numbered : disk[n] # Foreign
=============================================================================
