-------------------------- MODULE MCSelectionPaths --------------------------
(* Small instances of SelectionPaths for TLC. *)
EXTENDS SelectionPaths

a     == <<"a">>
b     == <<"b">>
con   == <<"CON">>
coded == <<Prefix, "CON">>
odd   == <<"a", Backslash, "CON">>
odder == <<"a", Backslash, Backslash, "CON">>

(* A directory with a reserved name and with a name that looks like the
   encoding of it, files beside it with names that differ from a path only by
   their separators, and a directory a link may lead to. *)
SmallPlaces == {<<a>>, <<a, con>>, <<a, coded>>, <<odd>>, <<odder>>, <<b>>, <<b, con>>}
SmallReserved == {con, odd, odder}
SmallEdited == {<<a>>, <<a, con>>}
SmallTargets == [p \in SmallPlaces |-> CASE p = <<a>>      -> {<<b>>, <<Up>>}
                                        [] p = <<a, con>> -> {<<Up>>}
                                        [] p = <<b>>      -> {<<a>>}
                                        [] OTHER          -> {}]
=============================================================================
