------------------------------- MODULE MCGet --------------------------------
(* A small instance of OryxGet: a circle of three packages, a protected one   *)
(* two levels below e, behind a dependency that is installed first, and one   *)
(* that only pacman -S brings along.                                          *)
EXTENDS OryxGet

MCDeps == [n \in {"a", "b", "c", "d", "e", "q", "s"} |->
             CASE n = "a" -> <<"b", "c", "r">>
               [] n = "b" -> <<"c", "a", "none">>
               [] n = "c" -> <<"b", "d">>
               [] n = "e" -> <<"c", "s">>
               [] n = "s" -> <<"q">>
               [] OTHER -> <<>>]
MCRepoDeps == [n \in {"r", "p"} |-> IF n = "r" THEN {"p"} ELSE {}]
MCTargets == {<<"a">>, <<"c", "e">>, <<"e", "q">>, <<"r", "q">>, <<"none", "b">>}
=============================================================================
