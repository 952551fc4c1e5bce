------------------------------ MODULE MCNeeds ------------------------------
(* Three files: `a` and `b` need each other, `a` under two spellings, and    *)
(* both need the library `c`.  The built-ins are + and -.                    *)
EXTENDS Needs

MCCanon == [x \in Paths |-> CASE x \in {"./a", "lib/../a"} -> "a"
                              [] x = "./b" -> "b" [] x = "./c" -> "c"]

MCContent == [f \in Files |->
    CASE f = "a" -> <<Include("./b"), Include("./c"), Def("wa", "wc")>>
      [] f = "b" -> <<Include("./c"), Include("lib/../a"), Def("wb", "+")>>
      [] f = "c" -> <<Def("wc", "-")>>]

\* The user needs a file by one path or the other, uses a word, redefines one.
MCPrograms == { <<Include("./a"), Def("x", "wb")>>,
                <<Include("lib/../a"), Include("./b")>>,
                <<Def("y", "wc")>>,
                <<Include("./c"), Def("wc", "+")>> }

\* Two one-line files: `: inc 1 + ;` and `: dec 1 - ;`.
MCTwins == [f \in Files |->
    CASE f = "a" -> <<Def("inc", "+")>> [] f = "b" -> <<Def("dec", "-")>>
      [] f = "c" -> <<>>]

MCBoth == { <<Include("./a"), Include("./b")>> }
=============================================================================
