---------------------------- MODULE MCIdeWorker ----------------------------
(* Programs for IdeWorker: one defines a word, one uses it and does not     *)
(* compile before, one needs a file and uses its word, one needs a file     *)
(* that cannot be read and is recorded all the same.  One that does not lex *)
(* fails as the second does.                                                *)
EXTENDS IdeWorker

MCWords == {"sq", "lib"}
MCFileWords == [f \in {"lib.f", "gone.f"} |-> {"lib"}]
Program(n, u, d) == [lexes |-> TRUE, need |-> n, uses |-> u, defs |-> d]
Define == Program(NoFile, {}, {"sq"})
Use == Program(NoFile, {"sq"}, {})
Need == Program("lib.f", {"lib"}, {})
NeedGone == Program("gone.f", {}, {})
MCSources == {Define, Use, Need, NeedGone}
=============================================================================
