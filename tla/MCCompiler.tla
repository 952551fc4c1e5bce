----------------------------- MODULE MCCompiler -----------------------------
(* The vocabularies the compiler is tried on, and the stacks. *)
EXTENDS Compiler

Vocab(words, max) == [words |-> words, max |-> max]

\* Branches and early exits; CASE, without and with EXIT in its arms; each kind
\* of loop, with and without EXIT.
MCSources ==
    { Vocab({"drop", "exit", "?dup", "if", "else", "then"}, 8),
      Vocab({"0", "1", "dup", "drop", "if", "else", "then"}, 5),
      Vocab({"1", "drop", "case", "of", "endof", "default", "endcase"}, 8),
      Vocab({"dup", "drop", "begin", "until", "while", "repeat"}, 7),
      Vocab({"1", "drop", "do", "?do", "loop", "+loop", "?dup", "if", "then"}, 5),
      Vocab({"drop", "exit", "case", "of", "endof", "endcase"}, 8),
      Vocab({"exit", "begin", "again", "until", "if", "then", "case", "endcase"}, 5) }

\* Cells up to 2, so that a DO can go round twice.
MCStacks == UNION {[1..n -> {0, 1, 2}] : n \in 0..2} \cup [1..3 -> {0, 1}]
=============================================================================
