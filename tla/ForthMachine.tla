---------------------------- MODULE ForthMachine ----------------------------
(* What a Forth body means, and what the Factor code the compiler emits for  *)
(* it means: the two machines that Compiler compares.                        *)
(*                                                                           *)
(* A body is a sequence of AST nodes (compiler/ast.rs, Expr), code is a      *)
(* sequence of Factor operations, a stack is a sequence of cells with the    *)
(* top first.  A run ends (`end`), leaves the word by EXIT (`exit`), takes a *)
(* cell that is not there (`fail`), or goes round one loop more than MaxIter *)
(* times (`spin`): loops of the two machines go round together, so a loop    *)
(* that never stops spins in both.  The reference machine also stops at a DO *)
(* that starts at or above its limit (`above`): ANS Forth counts on until    *)
(* the index has wrapped around, the runtime goes round once.                *)
EXTENDS Integers, Sequences

CONSTANT MaxIter        \* rounds of one loop before the run counts as endless

ASSUME MaxIterAssumption == MaxIter \in Nat \ {0}

Result(how, st) == [how |-> how, st |-> st]
Fail            == Result("fail", <<>>)
Spin            == Result("spin", <<>>)
Above           == Result("above", <<>>)

\* -1 and 0 as ANS flags are all that IF, UNTIL and WHILE look at.
Truth(cell) == cell # 0

(***************************************************************************)
(* The primitive words of the bodies, the same on both machines.           *)
(***************************************************************************)
Prim(w, st) ==
    CASE w = "0"    -> Result("end", <<0>> \o st)
      [] w = "1"    -> Result("end", <<1>> \o st)
      [] w = "dup"  -> IF st = <<>> THEN Fail
                                    ELSE Result("end", <<Head(st)>> \o st)
      [] w = "drop" -> IF st = <<>> THEN Fail ELSE Result("end", Tail(st))

(***************************************************************************)
(* The reference machine: ANS Forth on the parsed body.  CASE keeps its    *)
(* selector while it compares, drops it on a match and at ENDCASE; EXIT    *)
(* leaves the word whatever it is nested in; a DO loop ends when its index *)
(* crosses from limit-1 to limit, which for the steps of these bodies, 0   *)
(* and 1, is when an index below the limit is so no longer.                *)
(***************************************************************************)
RECURSIVE Run(_, _), RunNode(_, _), RunUntil(_, _, _), RunWhile(_, _, _),
          RunAgain(_, _, _), RunDo(_, _, _, _, _), RunArms(_, _, _)

Run(body, st) ==
    IF body = <<>> THEN Result("end", st)
    ELSE LET r == RunNode(Head(body), st)
         IN  IF r.how = "end" THEN Run(Tail(body), r.st) ELSE r

\* The node's parts run; `then` goes on with what they leave.
RunUntil(body, st, n) ==
    LET r == Run(body, st)
    IN  IF n = MaxIter THEN Spin
        ELSE IF r.how # "end" THEN r
        ELSE IF r.st = <<>> THEN Fail
        ELSE IF Truth(Head(r.st)) THEN Result("end", Tail(r.st))
        ELSE RunUntil(body, Tail(r.st), n + 1)

RunAgain(body, st, n) ==
    LET r == Run(body, st)
    IN  IF n = MaxIter THEN Spin
        ELSE IF r.how # "end" THEN r
        ELSE RunAgain(body, r.st, n + 1)

RunWhile(e, st, n) ==
    LET p == Run(e.pred, st)
        r == Run(e.body, Tail(p.st))
    IN  IF n = MaxIter THEN Spin
        ELSE IF p.how # "end" THEN p
        ELSE IF p.st = <<>> THEN Fail
        ELSE IF ~Truth(Head(p.st)) THEN Result("end", Tail(p.st))
        ELSE IF r.how # "end" THEN r
        ELSE RunWhile(e, r.st, n + 1)

RunDo(e, index, limit, st, n) ==
    LET r    == Run(e.body, st)
        step == IF e.plusN THEN Head(r.st) ELSE 1
        rest == IF e.plusN THEN Tail(r.st) ELSE r.st
    IN  IF index >= limit THEN Above
        ELSE IF n = MaxIter THEN Spin
        ELSE IF r.how # "end" THEN r
        ELSE IF e.plusN /\ r.st = <<>> THEN Fail
        ELSE IF index + step >= limit THEN Result("end", rest)
        ELSE RunDo(e, index + step, limit, rest, n + 1)

\* The selector is on top of st while the arms are tried.
RunArms(arms, default, st) ==
    IF arms = <<>>
    THEN LET r == Run(default, st)
         IN  IF r.how # "end" THEN r
             ELSE IF r.st = <<>> THEN Fail
             ELSE Result("end", Tail(r.st))
    ELSE IF st = <<>> THEN Fail
    ELSE LET m == Run(Head(arms).match, <<Head(st)>> \o st)
         IN  IF m.how # "end" THEN m
             ELSE IF Len(m.st) < 2 THEN Fail
             ELSE IF m.st[1] # m.st[2]
                  THEN RunArms(Tail(arms), default, SubSeq(m.st, 3, Len(m.st)))
             ELSE IF Len(m.st) = 2 THEN Fail
             ELSE Run(Head(arms).body, SubSeq(m.st, 4, Len(m.st)))

Opt(o) == IF o = <<>> THEN <<>> ELSE o[1]

RunNode(e, st) ==
    CASE e.k = "word" /\ e.w = "exit" -> Result("exit", st)
      [] e.k = "word" /\ e.w = "?dup" ->
            IF st = <<>> THEN Fail
            ELSE Result("end", IF Truth(Head(st)) THEN <<Head(st)>> \o st ELSE st)
      [] e.k = "word" /\ e.w \notin {"exit", "?dup"} -> Prim(e.w, st)
      [] e.k = "if" ->
            IF st = <<>> THEN Fail
            ELSE Run(IF Truth(Head(st)) THEN e.then ELSE Opt(e.else), Tail(st))
      [] e.k = "until" -> RunUntil(e.body, st, 0)
      [] e.k = "again" -> RunAgain(e.body, st, 0)
      [] e.k = "while" -> RunWhile(e, st, 0)
      [] e.k = "do" ->
            IF Len(st) < 2 THEN Fail
            ELSE IF e.isQdo /\ st[1] = st[2]
                 THEN Result("end", SubSeq(st, 3, Len(st)))
                 ELSE RunDo(e, st[1], st[2], SubSeq(st, 3, Len(st)), 0)
      [] e.k = "case" -> RunArms(e.arms, Opt(e.default), st)

\* The word a body defines: EXIT and the end of the body both return.
Meaning(body, st) ==
    LET r == Run(body, st)
    IN  IF r.how = "exit" THEN Result("end", r.st) ELSE r

(***************************************************************************)
(* The Factor machine (external: Factor's kernel and math vocabularies and *)
(* forth.runtime, as emit.rs uses them).  Quotations are inside the        *)
(* combinator that takes them.  TRUE and FALSE stand for Factor's t and f, *)
(* which the emitted code makes only where a combinator takes them at once.*)
(* `return` ends its with-return by a continuation, which brings back the  *)
(* stack with-return was called on.                                        *)
(***************************************************************************)
RECURSIVE Exec(_, _), Op(_, _), Loop(_, _, _), DoLoop(_, _, _, _, _)

Exec(code, st) ==
    IF code = <<>> THEN Result("end", st)
    ELSE LET r == Op(Head(code), st)
         IN  IF r.how = "end" THEN Exec(Tail(code), r.st) ELSE r

Loop(q, st, n) ==
    LET r == Exec(q, st)
    IN  IF n = MaxIter THEN Spin
        ELSE IF r.how # "end" THEN r
        ELSE IF Head(r.st) THEN Loop(q, Tail(r.st), n + 1)
        ELSE Result("end", Tail(r.st))

DoLoop(q, index, limit, st, n) ==
    LET r == Exec(q, st)
    IN  IF n = MaxIter THEN Spin
        ELSE IF r.how # "end" THEN r
        ELSE IF r.st = <<>> THEN Fail
        ELSE IF index + Head(r.st) >= limit THEN Result("end", Tail(r.st))
        ELSE DoLoop(q, index + Head(r.st), limit, Tail(r.st), n + 1)

Op(o, st) ==
    CASE o.op = "prim"  -> Prim(o.w, st)
      [] o.op = "bool"  -> Result("end", <<o.b>> \o st)
      [] o.op = "zero?" -> IF st = <<>> THEN Fail
                           ELSE Result("end", <<Head(st) = 0>> \o Tail(st))
      [] o.op = "="     -> IF Len(st) < 2 THEN Fail
                           ELSE Result("end", <<st[1] = st[2]>>
                                              \o SubSeq(st, 3, Len(st)))
      [] o.op = "if"     -> Exec(IF Head(st) THEN o.t ELSE o.f, Tail(st))
      [] o.op = "unless" -> IF Head(st) THEN Result("end", Tail(st))
                                        ELSE Exec(o.q, Tail(st))
      [] o.op = "loop"   -> Loop(o.q, st, 0)
      [] o.op \in {"do-loop", "?do-loop"} ->
            IF Len(st) < 2 THEN Fail
            ELSE IF o.op = "?do-loop" /\ st[1] = st[2]
                 THEN Result("end", SubSeq(st, 3, Len(st)))
                 ELSE DoLoop(o.q, st[1], st[2], SubSeq(st, 3, Len(st)), 0)
      [] o.op = "return" -> Result("exit", st)
      [] o.op = "with-return" ->
            LET r == Exec(o.q, st) IN IF r.how = "exit" THEN Result("end", st) ELSE r
=============================================================================
