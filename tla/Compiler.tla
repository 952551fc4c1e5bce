------------------------------ MODULE Compiler ------------------------------
(* The compilation of one colon definition: the recursive-descent parser of  *)
(* control structures (parse.rs), the passes sema.rs runs over the body in   *)
(* this order (lower_qdup, resolve, lower_exit, effect inference) and the    *)
(* Factor code emit.rs writes for the result.                                *)
(*                                                                           *)
(* The source is read one token at a time; `frames` is the parser's call     *)
(* stack: one frame per active parse_block_until, the definition's own body  *)
(* loop at the bottom.  Once `;` is read the passes follow, one step each.   *)
(* Init picks the vocabulary the source is drawn from and its length: each   *)
(* vocabulary is a question of its own about the passes.                     *)
(*                                                                           *)
(* A word is one of 0 1 DUP DROP ?DUP EXIT: what the passes tell apart.      *)
(* Spans, declared effects, locals and comments are left out.                *)
EXTENDS ForthMachine, FiniteSets, SequencesExt

CONSTANTS Sources,   \* set of [words, max]: the tokens and how many of them
          Stacks     \* the stacks a compiled word is tried on

Words      == {"0", "1", "dup", "drop", "?dup", "exit"}
Openers    == {"if", "begin", "do", "?do", "case"}
Enders     == {"else", "then", "until", "again", "while", "repeat",
               "loop", "+loop", "of", "endof", "default", "endcase"}
Vocabulary == Words \cup Openers \cup Enders

ASSUME SourcesAssumption ==
    \A s \in Sources : s.words \subseteq Vocabulary /\ s.max \in Nat

VARIABLES src,       \* the member of Sources this source is drawn from
          toks,      \* the tokens read so far
          frames,    \* the parser's activations, outermost first
          stage,     \* how far the definition has come
          parsed,    \* the body as parsed
          body,      \* the body as the passes have left it
          effect,    \* what effect inference says of it
          code       \* the Factor code emitted for it

vars == <<src, toks, frames, stage, parsed, body, effect, code>>

(***************************************************************************)
(* AST nodes (ast.rs, Expr).  An Option is <<>> or <<value>>.              *)
(***************************************************************************)
WordRef(w)         == [k |-> "word", w |-> w]
If(t, e)           == [k |-> "if", then |-> t, else |-> e]
Until(b)           == [k |-> "until", body |-> b]
Again(b)           == [k |-> "again", body |-> b]
While(p, b)        == [k |-> "while", pred |-> p, body |-> b]
Do(q, b, plusN)    == [k |-> "do", isQdo |-> q, body |-> b, plusN |-> plusN]
Case(arms, d)      == [k |-> "case", arms |-> arms, default |-> d]
Arm(m, b)          == [match |-> m, body |-> b]

\* A frame: the block being read and what its construct has already parsed.
Frame(op, part, arms) == [op |-> op, part |-> part, arms |-> arms, body |-> <<>>]

(***************************************************************************)
(* Known(i, o) takes i cells and leaves o; Unknown absorbs.                *)
(***************************************************************************)
Known(i, o) == [in |-> i, out |-> o]
Unknown     == [in |-> -1, out |-> -1]

Init ==
    /\ src \in Sources
    /\ toks = <<>>
    /\ frames = <<Frame("def", <<>>, <<>>)>>
    /\ stage = "reading"
    /\ parsed = <<>> /\ body = <<>> /\ effect = Unknown /\ code = <<>>

(***************************************************************************)
(* The parser.                                                             *)
(***************************************************************************)
\* The terminators parse_if, parse_begin, parse_do and parse_case pass on.
Terminators(op) ==
    CASE op = "def"            -> {}
      [] op = "if"             -> {"else", "then"}
      [] op = "else"           -> {"then"}
      [] op = "begin"          -> {"until", "again", "while"}
      [] op = "while"          -> {"repeat"}
      [] op \in {"do", "?do"}  -> {"loop", "+loop"}
      [] op = "case"           -> {"of", "default", "endcase"}
      [] op = "of"             -> {"endof"}
      [] op = "default"        -> {"endcase"}

Top    == Last(frames)
Outer  == Front(frames)

\* body.push(e) in the frame on top of fs.
Push(fs, e) == [fs EXCEPT ![Len(fs)].body = Append(@, e)]

\* The construct is complete: its frame returns e to the caller's body.
Return(e) == frames' = Push(Outer, e)

\* The construct goes on with another block.
GoOn(op, part, arms) == frames' = Append(Outer, Frame(op, part, arms))

Reading(t) ==
    /\ stage = "reading"
    /\ Len(toks) < src.max
    /\ t \in src.words
    /\ toks' = Append(toks, t)
    /\ UNCHANGED <<src, parsed, body, effect, code>>

\* expr_one: a word of no structure.
ReadWord(t) ==
    /\ Reading(t) /\ t \in Words
    /\ frames' = Push(frames, WordRef(t))
    /\ UNCHANGED stage

\* expr_one: IF, BEGIN, DO, ?DO or CASE calls the parser of its construct.
ReadOpener(t) ==
    /\ Reading(t) /\ t \in Openers
    /\ frames' = Append(frames, Frame(t, <<>>, <<>>))
    /\ UNCHANGED stage

EndIf(t) ==
    /\ Reading(t) /\ Top.op \in {"if", "else"} /\ t \in Terminators(Top.op)
    /\ CASE t = "else" -> GoOn("else", Top.body, <<>>)
         [] t = "then" -> Return(IF Top.op = "if" THEN If(Top.body, <<>>)
                                 ELSE If(Top.part, <<Top.body>>))
    /\ UNCHANGED stage

\* A mutant of EndBegin that swaps the condition and the body of a WHILE.
MutEndBegin(t) ==
    /\ Reading(t) /\ Top.op \in {"begin", "while"} /\ t \in Terminators(Top.op)
    /\ CASE t = "until"  -> Return(Until(Top.body))
         [] t = "again"  -> Return(Again(Top.body))
         [] t = "while"  -> GoOn("while", Top.body, <<>>)
         [] t = "repeat" -> Return(While(Top.body, Top.part))
    /\ UNCHANGED stage

EndBegin(t) ==
    /\ Reading(t) /\ Top.op \in {"begin", "while"} /\ t \in Terminators(Top.op)
    /\ CASE t = "until"  -> Return(Until(Top.body))
         [] t = "again"  -> Return(Again(Top.body))
         [] t = "while"  -> GoOn("while", Top.body, <<>>)
         [] t = "repeat" -> Return(While(Top.part, Top.body))
    /\ UNCHANGED stage

EndDo(t) ==
    /\ Reading(t) /\ Top.op \in {"do", "?do"} /\ t \in Terminators(Top.op)
    /\ Return(Do(Top.op = "?do", Top.body, t = "+loop"))
    /\ UNCHANGED stage

\* OTHER is DEFAULT under another name.
EndCase(t) ==
    /\ Reading(t) /\ Top.op \in {"case", "of", "default"}
    /\ t \in Terminators(Top.op)
    /\ CASE t = "of"      -> GoOn("of", Top.body, Top.arms)
         [] t = "endof"   -> GoOn("case", <<>>,
                                  Append(Top.arms, Arm(Top.part, Top.body)))
         [] t = "default" -> GoOn("default", <<>>, Top.arms)
         [] t = "endcase" ->
              Return(Case(Top.arms, IF Top.op = "case" /\ Top.body = <<>>
                                    THEN <<>> ELSE <<Top.body>>))
    /\ UNCHANGED stage

\* A terminator no block is waiting for (StrayControlWord).
Stray(t) ==
    /\ Reading(t) /\ t \in Enders \ Terminators(Top.op)
    /\ stage' = "StrayControlWord"
    /\ UNCHANGED frames

\* `;` ends the definition, or finds a block open (UnterminatedControl).
Semicolon ==
    /\ stage = "reading"
    /\ \/ /\ Len(frames) = 1
          /\ stage' = "parsed"
          /\ parsed' = Top.body /\ body' = Top.body
       \/ /\ Len(frames) > 1
          /\ stage' = "UnterminatedControl"
          /\ UNCHANGED <<parsed, body>>
    /\ UNCHANGED <<src, toks, frames, effect, code>>

(***************************************************************************)
(* lower_qdup: ?DUP IF t ELSE e THEN becomes DUP IF t ELSE DROP e THEN.    *)
(***************************************************************************)
IsWord(e, w) == e.k = "word" /\ e.w = w

RECURSIVE QdupSeq(_)

OptMap(f(_), o) == IF o = <<>> THEN <<>> ELSE <<f(o[1])>>

QdupNested(e) ==
    CASE e.k = "word"  -> e
      [] e.k = "if"    -> If(QdupSeq(e.then), OptMap(QdupSeq, e.else))
      [] e.k = "while" -> While(QdupSeq(e.pred), QdupSeq(e.body))
      [] e.k \in {"until", "again", "do"} -> [e EXCEPT !.body = QdupSeq(@)]
      [] e.k = "case"  ->
            Case([i \in DOMAIN e.arms |-> Arm(QdupSeq(e.arms[i].match),
                                              QdupSeq(e.arms[i].body))],
                 OptMap(QdupSeq, e.default))

QdupSeq(seq) ==
    IF seq = <<>> THEN <<>>
    ELSE IF IsWord(Head(seq), "?dup") /\ Len(seq) > 1 /\ seq[2].k = "if"
    THEN << WordRef("dup"),
            If(QdupSeq(seq[2].then),
               << <<WordRef("drop")>> \o QdupSeq(Opt(seq[2].else)) >>) >>
         \o QdupSeq(SubSeq(seq, 3, Len(seq)))
    ELSE <<QdupNested(Head(seq))>> \o QdupSeq(Tail(seq))

LowerQdup ==
    /\ stage = "parsed"
    /\ stage' = "desugared"
    /\ body' = QdupSeq(body)
    /\ UNCHANGED <<src, toks, frames, parsed, effect, code>>

(***************************************************************************)
(* resolve: every word of the body is looked up.  The built-in table holds *)
(* them all but ?DUP, which no Factor word can stand for.                  *)
(***************************************************************************)
RECURSIVE Walk(_, _)

\* The nodes of a body, however deep; in the match expressions of CASE too
\* when `matches`.
Walk(seq, matches) ==
    UNION { LET e == seq[i] IN
            {e} \cup CASE e.k = "word"  -> {}
                       [] e.k = "if"    -> Walk(e.then, matches)
                                           \cup Walk(Opt(e.else), matches)
                       [] e.k = "while" -> Walk(e.pred, matches)
                                           \cup Walk(e.body, matches)
                       [] e.k \in {"until", "again", "do"} -> Walk(e.body, matches)
                       [] e.k = "case"  ->
                            Walk(Opt(e.default), matches) \cup
                            UNION { (IF matches THEN Walk(e.arms[a].match, matches)
                                     ELSE {}) \cup Walk(e.arms[a].body, matches)
                                    : a \in DOMAIN e.arms }
          : i \in DOMAIN seq }

IsExit(e) == IsWord(e, "exit")

\* resolve_exprs goes everywhere; body_uses_exit skips the match expressions.
Nodes(seq)      == Walk(seq, TRUE)
UsesExit(seq)   == \E e \in Walk(seq, FALSE) : IsExit(e)

Resolve ==
    /\ stage = "desugared"
    /\ stage' = IF \E e \in Nodes(body) : IsWord(e, "?dup")
                THEN "UnknownWord" ELSE "resolved"
    /\ UNCHANGED <<src, toks, frames, parsed, body, effect, code>>

(***************************************************************************)
(* lower_exit: an EXIT outside loops is written away.  What follows an IF  *)
(* or a CASE that can EXIT moves into its branches, where the EXIT cuts it *)
(* off; loops are left as they are.  (The `terminates` flag of lower_seq   *)
(* reaches no decision, and is left out.)                                  *)
(***************************************************************************)
RECURSIVE LowerSeq(_)

CaseUsesExit(e) ==
    \/ \E a \in DOMAIN e.arms : UsesExit(e.arms[a].body)
    \/ UsesExit(Opt(e.default))

\* A mutant of LowerIf that appends the tail to branches already lowered.
MutLowerIf(e, tail) == If(LowerSeq(e.then) \o tail, <<LowerSeq(Opt(e.else)) \o tail>>)

LowerIf(e, tail) == If(LowerSeq(e.then \o tail), <<LowerSeq(Opt(e.else) \o tail)>>)

LowerCase(e, tail) ==
    LET default == LowerSeq(Opt(e.default) \o tail)
    IN  Case([a \in DOMAIN e.arms |-> Arm(e.arms[a].match,
                                          LowerSeq(e.arms[a].body \o tail))],
             IF default = <<>> THEN <<>> ELSE <<default>>)

LowerNested(e) ==
    CASE e.k = "if"   -> If(LowerSeq(e.then), OptMap(LowerSeq, e.else))
      [] e.k = "case" ->
            Case([a \in DOMAIN e.arms |-> Arm(e.arms[a].match,
                                              LowerSeq(e.arms[a].body))],
                 OptMap(LowerSeq, e.default))
      [] e.k \notin {"if", "case"} -> e

LowerSeq(seq) ==
    IF seq = <<>> THEN <<>>
    ELSE LET e    == Head(seq)
             tail == Tail(seq)
         IN  CASE IsExit(e) -> <<>>
               [] e.k = "if" /\ (UsesExit(e.then) \/ UsesExit(Opt(e.else))) ->
                     <<LowerIf(e, tail)>>
               [] e.k = "case" /\ CaseUsesExit(e) -> <<LowerCase(e, tail)>>
               [] OTHER -> <<LowerNested(e)>> \o LowerSeq(tail)

LowerExit ==
    /\ stage = "resolved"
    /\ stage' = "lowered"
    /\ body' = LowerSeq(body)
    /\ UNCHANGED <<src, toks, frames, parsed, effect, code>>

Then(a, b) ==
    CASE Unknown \in {a, b} -> Unknown
      [] Unknown \notin {a, b} /\ a.out >= b.in -> Known(a.in, a.out - b.in + b.out)
      [] Unknown \notin {a, b} /\ a.out < b.in  -> Known(a.in + b.in - a.out, b.out)

RECURSIVE InferBlock(_), InferCase(_, _)

\* Branches must agree.
IfElse(t, e) == IF t = e THEN t ELSE Unknown

\* dup MATCH = , then the arm without the selector or the arms that follow.
InferCase(arms, default) ==
    IF arms = <<>> THEN Then(InferBlock(default), Known(1, 0))
    ELSE LET cond == Then(Then(Known(1, 2), InferBlock(Head(arms).match)), Known(2, 1))
             arm  == Then(Known(1, 0), InferBlock(Head(arms).body))
         IN  Then(Then(cond, Known(1, 0)),
                  IfElse(arm, InferCase(Tail(arms), default)))

\* EXIT is in no effect table: a body that still has one is Unknown.
WordEffect(w) ==
    CASE w \in {"0", "1"} -> Known(0, 1)
      [] w = "dup"        -> Known(1, 2)
      [] w = "drop"       -> Known(1, 0)
      [] w = "exit"       -> Unknown

UntilEffect(b) ==
    IF b # Unknown /\ b.out > b.in THEN Known(b.in, b.out - 1) ELSE Unknown

\* A mutant of WhileEffect that forgets what the body takes.
MutWhileEffect(p, b) ==
    IF Unknown \notin {p, b} /\ p.out = p.in + 1 /\ b.in = b.out
    THEN Known(p.in, p.in) ELSE Unknown

WhileEffect(p, b) ==
    IF Unknown \notin {p, b} /\ p.out = p.in + 1 /\ b.in = b.out
    THEN LET n == IF p.in > b.in THEN p.in ELSE b.in IN Known(n, n)
    ELSE Unknown

DoEffect(b) == IF b # Unknown /\ b.in = b.out THEN Known(2 + b.in, b.in) ELSE Unknown

EffectOf(e) ==
    CASE e.k = "word"  -> WordEffect(e.w)
      [] e.k = "if" /\ e.else = <<>> ->
            LET t == InferBlock(e.then)
            IN  IF t.in = t.out THEN Then(Known(1, 0), t) ELSE Unknown
      [] e.k = "if" /\ e.else # <<>> ->
            Then(Known(1, 0), IfElse(InferBlock(e.then), InferBlock(e.else[1])))
      [] e.k = "until" -> UntilEffect(InferBlock(e.body))
      [] e.k = "again" -> Unknown
      [] e.k = "while" -> WhileEffect(InferBlock(e.pred), InferBlock(e.body))
      [] e.k = "do"    -> DoEffect(InferBlock(e.body))
      [] e.k = "case"  -> InferCase(e.arms, Opt(e.default))

InferBlock(seq) ==
    IF seq = <<>> THEN Known(0, 0)
    ELSE FoldLeft(LAMBDA acc, e : Then(acc, EffectOf(e)), Known(0, 0), seq)

Infer ==
    /\ stage = "lowered"
    /\ stage' = "inferred"
    /\ effect' = InferBlock(body)
    /\ UNCHANGED <<src, toks, frames, parsed, body, code>>

(***************************************************************************)
(* The code emit.rs writes: Factor's booleans are not Forth's flags, so    *)
(* every flag goes through zero? and the branches change places.           *)
(***************************************************************************)
P(w)        == [op |-> "prim", w |-> w]
Zero        == [op |-> "zero?"]
Bool(b)     == [op |-> "bool", b |-> b]
FIf(t, f)   == [op |-> "if", t |-> t, f |-> f]
Quot(op, q) == [op |-> op, q |-> q]

RECURSIVE EmitExprs(_), EmitCase(_, _)

EmitCase(arms, default) ==
    IF arms = <<>> THEN EmitExprs(default) \o <<P("drop")>>
    ELSE <<P("dup")>> \o EmitExprs(Head(arms).match)
         \o << [op |-> "="],
               FIf(<<P("drop")>> \o EmitExprs(Head(arms).body),
                   EmitCase(Tail(arms), default)) >>

\* A mutant of EmitIf that leaves the branches in source order after zero?.
MutEmitIf(e) ==
    IF e.else = <<>>
    THEN <<Zero, Quot("unless", EmitExprs(e.then))>>
    ELSE <<Zero, FIf(EmitExprs(e.then), EmitExprs(e.else[1]))>>

EmitIf(e) ==
    IF e.else = <<>>
    THEN <<Zero, Quot("unless", EmitExprs(e.then))>>
    ELSE <<Zero, FIf(EmitExprs(e.else[1]), EmitExprs(e.then))>>

EmitWhile(e) ==
    <<Quot("loop", EmitExprs(e.pred)
                   \o <<Zero, FIf(<<Bool(FALSE)>>,
                                  EmitExprs(e.body) \o <<Bool(TRUE)>>)>>)>>

EmitDo(e) ==
    <<Quot(IF e.isQdo THEN "?do-loop" ELSE "do-loop",
           EmitExprs(e.body) \o (IF e.plusN THEN <<>> ELSE <<P("1")>>))>>

EmitExpr(e) ==
    CASE e.k = "word"  -> IF IsExit(e) THEN <<[op |-> "return"]>> ELSE <<P(e.w)>>
      [] e.k = "if"    -> EmitIf(e)
      [] e.k = "until" -> <<Quot("loop", EmitExprs(e.body) \o <<Zero>>)>>
      [] e.k = "again" -> <<Quot("loop", EmitExprs(e.body) \o <<Bool(TRUE)>>)>>
      [] e.k = "while" -> EmitWhile(e)
      [] e.k = "do"    -> EmitDo(e)
      [] e.k = "case"  -> EmitCase(e.arms, Opt(e.default))

EmitExprs(seq) == FlattenSeq([i \in DOMAIN seq |-> EmitExpr(seq[i])])

\* emit_definition: an EXIT that is left makes the whole body a with-return.
Emit ==
    /\ stage = "inferred"
    /\ stage' = "compiled"
    /\ code' = IF UsesExit(body) THEN <<Quot("with-return", EmitExprs(body))>>
               ELSE EmitExprs(body)
    /\ UNCHANGED <<src, toks, frames, parsed, body, effect>>

Read(t) == ReadWord(t) \/ ReadOpener(t) \/ EndIf(t) \/ EndBegin(t) \/ EndDo(t)
           \/ EndCase(t) \/ Stray(t)

Next == (\E t \in Vocabulary : Read(t)) \/ Semicolon
        \/ LowerQdup \/ Resolve \/ LowerExit \/ Infer \/ Emit

Spec == Init /\ [][Next]_vars

(***************************************************************************)
(* Properties.                                                             *)
(***************************************************************************)
RECURSIVE Unparse(_)

UnparseArms(arms) ==
    FlattenSeq([a \in DOMAIN arms |-> Unparse(arms[a].match) \o <<"of">>
                                      \o Unparse(arms[a].body) \o <<"endof">>])

UnparseNode(e) ==
    CASE e.k = "word"  -> <<e.w>>
      [] e.k = "if"    -> <<"if">> \o Unparse(e.then)
                          \o (IF e.else = <<>> THEN <<>>
                              ELSE <<"else">> \o Unparse(e.else[1])) \o <<"then">>
      [] e.k = "until" -> <<"begin">> \o Unparse(e.body) \o <<"until">>
      [] e.k = "again" -> <<"begin">> \o Unparse(e.body) \o <<"again">>
      [] e.k = "while" -> <<"begin">> \o Unparse(e.pred) \o <<"while">>
                          \o Unparse(e.body) \o <<"repeat">>
      [] e.k = "do"    -> <<IF e.isQdo THEN "?do" ELSE "do">> \o Unparse(e.body)
                          \o <<IF e.plusN THEN "+loop" ELSE "loop">>
      [] e.k = "case"  -> <<"case">> \o UnparseArms(e.arms)
                          \o Unparse(Opt(e.default)) \o <<"endcase">>

Unparse(seq) == FlattenSeq([i \in DOMAIN seq |-> UnparseNode(seq[i])])

\* parse_case forgets what it has read when DEFAULT comes after anything but
\* CASE or ENDOF.
DefaultInPlace ==
    \A i \in DOMAIN toks : toks[i] = "default" => toks[i-1] \in {"case", "endof"}

\* The parser puts every token where the source has it: read back, the tree
\* of a parsed definition is the token sequence it was parsed from, but for
\* the optional word DEFAULT (parse_if, parse_begin, parse_do, parse_case).
\* Words between the last arm and DEFAULT aside: they are dropped.
ReadsBack ==
    (stage = "parsed" /\ DefaultInPlace) =>
        Unparse(parsed) = SelectSeq(toks, LAMBDA t : t # "default")

RECURSIVE OutsideLoops(_)

\* The nodes lower_exit reaches: in no loop and in no match expression.
OutsideLoops(seq) ==
    UNION { LET e == seq[i] IN
            {e} \cup CASE e.k = "if"   -> OutsideLoops(e.then)
                                          \cup OutsideLoops(Opt(e.else))
                       [] e.k = "case" ->
                            OutsideLoops(Opt(e.default)) \cup
                            UNION {OutsideLoops(e.arms[a].body) : a \in DOMAIN e.arms}
                       [] e.k \notin {"if", "case"} -> {}
          : i \in DOMAIN seq }

\* "Any EXIT that survives the transform is one that's inside a loop body"
\* (lower_exit.rs), and running the pass again changes nothing (emit.rs),
\* however IFs, CASEs and loops that EXIT are nested in and follow each other.
ExitsOnlyInLoops ==
    stage = "lowered" => /\ \A e \in OutsideLoops(body) : ~IsExit(e)
                         /\ LowerSeq(body) = body

\* lower_exit does not keep the meaning of a CASE that EXITs: the rest of the
\* body becomes its default, which runs under the selector.  Nor does
\* with-return keep that of an EXIT in a loop: it takes the stack back to what
\* it was when the word was called.
ExitInCase ==
    \E e \in Nodes(parsed) : e.k = "case" /\ \E x \in Nodes(<<e>>) : IsExit(x)

\* A ?DUP that no IF follows.
BareQdup ==
    \E i \in DOMAIN toks : toks[i] = "?dup" /\ (i = Len(toks) \/ toks[i+1] # "if")

\* The compiled word does what the source says: on every stack the emitted
\* Factor code ends, fails or loops as ANS Forth does on the parsed body, and
\* leaves the same stack; aside from EXIT in loops and in CASE, and from stacks
\* that start a DO at or above its limit, where ANS Forth counts all the way
\* round and the runtime's do-loop does not.  And the front end makes code of
\* it, whatever its structures are nested in, unless it has a bare ?DUP; Factor
\* may still refuse code whose branches leave different depths (lower_qdup.rs,
\* lower_exit.rs, emit.rs; do-loop of runtime.factor).
MeaningKept ==
    /\ stage = "UnknownWord" => BareQdup
    /\ (stage = "compiled" /\ ~UsesExit(body) /\ ~ExitInCase) =>
          \A st \in Stacks : Meaning(parsed, st) \in {Exec(code, st), Above}

\* Loops whose inferred effect describes one round: an UNTIL body that leaves
\* more than its flag, a +LOOP body that takes its step from below.
RoundCounted(e) ==
    \/ e.k = "until" /\ LET b == InferBlock(e.body) IN b.out > b.in + 1
    \/ e.k = "do" /\ e.plusN

\* The effect the compiler writes into the definition is the effect the code
\* has: with that many cells it never underflows, it leaves as many as
\* announced, and the cells below are untouched (effect.rs, "correct by
\* construction").  Loops whose effect is that of one round aside.
EffectSound ==
    (stage = "compiled" /\ effect # Unknown
                        /\ \A e \in Nodes(body) : ~RoundCounted(e)) =>
        \A st \in Stacks : Len(st) >= effect.in =>
            LET r     == Exec(code, st)
                below == Len(st) - effect.in
            IN  /\ r.how # "fail"
                /\ r.how = "end" =>
                     /\ Len(r.st) = below + effect.out
                     /\ SubSeq(r.st, effect.out + 1, Len(r.st))
                        = SubSeq(st, effect.in + 1, Len(st))
=============================================================================
