--------------------------- MODULE SessionService ---------------------------
(* Session, worker, listener slot and dispatcher together implement the      *)
(* evaluation service EvalService.                                           *)
EXTENDS Session

Service == INSTANCE EvalService WITH
    sent     <- issued,
    waiting  <- IF hpc \in {"wait1", "wait2", "disc"} THEN issued ELSE 0,
    ran      <- {e \in Evals : <<owner[e], e>> \in ended},
    answered <- replied,
    result   <- outcome,
    stray    <- Leaked

(* Session::eval is a service in the sense of EvalService: the sources run   *)
(* one at a time, in order and at most once, and Ok is returned for a source *)
(* exactly when its own VM ran it to the end and reported it, whatever       *)
(* timeouts, Breaks, panics and late replies come between, until a Session   *)
(* whose eval timed out is dropped (session.rs, Session::eval).              *)
ImplementsService == Service!Spec
=============================================================================
