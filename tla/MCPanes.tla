------------------------------ MODULE MCPanes ------------------------------
(* A picture drawn inside an offset, and a program that pops too often and   *)
(* then forgets to: nothing keeps pushes and pops in balance.                *)
EXTENDS Panes

MCPrograms == {<<"push", "draw", "pop">>, <<"pop", "push">>}
=============================================================================
