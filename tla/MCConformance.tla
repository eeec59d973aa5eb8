---------------------------- MODULE MCConformance ----------------------------
(* The conformance cases, and a small element: its writers set and splice   *)
(* a title, lock it, unlock it, and place and remove the element.           *)
EXTENDS Conformance

MCOperations ==
    {<<Create("card"), Set("title", <<"a">>)>>,
     <<Set("title", <<"b">>), Lock("title")>>,
     <<Lock("title"), Unlock("title"), Removed>>,
     <<Unlock("title")>>,
     <<Change("title", [at |-> 1, remove |-> 1, insert |-> <<"c">>]), Place("board")>>}
=============================================================================
