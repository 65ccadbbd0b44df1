----------------------------- MODULE MCServices -----------------------------
(* Objects, hooks, JSON, VIO, the poll backends and helpers, one at a time: *)
(* `service' is chosen at the start, and only that service takes steps.    *)
(* What does not touch broadcasts is explored apart: the objects of        *)
(* "object" have no metadata and no class of their own, and in "metadata"  *)
(* no handler is called.  In "object" at most three handlers are attached. *)
EXTENDS Objects, Hooks, Json, Vio, Backends, Helpers, TLC

CONSTANT Service

VARIABLE service

MCMsg == [h1 |-> "note", h2 |-> "destroy"]
MCDesc == [h1 |-> <<"s">>, h2 |-> <<"x">>]

\* the table of hooks folds case
MCHookCanon == [a |-> "A", A |-> "A"]

\* Documents that mowgli_json_parse_string is given whole: escapes, numbers
\* of every form, floats that %g writes short, with an exponent or not as a
\* number, a byte 0, a repeated key, an error, constants, empty containers.
MCText ==
  { <<"[","\"","\\","n","\\","u","0","0","0","1","\\","\"","\"","]">>,
    <<"[","0","1","0",","," ","-","1",",","1","e","1","]">>,
    <<"{","\"","a","\"",":","1","e","1",",","\"","a","\"",":","1","}">>,
    <<"[","-","1",".","5",",","0",".","1","2","3","4","5","6","7",",","2","e","-","5","]">>,
    <<"{","\"","a","\\","u","0","0","0","0","\"",":","9","9","9","9","9","9",".","7","}">>,
    <<"[","1","e","9","9","9",",","1","2",".","5",",","1","e","5","]">>,
    <<"[","\"","a","\\","u","0","0","0","0","b","\"","]">>,
    <<"[","-","1","e","9","9","9","]">>,
    <<"{","\"","a","\"",":","[","1"," ","1","}">>,
    <<"[","t","r","u","e",",","n","u","l","l",",","f","a","l","s","e","]">>,
    <<"{","\"","a","\"",":","{","}",",","\"","b","\"",":","[","]","}">> }

MCSymmetry == Permutations(Obj) \cup Permutations(VObj)

MCInit ==
  /\ service \in Service
  /\ ObjInit /\ HookInit /\ JsonInit /\ VioInit /\ BkInit /\ HpInit
  /\ service # "backend" => bkind = "poll"

MCNext ==
  /\ UNCHANGED service
  /\ \/ service = "object" /\ ObjNext
        /\ ~klass'.named /\ (\A o \in Obj : obj'[o].metadata = << >>)
        /\ FoldSet(LAMBDA o, k : k + Len(obj'[o].handlers), Len(klass'.handlers), Obj) <= 3
        /\ UNCHANGED <<hookVars, jsonVars, vioVars, bkVars, hpVars>>
     \/ service = "metadata" /\ ObjNext /\ bcast' = << >>
        /\ UNCHANGED <<hookVars, jsonVars, vioVars, bkVars, hpVars>>
     \/ service = "hook" /\ HookNext
        /\ UNCHANGED <<objVars, jsonVars, vioVars, bkVars, hpVars>>
     \/ service = "json" /\ JsonNext
        /\ UNCHANGED <<objVars, hookVars, vioVars, bkVars, hpVars>>
     \/ service = "vio" /\ VioNext
        /\ UNCHANGED <<objVars, hookVars, jsonVars, bkVars, hpVars>>
     \/ service = "backend" /\ BkNext
        /\ UNCHANGED <<objVars, hookVars, jsonVars, vioVars, hpVars>>
     \/ service = "helper" /\ HpNext
        /\ UNCHANGED <<objVars, hookVars, jsonVars, vioVars, bkVars>>

MCSpec ==
  MCInit /\ [][MCNext]_<<service, objVars, hookVars, jsonVars, vioVars, bkVars, hpVars>>
=============================================================================
