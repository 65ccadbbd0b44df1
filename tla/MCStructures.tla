---------------------------- MODULE MCStructures ----------------------------
(* The memory heap and the containers, one at a time: `structure' is       *)
(* chosen at the start, and only that structure takes steps.               *)
EXTENDS Heap, ListSort, Dictionary, MCPatricia, Queue, Index, TLC

VARIABLE structure

\* nodes are numbers; 2 and 3 have equal keys
MCKey(n) == n \div 2

MCSymmetry == Permutations(List)

MCInit ==
  /\ structure \in {"heap", "list", "dictionary", "patricia", "queue", "index"}
  /\ Init /\ ListInit /\ DictInit /\ PatInit /\ QueueInit /\ IndexInit
  /\ structure # "dictionary" => dict.cmp = "up"

MCNext ==
  /\ UNCHANGED structure
  /\ \/ structure = "heap" /\ Next
        /\ UNCHANGED <<listVars, dictVars, patVars, queueVars, indexVars>>
     \/ structure = "list" /\ SortNext
        /\ UNCHANGED <<vars, dictVars, patVars, queueVars, indexVars>>
     \/ structure = "dictionary" /\ DictNext
        /\ UNCHANGED <<vars, listVars, patVars, queueVars, indexVars>>
     \/ structure = "patricia" /\ PatNext
        /\ UNCHANGED <<vars, listVars, dictVars, queueVars, indexVars>>
     \/ structure = "queue" /\ QueueNext
        /\ UNCHANGED <<vars, listVars, dictVars, patVars, indexVars>>
     \/ structure = "index" /\ IndexNext
        /\ UNCHANGED <<vars, listVars, dictVars, patVars, queueVars>>

MCSpec ==
  MCInit /\ [][MCNext]_<<structure, vars, listVars, dictVars, patVars, queueVars, indexVars>>
=============================================================================
