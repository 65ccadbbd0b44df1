-------------------------------- MODULE Hooks --------------------------------
(***************************************************************************)
(* base/hook.c: named lists of functions.  A function that a hook calls is *)
(* client code, which may associate and dissociate functions of the same   *)
(* hook and call hooks: `hcalls' is the stack of calls under way, each at  *)
(* the item whose function runs.                                           *)
(*                                                                         *)
(* mowgli_hook_call reads the next pointer of an item after its function   *)
(* has returned, so a function must not dissociate an item that is being   *)
(* called; HookMayDissociate is that rule of the callers.                  *)
(***************************************************************************)
EXTENDS Integers, Sequences, Lists

CONSTANTS
  HookName,     \* names callers use
  HookCanon,    \* the name each becomes in the table of hooks
  HookFunc,
  HookItem,     \* items of mowgli_hook_item_heap
  HookDepth     \* bound: calls within calls

VARIABLES
  hooks,        \* the registered hooks: name in the table -> items in order
  hfunc,        \* the function of each item
  hcalls

hookVars == <<hooks, hfunc, hcalls>>

HookInit ==
  /\ hooks = << >>
  /\ hfunc = [i \in HookItem |-> CHOOSE f \in HookFunc : TRUE]
  /\ hcalls = << >>

mowgli_hook_find(n) == HookCanon[n] \in DOMAIN hooks

HookItems(h) == IF h \in DOMAIN hooks THEN hooks[h] ELSE << >>

HookAdded(h) == [x \in DOMAIN hooks \cup {h} |-> HookItems(x)]

mowgli_hook_register(n) ==
  /\ ~mowgli_hook_find(n)
  /\ hooks' = HookAdded(HookCanon[n])
  /\ UNCHANGED <<hfunc, hcalls>>

HookInUse == UNION {ToSet(hooks[h]) : h \in DOMAIN hooks}

mowgli_hook_associate(n, f, i) ==
  /\ i \in HookItem \ HookInUse
  /\ hooks' = [HookAdded(HookCanon[n]) EXCEPT ![HookCanon[n]] = Append(@, i)]
  /\ hfunc' = [hfunc EXCEPT ![i] = f]
  /\ UNCHANGED hcalls

HookMayDissociate(i) == \A c \in ToSet(hcalls) : c.cur # i

\* the first item with that function
mowgli_hook_dissociate(n, f) ==
  /\ mowgli_hook_find(n)
  /\ \E k \in DOMAIN HookItems(HookCanon[n]) :
       LET s == HookItems(HookCanon[n])
       IN  /\ hfunc[s[k]] = f
           /\ \A j \in 1..(k - 1) : hfunc[s[j]] # f
           /\ HookMayDissociate(s[k])
           /\ hooks' = [hooks EXCEPT ![HookCanon[n]] = Unlink(@, s[k])]
           /\ hcalls' = [d \in DOMAIN hcalls |-> [hcalls[d] EXCEPT !.todo = @ \ {s[k]},
                                                                  !.done = @ \ {s[k]}]]
  /\ UNCHANGED hfunc

\* todo: the items that were there when the call began, are still there and
\* have not been called; done: those that have been
mowgli_hook_call(n) ==
  /\ Len(hcalls) < HookDepth
  /\ HookItems(HookCanon[n]) # << >>
  /\ LET s == HookItems(HookCanon[n])
     IN  hcalls' = Append(hcalls, [hook |-> HookCanon[n], cur |-> Head(s),
                                   todo |-> ToSet(Tail(s)), done |-> {}])
  /\ UNCHANGED <<hooks, hfunc>>

\* finds its place again by the function, as dissociate does
Mutant_HookAfter(c) ==
  LET s == hooks[c.hook]
  IN  SubSeq(s, SelectInSeq(s, LAMBDA i : hfunc[i] = hfunc[c.cur]) + 1, Len(s))

\* what follows the item whose function runs
HookAfter(c) ==
  LET s == hooks[c.hook] IN SubSeq(s, IndexOf(s, c.cur) + 1, Len(s))

\* the function returns: on to the next item, or back to the caller
HookFunctionReturns ==
  /\ hcalls # << >>
  /\ LET c == Last(hcalls)
         r == HookAfter(c)
     IN  hcalls' = IF r = << >> THEN Front(hcalls)
                   ELSE Append(Front(hcalls), [c EXCEPT !.cur = Head(r),
                                                        !.todo = @ \ {Head(r)},
                                                        !.done = @ \cup {c.cur}])
  /\ UNCHANGED <<hooks, hfunc>>

HookNext ==
  \/ \E n \in HookName :
       \/ mowgli_hook_register(n)
       \/ mowgli_hook_call(n)
       \/ \E f \in HookFunc : \/ mowgli_hook_dissociate(n, f)
                              \/ \E i \in HookItem : mowgli_hook_associate(n, f, i)
  \/ HookFunctionReturns

HookSpec == HookInit /\ [][HookNext]_hookVars

-----------------------------------------------------------------------------
\* A function that runs is associated, and the items that were there when a
\* call began, have not been called and have not been dissociated are still
\* ahead of it: whatever the functions add, remove and call, a hook calls
\* each of them, and none twice.
HookCallsEach ==
  \A d \in DOMAIN hcalls :
    LET c == hcalls[d]
    IN  /\ c.cur \in ToSet(hooks[c.hook]) /\ c.cur \notin c.done
        /\ c.todo \subseteq ToSet(HookAfter(c))
=============================================================================
