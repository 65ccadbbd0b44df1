------------------------------- MODULE Objects -------------------------------
(***************************************************************************)
(* object/*.c and base/argstack.c: reference-counted objects with classes, *)
(* message handlers and metadata, and the argument stacks handlers are     *)
(* given.                                                                  *)
(*                                                                         *)
(* A broadcast calls its handlers one after the other, and a handler is    *)
(* client code that may do whatever is done outside of one: `bcast' is the *)
(* stack of the broadcasts under way, the innermost last.  A handler may   *)
(* drop the last reference to an object that broadcasts below it walk;     *)
(* they go on, with what is left of it.                                    *)
(*                                                                         *)
(* Clients take and drop references only to objects they hold one to, do   *)
(* not detach a handler that is running, and pop only arguments that are   *)
(* there.  `refs' is the number of references clients hold, `destroyed'    *)
(* how often the destructor was called for what is or was at each address, *)
(* and `self' of a broadcast says "held" until the last reference to its   *)
(* object is dropped; no function reads them.                              *)
(***************************************************************************)
EXTENDS Integers, FiniteSetsExt, Sequences, SequencesExt

CONSTANTS
  Obj,           \* addresses of objects
  ObjHandler,    \* message handlers clients attach
  ObjMsg,        \* maps each to the message it handles; messages are
                 \* "create", "destroy" and "note", which clients broadcast
  ObjDesc,       \* maps each to its description of the message's arguments
  ObjKey,        \* names of metadata
  ObjMaxRefs,    \* bound: references clients hold
  ObjDepth       \* bound: broadcasts under way

ASSUME ObjAssumption == ObjMaxRefs \in Nat \ {0}

VARIABLES
  obj, klass, bcast, refs, destroyed

objVars == <<obj, klass, bcast, refs, destroyed>>

NoObj == [live |-> FALSE, refcount |-> 0, klass |-> "none",
          handlers |-> << >>, metadata |-> << >>]

\* Three classes: "static" is registered by the program; "own" is the class
\* an object gets when it names none, a dynamic one with the object's name;
\* "blank" is what mowgli_object_class_init leaves of such a class when its
\* name is taken.  named: the class table has an entry of that name, which
\* stays there when the class is destroyed.
ObjInit ==
  /\ obj = [o \in Obj |-> NoObj]
  /\ klass = [handlers |-> << >>, named |-> FALSE]
  /\ bcast = << >>
  /\ refs = [o \in Obj |-> 0]
  /\ destroyed = [o \in Obj |-> 0]

-----------------------------------------------------------------------------
(* Messages.                                                               *)

\* one argument for each character of a description; a stack that could not
\* be made has none to pop
mowgli_argstack_create_from_va_list(desc) ==
  IF ToSet(desc) \subseteq {"s", "d", "p", "b"} THEN desc ELSE << >>

\* the first handler of message m in a list, from place i on; 0 if none
ObjSeek(hs, m, i) ==
  LET js == {j \in i..Len(hs) : ObjMsg[hs[j]] = m}
  IN  IF js = {} THEN 0 ELSE Min(js)

\* Only the registered class can have handlers.  The argument stack is made
\* from the description of one of them; an object's own handlers are not
\* looked at when there is none.
mowgli_object_message_broadcast(o, k, m) ==
  LET i == IF k = "static" THEN ObjSeek(klass.handlers, m, 1) ELSE 0
  IN  IF i = 0 THEN << >>
      ELSE << [obj |-> o, msg |-> m, at |-> "class", next |-> i, self |-> "held",
               left |-> << >>,
               args |-> mowgli_argstack_create_from_va_list(ObjDesc[klass.handlers[i]])] >>

\* The list of own handlers a broadcast goes on to: when its object has been
\* freed that is read from memory that holds an empty list, what was there,
\* or what is there now.
ObjOwn(b) == IF b.self = "freed" THEN {<< >>, b.left, obj[b.obj].handlers}
             ELSE {obj[b.obj].handlers}

\* the broadcast with the handler after the one that runs: of the class, then
\* of the object; the nodes of a freed object's list are never freed
ObjAdvance(b, own) ==
  LET hs == CASE b.at = "class" -> klass.handlers
              [] b.at = "object" /\ b.self = "freed" -> b.left
              [] b.at = "object" /\ b.self # "freed" -> obj[b.obj].handlers
      i == ObjSeek(hs, b.msg, b.next + 1)
      j == ObjSeek(own, b.msg, 1)
  IN  IF i # 0 THEN <<[b EXCEPT !.next = i]>>
      ELSE IF b.at = "class" /\ j # 0
      THEN <<[b EXCEPT !.at = "object", !.next = j,
                       !.left = IF b.self = "freed" THEN own ELSE @]>>
      ELSE << >>

mowgli_object_class_init == [klass EXCEPT !.named = TRUE]

\* init with the registered class, and with none
mowgli_object_init(o, k) ==
  /\ ~obj[o].live
  /\ LET kk == IF k = "static" THEN k ELSE IF klass.named THEN "blank" ELSE "own"
     IN  /\ obj' = [obj EXCEPT ![o] = [NoObj EXCEPT !.live = TRUE, !.refcount = 1,
                                                     !.klass = kk]]
         /\ klass' = IF kk = "own" THEN mowgli_object_class_init ELSE klass
         /\ bcast' = bcast \o mowgli_object_message_broadcast(o, kk, "create")
  /\ Len(bcast') <= ObjDepth
  /\ refs' = [refs EXCEPT ![o] = 1]
  /\ destroyed' = [destroyed EXCEPT ![o] = 0]

\* broadcasts of an object that the last reference to is dropped, and that
\* is freed
ObjDropped(bs, o) ==
  [i \in DOMAIN bs |-> IF bs[i].obj = o /\ bs[i].self = "held"
                       THEN [bs[i] EXCEPT !.self = "dropped"] ELSE bs[i]]
ObjFreed(bs, o) ==
  [i \in DOMAIN bs |-> IF bs[i].obj = o /\ bs[i].self = "dropped"
                       THEN [bs[i] EXCEPT !.self = "freed", !.left = obj[o].handlers]
                       ELSE bs[i]]

\* the end of unref, with the broadcasts bs under way: the destructor of the
\* class, or free for a blank one
ObjDestroy(o, bs) ==
  /\ obj' = [obj EXCEPT ![o] = NoObj]
  /\ bcast' = ObjFreed(bs, o)
  /\ destroyed' = [destroyed EXCEPT ![o] = @ + 1]

mowgli_object_ref(o) ==
  /\ refs[o] \in 1..(ObjMaxRefs - 1)
  /\ obj' = [obj EXCEPT ![o].refcount = @ + 1]
  /\ refs' = [refs EXCEPT ![o] = @ + 1]
  /\ UNCHANGED <<klass, bcast, destroyed>>

\* off by one: the object goes while there is a reference left
Mutant_LastRef(o) == obj[o].refcount - 1 <= 1

ObjLastRef(o) == obj[o].refcount - 1 <= 0

mowgli_object_unref(o) ==
  /\ refs[o] > 0
  /\ refs' = [refs EXCEPT ![o] = @ - 1]
  /\ UNCHANGED klass
  /\ LET b == mowgli_object_message_broadcast(o, obj[o].klass, "destroy")
     IN  \/ /\ ~ObjLastRef(o)
            /\ obj' = [obj EXCEPT ![o].refcount = @ - 1]
            /\ UNCHANGED <<bcast, destroyed>>
         \/ /\ ObjLastRef(o) /\ b # << >> /\ Len(bcast) < ObjDepth
            /\ obj' = [obj EXCEPT ![o].refcount = @ - 1]
            /\ bcast' = ObjDropped(bcast, o) \o b
            /\ UNCHANGED destroyed
         \/ /\ ObjLastRef(o) /\ b = << >>
            /\ ObjDestroy(o, ObjDropped(bcast, o))

ObjBroadcast(o) ==
  /\ obj[o].live
  /\ bcast' = bcast \o mowgli_object_message_broadcast(o, obj[o].klass, "note")
  /\ Len(bcast') <= ObjDepth
  /\ UNCHANGED <<obj, klass, refs, destroyed>>

\* The handler that runs returns.  When it was the last, the stack is
\* unreferenced, and with it destroyed; a broadcast of "destroy" returns to
\* unref.
ObjHandlerReturns ==
  /\ bcast # << >>
  /\ UNCHANGED <<klass, refs>>
  /\ LET b == Last(bcast)
     IN  \E own \in ObjOwn(b) :
           LET next == ObjAdvance(b, own)
           IN  \/ /\ next # << >> \/ b.msg # "destroy"
                  /\ bcast' = Front(bcast) \o next
                  /\ UNCHANGED <<obj, destroyed>>
               \/ /\ next = << >> /\ b.msg = "destroy"
                  /\ ObjDestroy(b.obj, Front(bcast))

\* mowgli_argstack_pop_string and its likes: all handlers share one stack
mowgli_argstack_pop ==
  /\ bcast # << >> /\ Last(bcast).args # << >>
  /\ bcast' = [bcast EXCEPT ![Len(bcast)].args = Tail(@)]
  /\ UNCHANGED <<obj, klass, refs, destroyed>>

\* the broadcasts that walk the handlers of the class, and the own of o
ObjOfClass == {j \in DOMAIN bcast : bcast[j].at = "class"}
ObjOfObject(o) ==
  {j \in DOMAIN bcast : bcast[j].at = "object" /\ bcast[j].obj = o /\ bcast[j].self # "freed"}

\* clients detach handlers that are not running
ObjMayDetach(walks, i) == \A j \in walks : bcast[j].next # i

ObjDetached(hs, h) == SelectSeq(hs, LAMBDA x : x # h)

\* when a handler before a running one goes, the running one is one place
\* nearer to the head of the list
ObjShift(walks, i) ==
  bcast' = [j \in DOMAIN bcast |-> IF j \in walks /\ i < bcast[j].next
                                   THEN [bcast[j] EXCEPT !.next = @ - 1] ELSE bcast[j]]

mowgli_object_class_message_handler_attach(h) ==
  /\ h \notin ToSet(klass.handlers)
  /\ klass' = [klass EXCEPT !.handlers = Append(@, h)]
  /\ UNCHANGED <<obj, bcast, refs, destroyed>>

mowgli_object_class_message_handler_detach(i) ==
  /\ ObjMayDetach(ObjOfClass, i)
  /\ klass' = [klass EXCEPT !.handlers = ObjDetached(@, @[i])]
  /\ ObjShift(ObjOfClass, i)
  /\ UNCHANGED <<obj, refs, destroyed>>

mowgli_object_message_handler_attach(o, h) ==
  /\ obj[o].live /\ h \notin ToSet(obj[o].handlers)
  /\ obj' = [obj EXCEPT ![o].handlers = Append(@, h)]
  /\ UNCHANGED <<klass, bcast, refs, destroyed>>

mowgli_object_message_handler_detach(o, i) ==
  /\ ObjMayDetach(ObjOfObject(o), i)
  /\ obj' = [obj EXCEPT ![o].handlers = ObjDetached(@, @[i])]
  /\ ObjShift(ObjOfObject(o), i)
  /\ UNCHANGED <<klass, refs, destroyed>>

-----------------------------------------------------------------------------
(* Metadata: a list of names with data.                                    *)

\* The loop leaves e at the last entry it looked at, so a name that is not
\* in a list that has entries gives its data to the last of them.
mowgli_object_metadata_associate(o, k, v) ==
  /\ obj[o].live
  /\ LET ms == obj[o].metadata
         i  == IF \E j \in DOMAIN ms : ms[j].name = k
               THEN SelectInSeq(ms, LAMBDA e : e.name = k) ELSE Len(ms)
     IN  obj' = [obj EXCEPT ![o].metadata =
                   IF ms = << >> THEN <<[name |-> k, data |-> v]>>
                   ELSE [ms EXCEPT ![i].data = v]]
  /\ UNCHANGED <<klass, bcast, refs, destroyed>>

mowgli_object_metadata_dissociate(o, k) ==
  /\ obj[o].live
  /\ obj' = [obj EXCEPT ![o].metadata = SelectSeq(@, LAMBDA e : e.name # k)]
  /\ UNCHANGED <<klass, bcast, refs, destroyed>>

-----------------------------------------------------------------------------
\* what client code does, in a handler or outside
ObjClient ==
  \/ \E o \in Obj : \/ mowgli_object_ref(o)
                    \/ mowgli_object_unref(o)
                    \/ \E h \in ObjHandler : mowgli_object_message_handler_attach(o, h)
                    \/ \E i \in DOMAIN obj[o].handlers :
                         mowgli_object_message_handler_detach(o, i)
                    \/ \E k \in ObjKey : \/ mowgli_object_metadata_dissociate(o, k)
                                         \/ mowgli_object_metadata_associate(o, k, 1)
  \/ \E h \in ObjHandler : mowgli_object_class_message_handler_attach(h)
  \/ \E i \in DOMAIN klass.handlers : mowgli_object_class_message_handler_detach(i)

ObjNext ==
  \/ \E o \in Obj : \/ \E k \in {"static", "own"} : mowgli_object_init(o, k)
                    \/ ObjBroadcast(o)
  \/ ObjHandlerReturns
  \/ mowgli_argstack_pop
  \/ ObjClient

ObjSpec == ObjInit /\ [][ObjNext]_objVars

-----------------------------------------------------------------------------
\* An object is there as long as somebody holds a reference to it, however
\* broadcasts nest and whatever their handlers do with references and
\* handlers; it is destroyed once, when the last one is dropped, at once or
\* when the handlers of "destroy" have returned, and then exactly one
\* broadcast of "destroy" is under way for it.  A broadcast's object is there
\* until a handler that the broadcast called, or one called from that,
\* drops the last reference, after which mowgli_object_message_broadcast,
\* which takes none of its own, may be left with a freed one; under a
\* broadcast of "destroy" it is never freed.
ObjLifetime ==
  LET Destroying(i, o) == bcast[i].obj = o /\ bcast[i].msg = "destroy"
  IN  /\ \A o \in Obj :
           /\ refs[o] > 0 => obj[o].live /\ obj[o].refcount = refs[o] /\ destroyed[o] = 0
           /\ obj[o].live /\ refs[o] = 0 => \E i \in DOMAIN bcast : Destroying(i, o)
           /\ destroyed[o] <= 1 /\ (obj[o].live => destroyed[o] = 0)
      /\ \A i \in DOMAIN bcast :
           /\ bcast[i].self = "held" => obj[bcast[i].obj].live
           /\ bcast[i].msg = "destroy" =>
                /\ bcast[i].self = "held" /\ refs[bcast[i].obj] = 0
                /\ \A j \in DOMAIN bcast : Destroying(j, bcast[i].obj) => j = i
=============================================================================
