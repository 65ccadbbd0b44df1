--------------------------- MODULE ServicesProofs ---------------------------
(* Proofs about objects, hooks, VIO and line buffers, each for every value *)
(* of its constants.                                                       *)
EXTENDS Objects, Hooks, Vio, Linebuf, ListProofs, FiniteSetTheorems, SequenceTheorems, TLAPS

-----------------------------------------------------------------------------
(* Objects.                                                                *)

\* the fields of an object and of a broadcast under way
IsObj(r) ==
  r = [live |-> r.live, refcount |-> r.refcount, klass |-> r.klass,
       handlers |-> r.handlers, metadata |-> r.metadata]

IsBcast(b) ==
  /\ b = [obj |-> b.obj, msg |-> b.msg, at |-> b.at, next |-> b.next,
          self |-> b.self, left |-> b.left, args |-> b.args]
  /\ b.obj \in Obj

IsStack(bs) == \E S : bs \in Seq(S) /\ \A b \in S : IsBcast(b)

ObjTypeOK ==
  /\ obj = [o \in Obj |-> obj[o]]
  /\ \A o \in Obj : IsObj(obj[o]) /\ obj[o].live \in BOOLEAN /\ obj[o].refcount \in Int
  /\ refs \in [Obj -> Nat]
  /\ destroyed \in [Obj -> Nat]
  /\ IsStack(bcast)

ObjDestroying(o) ==
  \E i \in 1..Len(bcast) : bcast[i].obj = o /\ bcast[i].msg = "destroy"

ObjCounts ==
  \A o \in Obj :
    /\ refs[o] > 0 => obj[o].live /\ obj[o].refcount = refs[o] /\ destroyed[o] = 0
    /\ obj[o].live /\ refs[o] = 0 => ObjDestroying(o)
    /\ destroyed[o] <= 1 /\ (obj[o].live => destroyed[o] = 0)

\* Broadcasts below one of "destroy" were there when the last reference was
\* dropped.
ObjWalks ==
  \A i \in 1..Len(bcast) :
    /\ bcast[i].self = "held" => obj[bcast[i].obj].live
    /\ bcast[i].msg = "destroy" =>
         /\ bcast[i].self = "held" /\ refs[bcast[i].obj] = 0
         /\ \A j \in 1..Len(bcast) : bcast[j].obj = bcast[i].obj =>
              /\ bcast[j].msg = "destroy" => j = i
              /\ j < i => bcast[j].self # "held"

ObjInv == ObjTypeOK /\ ObjCounts /\ ObjWalks

(* What is known of a stack of broadcasts.                                 *)
LEMMA StackIs ==
  ASSUME NEW bs, IsStack(bs)
  PROVE  /\ Len(bs) \in Nat /\ DOMAIN bs = 1..Len(bs)
         /\ bs = [i \in 1..Len(bs) |-> bs[i]]
         /\ \A i \in 1..Len(bs) : IsBcast(bs[i])
         /\ bs # << >> => Len(bs) # 0
         /\ bs = << >> => Len(bs) = 0
         /\ bs \o << >> = bs
<1>1. PICK S : bs \in Seq(S) /\ \A b \in S : IsBcast(b)
  BY DEF IsStack
<1>2. /\ Len(bs) \in Nat /\ bs \in [1..Len(bs) -> S] /\ DOMAIN bs = 1..Len(bs)
  BY <1>1, LenProperties
<1>3. /\ bs # << >> => Len(bs) # 0
      /\ bs = << >> => Len(bs) = 0
  BY <1>1, EmptySeq
<1>4. bs \o << >> = bs
  BY <1>1, ConcatEmptySeq
<1> QED
  BY <1>1, <1>2, <1>3, <1>4

LEMMA StackMap ==
  ASSUME NEW bs, NEW cs, IsStack(bs), cs = [i \in 1..Len(bs) |-> cs[i]],
         \A i \in 1..Len(bs) : IsBcast(cs[i])
  PROVE  IsStack(cs) /\ Len(cs) = Len(bs)
<1>1. Len(bs) \in Nat
  BY StackIs
<1> DEFINE S == {cs[i] : i \in 1..Len(bs)}
<1>2. cs \in [1..Len(bs) -> S]
  OBVIOUS
<1>3. cs \in Seq(S)
  BY <1>1, <1>2, SeqDef
<1>4. Len(cs) = Len(bs)
  BY <1>1, <1>2, <1>3, LenProperties
<1>5. \A b \in S : IsBcast(b)
  OBVIOUS
<1> QED
  BY <1>3, <1>4, <1>5 DEF IsStack

LEMMA StackPush ==
  ASSUME NEW bs, NEW b, IsStack(bs), IsBcast(b)
  PROVE  /\ IsStack(bs \o <<b>>)
         /\ Len(bs \o <<b>>) = Len(bs) + 1
         /\ \A i \in 1..Len(bs) : (bs \o <<b>>)[i] = bs[i]
         /\ (bs \o <<b>>)[Len(bs) + 1] = b
<1>1. PICK S : bs \in Seq(S) /\ \A c \in S : IsBcast(c)
  BY DEF IsStack
<1> DEFINE T == S \cup {b}
<1>2. bs \in Seq(T) /\ <<b>> \in Seq(T) /\ Len(<<b>>) = 1 /\ <<b>>[1] = b
  <2>1. bs \in Seq(T)
    BY <1>1, SeqMonotonic
  <2>2. b \in T
    OBVIOUS
  <2> HIDE DEF T
  <2> QED
    BY <2>1, <2>2
<1>3. \A c \in T : IsBcast(c)
  BY <1>1
<1> HIDE DEF T
<1>4. /\ bs \o <<b>> \in Seq(T)
      /\ Len(bs \o <<b>>) = Len(bs) + 1
      /\ \A i \in 1..Len(bs) + 1 : (bs \o <<b>>)[i] = IF i <= Len(bs) THEN bs[i] ELSE <<b>>[i - Len(bs)]
  BY <1>2, ConcatProperties
<1>5. Len(bs) \in Nat
  BY <1>2, LenProperties
<1>6. IsStack(bs \o <<b>>)
  BY <1>3, <1>4 DEF IsStack
<1>7. \A i \in 1..Len(bs) : (bs \o <<b>>)[i] = bs[i]
  BY <1>4, <1>5
<1>8. (bs \o <<b>>)[Len(bs) + 1] = b
  BY <1>2, <1>4, <1>5
<1> QED
  BY <1>4, <1>6, <1>7, <1>8

LEMMA StackPop ==
  ASSUME NEW bs, IsStack(bs), bs # << >>
  PROVE  /\ IsStack(Front(bs))
         /\ Len(Front(bs)) = Len(bs) - 1
         /\ \A i \in 1..(Len(bs) - 1) : Front(bs)[i] = bs[i]
         /\ Last(bs) = bs[Len(bs)] /\ Len(bs) \in Nat \ {0} /\ IsBcast(Last(bs))
<1>1. PICK S : bs \in Seq(S) /\ \A c \in S : IsBcast(c)
  BY DEF IsStack
<1>2. Len(bs) \in Nat \ {0} /\ \A i \in 1..Len(bs) : bs[i] \in S
  BY <1>1, StackIs
<1>3. Front(bs) = SubSeq(bs, 1, Len(bs) - 1) /\ Last(bs) = bs[Len(bs)]
  BY DEF Front, Last
<1>4. \A i \in 1..(Len(bs) - 1) : bs[i] \in S
  BY <1>2
<1>5. /\ SubSeq(bs, 1, Len(bs) - 1) \in Seq(S)
      /\ Len(SubSeq(bs, 1, Len(bs) - 1)) = Len(bs) - 1
      /\ \A i \in 1..(Len(bs) - 1) : SubSeq(bs, 1, Len(bs) - 1)[i] = bs[i]
  <2>1. PICK n \in Int : n = Len(bs) - 1
    BY <1>2
  <2>2. \A i \in 1..n : bs[i] \in S
    BY <1>4, <2>1
  <2>3. /\ SubSeq(bs, 1, n) \in Seq(S)
        /\ Len(SubSeq(bs, 1, n)) = IF 1 <= n THEN n - 1 + 1 ELSE 0
        /\ \A i \in 1..(n - 1 + 1) : SubSeq(bs, 1, n)[i] = bs[1 + i - 1]
    BY ONLY <2>2, SubSeqProperties, 1 \in Int, n \in Int
  <2>4. n - 1 + 1 = n /\ n >= 0
    BY <1>2, <2>1
  <2> QED
    BY <2>1, <2>3, <2>4
<1>6. IsStack(Front(bs))
  BY <1>1, <1>3, <1>5 DEF IsStack
<1>7. IsBcast(Last(bs))
  BY <1>1, <1>2, <1>3
<1> QED
  BY <1>2, <1>3, <1>5, <1>6, <1>7

(* The stack keeps its shape when what its broadcasts walk, how far they   *)
(* are and their arguments change.                                         *)
LEMMA ObjFrame ==
  ASSUME ObjInv, UNCHANGED <<refs, destroyed>>,
         obj' = [o \in Obj |-> obj'[o]],
         \A o \in Obj : /\ IsObj(obj'[o])
                        /\ obj'[o].live = obj[o].live
                        /\ obj'[o].refcount = obj[o].refcount,
         IsStack(bcast'), Len(bcast') = Len(bcast),
         \A i \in 1..Len(bcast) : /\ bcast'[i].obj = bcast[i].obj
                                  /\ bcast'[i].msg = bcast[i].msg
                                  /\ bcast'[i].self = bcast[i].self
  PROVE  ObjInv'
<1>1. ObjTypeOK'
  BY DEF ObjInv, ObjTypeOK
<1>2. Len(bcast) \in Nat /\ \A i \in 1..Len(bcast) : bcast[i].obj \in Obj
  BY StackIs DEF ObjInv, ObjTypeOK, IsBcast
<1>3. \A o \in Obj : ObjDestroying(o) => ObjDestroying(o)'
  BY <1>2 DEF ObjDestroying
<1>4. ObjCounts'
  BY <1>3 DEF ObjInv, ObjCounts
<1>5. ObjWalks'
  BY <1>2 DEF ObjInv, ObjWalks
<1> QED
  BY <1>1, <1>4, <1>5 DEF ObjInv

LEMMA ObjUpdate ==
  ASSUME ObjTypeOK, NEW o \in Obj, NEW r, IsObj(r), r.live \in BOOLEAN, r.refcount \in Int,
         obj' = [obj EXCEPT ![o] = r]
  PROVE  /\ obj' = [p \in Obj |-> obj'[p]]
         /\ obj'[o] = r
         /\ \A p \in Obj : p # o => obj'[p] = obj[p]
         /\ \A p \in Obj : IsObj(obj'[p]) /\ obj'[p].live \in BOOLEAN /\ obj'[p].refcount \in Int
<1>1. /\ obj' = [p \in Obj |-> obj'[p]]
      /\ obj'[o] = r
      /\ \A p \in Obj : p # o => obj'[p] = obj[p]
  BY DEF ObjTypeOK
<1> QED
  BY <1>1, Zenon DEF ObjTypeOK

LEMMA ObjFields ==
  ASSUME NEW t, IsObj(t), NEW x
  PROVE  /\ IsObj([t EXCEPT !.live = x])
         /\ [t EXCEPT !.live = x].live = x
         /\ IsObj([t EXCEPT !.refcount = x])
         /\ [t EXCEPT !.refcount = x].live = t.live
         /\ [t EXCEPT !.refcount = x].refcount = x
         /\ IsObj([t EXCEPT !.klass = x])
         /\ [t EXCEPT !.klass = x].live = t.live
         /\ [t EXCEPT !.klass = x].refcount = t.refcount
BY DEF IsObj

(* What a broadcast begins with.                                           *)
LEMMA BcastMade ==
  ASSUME NEW o \in Obj, NEW k, NEW m, IsStack(bcast),
         NEW bs, bs = mowgli_object_message_broadcast(o, k, m)
  PROVE  \/ bs = << >>
         \/ /\ bs # << >>
            /\ \E b : /\ bs = <<b>> /\ IsBcast(b)
                      /\ b.obj = o /\ b.msg = m /\ b.self = "held"
BY DEF mowgli_object_message_broadcast, IsBcast

(* Handlers, metadata and arguments: what client code changes besides      *)
(* references.                                                             *)
LEMMA ObjDataInv ==
  ASSUME ObjInv,
         \/ \E o \in Obj :
              \/ \E h \in ObjHandler : mowgli_object_message_handler_attach(o, h)
              \/ \E i \in DOMAIN obj[o].handlers : mowgli_object_message_handler_detach(o, i)
              \/ \E k \in ObjKey : \/ mowgli_object_metadata_dissociate(o, k)
                                   \/ mowgli_object_metadata_associate(o, k, 1)
         \/ \E h \in ObjHandler : mowgli_object_class_message_handler_attach(h)
         \/ \E i \in DOMAIN klass.handlers : mowgli_object_class_message_handler_detach(i)
         \/ mowgli_argstack_pop
  PROVE  ObjInv'
<1> DEFINE H(o, x) == obj' = [obj EXCEPT ![o].handlers = x]
           M(o, x) == obj' = [obj EXCEPT ![o].metadata = x]
           A(x)    == bcast # << >> /\ bcast' = [bcast EXCEPT ![Len(bcast)].args = x]
           Lives   ==
             /\ obj' = [o \in Obj |-> obj'[o]]
             /\ \A o \in Obj : /\ IsObj(obj'[o])
                               /\ obj'[o].live = obj[o].live
                               /\ obj'[o].refcount = obj[o].refcount
           Goes    ==
             /\ IsStack(bcast') /\ Len(bcast') = Len(bcast)
             /\ \A i \in 1..Len(bcast) : /\ bcast'[i].obj = bcast[i].obj
                                         /\ bcast'[i].msg = bcast[i].msg
                                         /\ bcast'[i].self = bcast[i].self
<1>1. UNCHANGED <<refs, destroyed>>
  BY DEF mowgli_object_message_handler_attach, mowgli_object_message_handler_detach,
         mowgli_object_metadata_dissociate, mowgli_object_metadata_associate,
         mowgli_object_class_message_handler_attach,
         mowgli_object_class_message_handler_detach, mowgli_argstack_pop
<1>2. obj' = obj \/ \E o \in Obj : (\E x : H(o, x)) \/ (\E x : M(o, x))
  BY Zenon DEF mowgli_object_message_handler_attach, mowgli_object_message_handler_detach,
         mowgli_object_metadata_dissociate, mowgli_object_metadata_associate,
         mowgli_object_class_message_handler_attach,
         mowgli_object_class_message_handler_detach, mowgli_argstack_pop
<1>3. bcast' = bcast \/ (\E W, i : ObjShift(W, i)) \/ (\E x : A(x))
  BY Zenon DEF mowgli_object_message_handler_attach, mowgli_object_message_handler_detach,
         mowgli_object_metadata_dissociate, mowgli_object_metadata_associate,
         mowgli_object_class_message_handler_attach,
         mowgli_object_class_message_handler_detach, mowgli_argstack_pop
<1> HIDE DEF H, M, A
<1>4. Lives
  <2>1. CASE obj' = obj
    BY <2>1 DEF ObjInv, ObjTypeOK
  <2>2. ASSUME NEW o \in Obj, NEW x, H(o, x) PROVE Lives
    <3>1. obj' = [p \in Obj |-> obj'[p]]
      BY <2>2 DEF H, ObjInv, ObjTypeOK
    <3>2. \A p \in Obj : IsObj(obj'[p])
      BY <2>2 DEF H, ObjInv, ObjTypeOK, IsObj
    <3>3. \A p \in Obj : obj'[p].live = obj[p].live
      BY <2>2 DEF H, ObjInv, ObjTypeOK, IsObj
    <3>4. \A p \in Obj : obj'[p].refcount = obj[p].refcount
      BY <2>2 DEF H, ObjInv, ObjTypeOK, IsObj
    <3> QED
      BY <3>1, <3>2, <3>3, <3>4
  <2>3. ASSUME NEW o \in Obj, NEW x, M(o, x) PROVE Lives
    <3>1. obj' = [p \in Obj |-> obj'[p]]
      BY <2>3 DEF M, ObjInv, ObjTypeOK
    <3>2. \A p \in Obj : IsObj(obj'[p])
      BY <2>3 DEF M, ObjInv, ObjTypeOK, IsObj
    <3>3. \A p \in Obj : obj'[p].live = obj[p].live
      BY <2>3 DEF M, ObjInv, ObjTypeOK, IsObj
    <3>4. \A p \in Obj : obj'[p].refcount = obj[p].refcount
      BY <2>3 DEF M, ObjInv, ObjTypeOK, IsObj
    <3> QED
      BY <3>1, <3>2, <3>3, <3>4
  <2> QED
    BY <1>2, <2>1, <2>2, <2>3
<1>5. Goes
  <2>1. /\ IsStack(bcast) /\ Len(bcast) \in Nat /\ DOMAIN bcast = 1..Len(bcast)
        /\ bcast = [i \in 1..Len(bcast) |-> bcast[i]]
        /\ \A i \in 1..Len(bcast) : IsBcast(bcast[i])
        /\ bcast # << >> => Len(bcast) # 0
    BY StackIs DEF ObjInv, ObjTypeOK
  <2>2. CASE bcast' = bcast
    BY <2>1, <2>2
  <2>3. ASSUME NEW W, NEW i, ObjShift(W, i) PROVE Goes
    <3>1. bcast' = [j \in 1..Len(bcast) |-> bcast'[j]]
      BY <2>1, <2>3 DEF ObjShift
    <3>2. \A j \in 1..Len(bcast) :
            /\ IsBcast(bcast'[j]) /\ bcast'[j].obj = bcast[j].obj
            /\ bcast'[j].msg = bcast[j].msg /\ bcast'[j].self = bcast[j].self
      <4> TAKE j \in 1..Len(bcast)
      <4>1. IsBcast(bcast[j])
        BY <2>1
      <4>2. bcast'[j] = bcast[j] \/ bcast'[j] = [bcast[j] EXCEPT !.next = @ - 1]
        BY <2>1, <2>3 DEF ObjShift
      <4> QED
        BY <4>1, <4>2 DEF IsBcast
    <3> QED
      BY <2>1, <3>1, <3>2, StackMap
  <2>4. ASSUME NEW x, A(x) PROVE Goes
    <3>1. /\ bcast' = [j \in 1..Len(bcast) |-> bcast'[j]]
          /\ \A j \in 1..Len(bcast) :
               bcast'[j] = bcast[j] \/ bcast'[j] = [bcast[j] EXCEPT !.args = x]
      BY <2>1, <2>4 DEF A
    <3>2. \A j \in 1..Len(bcast) :
            /\ IsBcast(bcast'[j]) /\ bcast'[j].obj = bcast[j].obj
            /\ bcast'[j].msg = bcast[j].msg /\ bcast'[j].self = bcast[j].self
      <4> TAKE j \in 1..Len(bcast)
      <4>1. IsBcast(bcast[j])
        BY <2>1
      <4>2. bcast'[j] = bcast[j] \/ bcast'[j] = [bcast[j] EXCEPT !.args = x]
        BY <3>1
      <4> QED
        BY <4>1, <4>2 DEF IsBcast
    <3> QED
      BY <2>1, <3>1, <3>2, StackMap
  <2> QED
    BY <1>3, <2>2, <2>3, <2>4
<1> QED
  BY <1>1, <1>4, <1>5, ObjFrame

(* A stack with at most one broadcast more, on an object that is there.    *)
LEMMA ObjPushed ==
  ASSUME NEW o \in Obj, NEW k, NEW m, IsStack(bcast),
         bcast' = bcast \o mowgli_object_message_broadcast(o, k, m)
  PROVE  /\ IsStack(bcast')
         /\ \A i \in 1..Len(bcast) : bcast'[i] = bcast[i]
         /\ \/ Len(bcast') = Len(bcast)
            \/ /\ Len(bcast') = Len(bcast) + 1
               /\ bcast'[Len(bcast')].obj = o /\ bcast'[Len(bcast')].msg = m
<1>1. PICK bs : bs = mowgli_object_message_broadcast(o, k, m)
  OBVIOUS
<1>2. CASE bs = << >>
  BY <1>1, <1>2, StackIs
<1>3. CASE \E b : bs = <<b>> /\ IsBcast(b) /\ b.obj = o /\ b.msg = m /\ b.self = "held"
  BY <1>1, <1>3, StackPush, StackIs
<1> QED
  BY <1>1, <1>2, <1>3, BcastMade

(* Such a step keeps the invariant, unless the broadcast is of "destroy".  *)
LEMMA ObjPushWalks ==
  ASSUME ObjInv, NEW o \in Obj, NEW m, m # "destroy",
         obj'[o].live, \A p \in Obj : obj[p].live => obj'[p].live,
         \A p \in Obj : refs[p] = 0 /\ obj[p].live => refs'[p] = 0,
         IsStack(bcast'), \A i \in 1..Len(bcast) : bcast'[i] = bcast[i],
         \/ Len(bcast') = Len(bcast)
         \/ /\ Len(bcast') = Len(bcast) + 1
            /\ bcast'[Len(bcast')].obj = o /\ bcast'[Len(bcast')].msg = m
  PROVE  ObjWalks' /\ \A p \in Obj : ObjDestroying(p) => ObjDestroying(p)'
<1>1. Len(bcast) \in Nat /\ \A i \in 1..Len(bcast) : bcast[i].obj \in Obj
  BY StackIs DEF ObjInv, ObjTypeOK, IsBcast
<1>2. \A p \in Obj : ObjDestroying(p) => ObjDestroying(p)'
  BY <1>1 DEF ObjDestroying
<1>3. \A i \in 1..Len(bcast') :
        \/ i \in 1..Len(bcast)
        \/ i = Len(bcast) + 1 /\ bcast'[i].obj = o /\ bcast'[i].msg = m
  BY <1>1
<1>4. ASSUME NEW i \in 1..Len(bcast')
      PROVE  bcast'[i].self = "held" => obj'[bcast'[i].obj].live
  BY <1>1, <1>3, <1>4 DEF ObjInv, ObjWalks
<1>5. ASSUME NEW i \in 1..Len(bcast'), bcast'[i].msg = "destroy"
      PROVE  /\ bcast'[i].self = "held" /\ refs'[bcast'[i].obj] = 0
             /\ \A j \in 1..Len(bcast') : bcast'[j].obj = bcast'[i].obj =>
                  /\ bcast'[j].msg = "destroy" => j = i
                  /\ j < i => bcast'[j].self # "held"
  <2>1. i \in 1..Len(bcast) /\ bcast'[i] = bcast[i]
    BY <1>3, <1>5
  <2>2. /\ bcast[i].self = "held" /\ refs[bcast[i].obj] = 0 /\ obj[bcast[i].obj].live
        /\ \A j \in 1..Len(bcast) : bcast[j].obj = bcast[i].obj =>
             /\ bcast[j].msg = "destroy" => j = i
             /\ j < i => bcast[j].self # "held"
    BY <1>5, <2>1 DEF ObjInv, ObjWalks
  <2>3. refs'[bcast'[i].obj] = 0
    BY <1>1, <2>1, <2>2
  <2>4. ASSUME NEW j \in 1..Len(bcast'), bcast'[j].obj = bcast'[i].obj
        PROVE  /\ bcast'[j].msg = "destroy" => j = i
               /\ j < i => bcast'[j].self # "held"
    BY <1>1, <1>3, <2>1, <2>2, <2>4
  <2> QED
    BY <2>1, <2>2, <2>3, <2>4
<1>6. ObjWalks'
  BY <1>4, <1>5 DEF ObjWalks
<1> QED
  BY <1>2, <1>6

LEMMA ObjInitStepInv ==
  ASSUME ObjInv, NEW o \in Obj, NEW k \in {"static", "own"}, mowgli_object_init(o, k)
  PROVE  ObjInv'
<1> DEFINE r(kk) == [NoObj EXCEPT !.live = TRUE, !.refcount = 1, !.klass = kk]
<1>1. /\ ~obj[o].live
      /\ refs' = [refs EXCEPT ![o] = 1]
      /\ destroyed' = [destroyed EXCEPT ![o] = 0]
  BY DEF mowgli_object_init
<1>2. PICK kk : /\ obj' = [obj EXCEPT ![o] = r(kk)]
                /\ bcast' = bcast \o mowgli_object_message_broadcast(o, kk, "create")
  BY Zenon DEF mowgli_object_init
<1>3. /\ IsObj(r(kk)) /\ r(kk).live = TRUE /\ r(kk).refcount = 1
  <2>1. IsObj(NoObj)
    BY DEF IsObj, NoObj
  <2> DEFINE a == [NoObj EXCEPT !.live = TRUE]
             b == [a EXCEPT !.refcount = 1]
  <2>2. IsObj(a) /\ a.live = TRUE
    BY <2>1, ObjFields, Zenon
  <2> HIDE DEF a
  <2>3. IsObj(b) /\ b.live = TRUE /\ b.refcount = 1
    BY <2>2, ObjFields, ZenonT(60)
  <2>4. r(kk) = [b EXCEPT !.klass = kk]
    BY DEF a
  <2> HIDE DEF b, r
  <2>5. /\ IsObj([b EXCEPT !.klass = kk])
        /\ [b EXCEPT !.klass = kk].live = b.live
        /\ [b EXCEPT !.klass = kk].refcount = b.refcount
    BY <2>3 DEF IsObj
  <2> QED
    BY <2>3, <2>4, <2>5, Zenon
<1> HIDE DEF r
<1>4. /\ obj' = [p \in Obj |-> obj'[p]]
      /\ obj'[o] = r(kk)
      /\ \A p \in Obj : p # o => obj'[p] = obj[p]
      /\ \A p \in Obj : IsObj(obj'[p]) /\ obj'[p].live \in BOOLEAN /\ obj'[p].refcount \in Int
  <2>1. r(kk).live \in BOOLEAN /\ r(kk).refcount \in Int
    <3>1. r(kk).refcount \in Int
      BY <1>3
    <3> QED
      BY <1>3, <3>1, Zenon
  <2>2. ObjTypeOK
    BY DEF ObjInv
  <2>3. obj' = [obj EXCEPT ![o] = r(kk)]
    BY <1>2
  <2> QED
    BY <1>3, <2>1, <2>2, <2>3, ObjUpdate
<1>5. /\ IsStack(bcast)
      /\ IsStack(bcast')
      /\ \A i \in 1..Len(bcast) : bcast'[i] = bcast[i]
      /\ \/ Len(bcast') = Len(bcast)
         \/ /\ Len(bcast') = Len(bcast) + 1
            /\ bcast'[Len(bcast')].obj = o /\ bcast'[Len(bcast')].msg = "create"
  BY <1>2, ObjPushed DEF ObjInv, ObjTypeOK
<1>6. /\ refs' \in [Obj -> Nat] /\ destroyed' \in [Obj -> Nat]
      /\ refs'[o] = 1 /\ destroyed'[o] = 0
      /\ \A p \in Obj : p # o => refs'[p] = refs[p] /\ destroyed'[p] = destroyed[p]
  BY <1>1 DEF ObjInv, ObjTypeOK
<1>7. ObjTypeOK'
  BY <1>4, <1>5, <1>6, Zenon DEF ObjTypeOK
<1>8. /\ obj'[o].live
      /\ \A p \in Obj : obj[p].live => obj'[p].live
      /\ \A p \in Obj : refs[p] = 0 /\ obj[p].live => refs'[p] = 0
  BY <1>1, <1>3, <1>4, <1>6
<1>9. ObjWalks' /\ \A p \in Obj : ObjDestroying(p) => ObjDestroying(p)'
  BY <1>5, <1>8, ObjPushWalks
<1>10. ObjCounts'
  BY <1>3, <1>4, <1>6, <1>9 DEF ObjInv, ObjCounts
<1> QED
  BY <1>7, <1>9, <1>10 DEF ObjInv

(* A count that goes up or down by one with the references, and does not   *)
(* reach 0.                                                                *)
LEMMA ObjCountInv ==
  ASSUME ObjInv, NEW o \in Obj, NEW n \in Nat \ {0}, refs[o] > 0,
         obj' = [obj EXCEPT ![o].refcount = n],
         refs' = [refs EXCEPT ![o] = n],
         UNCHANGED <<bcast, destroyed>>
  PROVE  ObjInv'
<1>1. /\ obj[o].live = TRUE /\ destroyed[o] = 0
      /\ \A p \in Obj : IsObj(obj[p])
  BY Zenon DEF ObjInv, ObjTypeOK, ObjCounts
<1>2. /\ obj' = [p \in Obj |-> obj'[p]]
      /\ \A p \in Obj : p # o => obj'[p] = obj[p]
  BY DEF ObjInv, ObjTypeOK
<1>3. IsObj(obj'[o]) /\ obj'[o].live = obj[o].live /\ obj'[o].refcount = n
  BY <1>1 DEF ObjInv, ObjTypeOK, IsObj
<1>4. /\ refs' \in [Obj -> Nat]
      /\ refs'[o] = n
      /\ \A p \in Obj : p # o => refs'[p] = refs[p]
  BY DEF ObjInv, ObjTypeOK
<1>5. \A p \in Obj : IsObj(obj'[p]) /\ obj'[p].live \in BOOLEAN /\ obj'[p].refcount \in Int
  <2>1. \A p \in Obj : p # o => IsObj(obj'[p]) /\ obj'[p].live \in BOOLEAN /\ obj'[p].refcount \in Int
    BY <1>2, Zenon DEF ObjInv, ObjTypeOK
  <2>2. n \in Int
    OBVIOUS
  <2>3. obj'[o].live \in BOOLEAN
    BY <1>1, <1>3, Zenon
  <2> QED
    BY <1>3, <2>1, <2>2, <2>3, Zenon
<1>6. ObjTypeOK'
  BY <1>2, <1>4, <1>5, Zenon DEF ObjInv, ObjTypeOK
<1>7. \A p \in Obj : ObjDestroying(p)' <=> ObjDestroying(p)
  BY DEF ObjDestroying
<1>8. ObjCounts'
  BY <1>1, <1>2, <1>3, <1>4, <1>7 DEF ObjInv, ObjCounts
<1>9. \A i \in 1..Len(bcast) : bcast[i].obj \in Obj
  BY StackIs DEF ObjInv, ObjTypeOK, IsBcast
<1>10. \A p \in Obj : obj'[p].live = obj[p].live /\ (refs[p] = 0 => refs'[p] = 0)
  BY <1>1, <1>2, <1>3, <1>4
<1>11. ObjWalks'
  BY <1>9, <1>10 DEF ObjInv, ObjWalks
<1> QED
  BY <1>6, <1>8, <1>11 DEF ObjInv

LEMMA ObjRefInv ==
  ASSUME ObjInv, NEW o \in Obj, mowgli_object_ref(o)
  PROVE  ObjInv'
<1>1. /\ refs[o] \in Nat /\ refs[o] > 0
      /\ obj' = [obj EXCEPT ![o].refcount = @ + 1]
      /\ refs' = [refs EXCEPT ![o] = @ + 1]
      /\ UNCHANGED <<bcast, destroyed>>
  BY ObjAssumption DEF mowgli_object_ref, ObjInv, ObjTypeOK
<1>2. obj[o].refcount = refs[o]
  BY <1>1 DEF ObjInv, ObjCounts
<1>3. obj' = [obj EXCEPT ![o].refcount = refs[o] + 1] /\ refs[o] + 1 \in Nat \ {0}
  BY <1>1, <1>2
<1>4. refs' = [refs EXCEPT ![o] = refs[o] + 1]
  BY <1>1
<1> QED
  BY <1>1, <1>3, <1>4, ObjCountInv

(* What dropping the last reference and freeing the object do to the       *)
(* broadcasts of an object.                                                *)
LEMMA ObjDroppedIs ==
  ASSUME NEW bs, IsStack(bs), NEW o \in Obj, NEW cs, cs = ObjDropped(bs, o)
  PROVE  /\ IsStack(cs) /\ Len(cs) = Len(bs)
         /\ \A i \in 1..Len(bs) :
              /\ cs[i].obj = bs[i].obj /\ cs[i].msg = bs[i].msg
              /\ bs[i].obj # o => cs[i].self = bs[i].self
              /\ bs[i].obj = o => cs[i].self # "held"
<1>1. /\ Len(bs) \in Nat /\ DOMAIN bs = 1..Len(bs)
      /\ \A i \in 1..Len(bs) : IsBcast(bs[i])
  BY StackIs
<1>2. cs = [i \in 1..Len(bs) |-> cs[i]]
  BY <1>1 DEF ObjDropped
<1>3. ASSUME NEW i \in 1..Len(bs)
      PROVE  /\ IsBcast(cs[i])
             /\ cs[i].obj = bs[i].obj /\ cs[i].msg = bs[i].msg
             /\ bs[i].obj # o => cs[i].self = bs[i].self
             /\ bs[i].obj = o => cs[i].self # "held"
  <2>1. cs[i] = IF bs[i].obj = o /\ bs[i].self = "held"
                THEN [bs[i] EXCEPT !.self = "dropped"] ELSE bs[i]
    BY <1>1 DEF ObjDropped
  <2>2. IsBcast(bs[i])
    BY <1>1
  <2> QED
    BY <2>1, <2>2 DEF IsBcast
<1>4. IsStack(cs) /\ Len(cs) = Len(bs)
  BY <1>2, <1>3, StackMap
<1> QED
  BY <1>3, <1>4

LEMMA ObjFreedIs ==
  ASSUME NEW bs, IsStack(bs), NEW o \in Obj, NEW cs, cs = ObjFreed(bs, o)
  PROVE  /\ IsStack(cs) /\ Len(cs) = Len(bs)
         /\ \A i \in 1..Len(bs) :
              /\ cs[i].obj = bs[i].obj /\ cs[i].msg = bs[i].msg
              /\ cs[i].self = "held" <=> bs[i].self = "held"
<1>1. /\ Len(bs) \in Nat /\ DOMAIN bs = 1..Len(bs)
      /\ \A i \in 1..Len(bs) : IsBcast(bs[i])
  BY StackIs
<1>2. cs = [i \in 1..Len(bs) |-> cs[i]]
  BY <1>1 DEF ObjFreed
<1>3. ASSUME NEW i \in 1..Len(bs)
      PROVE  /\ IsBcast(cs[i])
             /\ cs[i].obj = bs[i].obj /\ cs[i].msg = bs[i].msg
             /\ cs[i].self = "held" <=> bs[i].self = "held"
  <2>1. cs[i] = IF bs[i].obj = o /\ bs[i].self = "dropped"
                THEN [bs[i] EXCEPT !.self = "freed", !.left = obj[o].handlers] ELSE bs[i]
    BY <1>1 DEF ObjFreed
  <2>2. IsBcast(bs[i])
    BY <1>1
  <2> QED
    BY <2>1, <2>2 DEF IsBcast
<1>4. IsStack(cs) /\ Len(cs) = Len(bs)
  BY <1>2, <1>3, StackMap
<1> QED
  BY <1>3, <1>4

(* The object goes, with the last reference or at the end of the broadcast *)
(* of "destroy": bs are the broadcasts that are left, none of which is one *)
(* of the object that was to keep it there.                                *)
LEMMA ObjGone ==
  ASSUME ObjInv, NEW o \in Obj, NEW bs, ObjDestroy(o, bs),
         obj[o].live, refs' \in [Obj -> Nat], refs'[o] = 0,
         \A p \in Obj : p # o => refs'[p] = refs[p],
         IsStack(bs), Len(bs) <= Len(bcast),
         \A i \in 1..Len(bs) :
           /\ bs[i].obj = bcast[i].obj /\ bs[i].msg = bcast[i].msg
           /\ bs[i].obj # o => bs[i].self = bcast[i].self
           /\ bs[i].obj = o => bs[i].self # "held" /\ bs[i].msg # "destroy",
         \A i \in 1..Len(bcast) : bcast[i].obj # o => i <= Len(bs)
  PROVE  ObjInv'
<1>1. IsObj(NoObj) /\ NoObj.refcount \in Int /\ NoObj.live = FALSE
  BY DEF IsObj, NoObj
<1>2. obj' = [obj EXCEPT ![o] = NoObj] /\ NoObj.live \in BOOLEAN
  BY <1>1, Zenon DEF ObjDestroy
<1>3. /\ obj' = [p \in Obj |-> obj'[p]]
      /\ obj'[o] = NoObj
      /\ \A p \in Obj : p # o => obj'[p] = obj[p]
      /\ \A p \in Obj : IsObj(obj'[p]) /\ obj'[p].live \in BOOLEAN /\ obj'[p].refcount \in Int
  BY <1>1, <1>2, ObjUpdate DEF ObjInv
<1>4. destroyed[o] = 0 /\ destroyed' = [destroyed EXCEPT ![o] = @ + 1]
  BY DEF ObjInv, ObjCounts, ObjDestroy
<1>5. /\ destroyed' \in [Obj -> Nat]
      /\ destroyed'[o] = 1
      /\ \A p \in Obj : p # o => destroyed'[p] = destroyed[p]
  BY <1>4 DEF ObjInv, ObjTypeOK
<1>6. /\ IsStack(bcast') /\ Len(bcast') = Len(bs)
      /\ \A i \in 1..Len(bs) :
           /\ bcast'[i].obj = bs[i].obj /\ bcast'[i].msg = bs[i].msg
           /\ bcast'[i].self = "held" <=> bs[i].self = "held"
  BY ObjFreedIs DEF ObjDestroy
<1>7. ObjTypeOK'
  BY <1>3, <1>5, <1>6, Zenon DEF ObjTypeOK
<1>8. /\ Len(bs) \in Nat /\ Len(bcast) \in Nat
      /\ \A i \in 1..Len(bcast) : bcast[i].obj \in Obj
      /\ \A i \in 1..Len(bs) : i \in 1..Len(bcast)
  <2>1. /\ Len(bs) \in Nat /\ Len(bcast) \in Nat
        /\ \A i \in 1..Len(bcast) : bcast[i].obj \in Obj
    BY StackIs DEF ObjInv, ObjTypeOK, IsBcast
  <2> QED
    BY <2>1
<1>9. ASSUME NEW p \in Obj, p # o, ObjDestroying(p) PROVE ObjDestroying(p)'
  <2>1. PICK i \in 1..Len(bcast) : bcast[i].obj = p /\ bcast[i].msg = "destroy"
    BY <1>9 DEF ObjDestroying
  <2>2. i \in 1..Len(bs)
    BY <1>8, <1>9, <2>1
  <2> QED
    BY <1>6, <2>1, <2>2 DEF ObjDestroying
<1>10. ObjCounts'
  BY <1>1, <1>3, <1>5, <1>9 DEF ObjInv, ObjCounts
<1>11. ASSUME NEW i \in 1..Len(bs)
       PROVE  /\ bcast'[i].self = "held" => obj'[bcast'[i].obj].live
              /\ bcast'[i].msg = "destroy" =>
                   /\ bcast'[i].self = "held" /\ refs'[bcast'[i].obj] = 0
                   /\ \A j \in 1..Len(bs) : bcast'[j].obj = bcast'[i].obj =>
                        /\ bcast'[j].msg = "destroy" => j = i
                        /\ j < i => bcast'[j].self # "held"
  <2>1. CASE bs[i].obj = o
    BY <1>6, <2>1
  <2>2. CASE bs[i].obj # o
    <3>1. /\ bcast[i].self = "held" => obj[bcast[i].obj].live
          /\ bcast[i].msg = "destroy" =>
               /\ bcast[i].self = "held" /\ refs[bcast[i].obj] = 0
               /\ \A j \in 1..Len(bcast) : bcast[j].obj = bcast[i].obj =>
                    /\ bcast[j].msg = "destroy" => j = i
                    /\ j < i => bcast[j].self # "held"
      BY <1>8 DEF ObjInv, ObjWalks
    <3>2. /\ bcast'[i].obj = bcast[i].obj /\ bcast[i].obj \in Obj /\ bcast[i].obj # o
          /\ bcast'[i].msg = bcast[i].msg
          /\ bcast'[i].self = "held" <=> bcast[i].self = "held"
      BY <1>6, <1>8, <2>2
    <3>3. obj'[bcast'[i].obj] = obj[bcast[i].obj] /\ refs'[bcast'[i].obj] = refs[bcast[i].obj]
      BY <1>3, <3>2
    <3>4. ASSUME NEW j \in 1..Len(bs), bcast'[j].obj = bcast'[i].obj
          PROVE  /\ j \in 1..Len(bcast) /\ bcast[j].obj = bcast[i].obj
                 /\ bcast'[j].msg = bcast[j].msg
                 /\ bcast'[j].self = "held" <=> bcast[j].self = "held"
      BY <1>6, <1>8, <3>2, <3>4
    <3> QED
      BY <3>1, <3>2, <3>3, <3>4
  <2> QED
    BY <2>1, <2>2
<1>12. ObjWalks'
  BY <1>6, <1>11 DEF ObjWalks
<1> QED
  BY <1>7, <1>10, <1>12 DEF ObjInv

(* The last reference is dropped and handlers of "destroy" are called: the *)
(* object stays until they have returned.                                  *)
LEMMA ObjGoing ==
  ASSUME ObjInv, NEW o \in Obj, refs[o] > 0,
         obj' = [obj EXCEPT ![o].refcount = 0],
         refs' = [refs EXCEPT ![o] = 0],
         UNCHANGED destroyed,
         NEW b, IsBcast(b), b.obj = o, b.msg = "destroy", b.self = "held",
         bcast' = ObjDropped(bcast, o) \o <<b>>
  PROVE  ObjInv'
<1>1. /\ obj[o].live = TRUE /\ destroyed[o] = 0
      /\ \A p \in Obj : IsObj(obj[p])
  BY Zenon DEF ObjInv, ObjTypeOK, ObjCounts
<1>2. /\ obj' = [p \in Obj |-> obj'[p]]
      /\ \A p \in Obj : p # o => obj'[p] = obj[p]
  BY DEF ObjInv, ObjTypeOK
<1>3. IsObj(obj'[o]) /\ obj'[o].live = obj[o].live /\ obj'[o].refcount = 0
  BY <1>1 DEF ObjInv, ObjTypeOK, IsObj
<1>4. /\ refs' \in [Obj -> Nat]
      /\ refs'[o] = 0
      /\ \A p \in Obj : p # o => refs'[p] = refs[p]
  BY DEF ObjInv, ObjTypeOK
<1>5. \A p \in Obj : IsObj(obj'[p]) /\ obj'[p].live \in BOOLEAN /\ obj'[p].refcount \in Int
  <2>1. \A p \in Obj : p # o => IsObj(obj'[p]) /\ obj'[p].live \in BOOLEAN /\ obj'[p].refcount \in Int
    BY <1>2, Zenon DEF ObjInv, ObjTypeOK
  <2>2. 0 \in Int
    OBVIOUS
  <2>3. obj'[o].live \in BOOLEAN
    BY <1>1, <1>3, Zenon
  <2> QED
    BY <1>3, <2>1, <2>2, <2>3, Zenon
<1>6. PICK cs : cs = ObjDropped(bcast, o)
  OBVIOUS
<1>7. /\ IsStack(cs) /\ Len(cs) = Len(bcast)
      /\ \A i \in 1..Len(bcast) :
           /\ cs[i].obj = bcast[i].obj /\ cs[i].msg = bcast[i].msg
           /\ bcast[i].obj # o => cs[i].self = bcast[i].self
           /\ bcast[i].obj = o => cs[i].self # "held"
  <2>1. IsStack(bcast)
    BY DEF ObjInv, ObjTypeOK
  <2> QED
    BY ONLY <1>6, <2>1, o \in Obj, ObjDroppedIs
<1>8. /\ IsStack(bcast') /\ Len(bcast') = Len(bcast) + 1
      /\ \A i \in 1..Len(bcast) : bcast'[i] = cs[i]
      /\ bcast'[Len(bcast) + 1] = b
  <2>1. bcast' = cs \o <<b>>
    BY <1>6
  <2>2. /\ IsStack(cs \o <<b>>)
        /\ Len(cs \o <<b>>) = Len(cs) + 1
        /\ \A i \in 1..Len(cs) : (cs \o <<b>>)[i] = cs[i]
        /\ (cs \o <<b>>)[Len(cs) + 1] = b
    BY ONLY <1>7, IsBcast(b), StackPush
  <2> QED
    BY <1>7, <2>1, <2>2
<1>9. ObjTypeOK'
  BY <1>2, <1>4, <1>5, <1>8, Zenon DEF ObjInv, ObjTypeOK
<1>10. /\ Len(bcast) \in Nat
       /\ \A i \in 1..Len(bcast) : bcast[i].obj \in Obj
       /\ \A i \in 1..Len(bcast') : i \in 1..Len(bcast) \/ i = Len(bcast) + 1
       /\ Len(bcast) + 1 \in 1..Len(bcast')
       /\ \A i \in 1..Len(bcast) : i \in 1..Len(bcast')
  <2>1. /\ Len(bcast) \in Nat
        /\ \A i \in 1..Len(bcast) : bcast[i].obj \in Obj
    BY StackIs DEF ObjInv, ObjTypeOK, IsBcast
  <2> QED
    BY <1>8, <2>1
<1>11. ObjDestroying(o)'
  BY <1>8, <1>10 DEF ObjDestroying
<1>12. \A p \in Obj : ObjDestroying(p) => ObjDestroying(p)'
  BY <1>7, <1>8, <1>10 DEF ObjDestroying
<1>13. ObjCounts'
  BY <1>1, <1>2, <1>3, <1>4, <1>11, <1>12 DEF ObjInv, ObjCounts
<1>14. \A i \in 1..Len(bcast) : bcast[i].obj = o => bcast[i].msg # "destroy"
  BY DEF ObjInv, ObjWalks
<1>15. \A p \in Obj : obj'[p].live = obj[p].live /\ (refs[p] = 0 => refs'[p] = 0)
  BY <1>1, <1>2, <1>3, <1>4
<1>16. ASSUME NEW i \in 1..Len(bcast')
       PROVE  /\ bcast'[i].self = "held" => obj'[bcast'[i].obj].live
              /\ bcast'[i].msg = "destroy" =>
                   /\ bcast'[i].self = "held" /\ refs'[bcast'[i].obj] = 0
                   /\ \A j \in 1..Len(bcast') : bcast'[j].obj = bcast'[i].obj =>
                        /\ bcast'[j].msg = "destroy" => j = i
                        /\ j < i => bcast'[j].self # "held"
  <2>1. CASE i = Len(bcast) + 1
    <3>1. bcast'[i] = b
      BY <1>8, <2>1
    <3>2. obj'[o].live /\ refs'[o] = 0
      BY <1>1, <1>3, <1>4
    <3>3. ASSUME NEW j \in 1..Len(bcast'), bcast'[j].obj = o, j # i
          PROVE  bcast'[j].msg # "destroy" /\ bcast'[j].self # "held"
      BY <1>7, <1>8, <1>10, <1>14, <2>1, <3>3
    <3>4. \A j \in 1..Len(bcast') : j < i => j # i
      BY <1>10, <2>1
    <3> QED
      BY <3>1, <3>2, <3>3, <3>4
  <2>2. CASE i \in 1..Len(bcast) /\ bcast[i].obj = o
    <3>1. bcast'[i] = cs[i] /\ cs[i].self # "held" /\ cs[i].msg # "destroy"
      BY <1>7, <1>8, <1>14, <2>2
    <3> QED
      BY <3>1
  <2>3. CASE i \in 1..Len(bcast) /\ bcast[i].obj # o
    <3>1. /\ bcast[i].self = "held" => obj[bcast[i].obj].live
          /\ bcast[i].msg = "destroy" =>
               /\ bcast[i].self = "held" /\ refs[bcast[i].obj] = 0
               /\ \A j \in 1..Len(bcast) : bcast[j].obj = bcast[i].obj =>
                    /\ bcast[j].msg = "destroy" => j = i
                    /\ j < i => bcast[j].self # "held"
      BY <2>3 DEF ObjInv, ObjWalks
    <3>2. /\ bcast'[i].obj = bcast[i].obj /\ bcast[i].obj \in Obj
          /\ bcast'[i].msg = bcast[i].msg /\ bcast'[i].self = bcast[i].self
      BY <1>7, <1>8, <1>10, <2>3
    <3>3. ASSUME NEW j \in 1..Len(bcast'), bcast'[j].obj = bcast'[i].obj
          PROVE  /\ j \in 1..Len(bcast) /\ bcast[j].obj = bcast[i].obj
                 /\ bcast'[j].msg = bcast[j].msg /\ bcast'[j].self = bcast[j].self
      <4>1. j \in 1..Len(bcast)
        BY <1>8, <1>10, <2>3, <3>2, <3>3
      <4> QED
        BY <1>7, <1>8, <2>3, <3>2, <3>3, <4>1
    <3>4. /\ obj'[bcast'[i].obj].live = obj[bcast[i].obj].live
          /\ refs[bcast[i].obj] = 0 => refs'[bcast'[i].obj] = 0
      BY <1>15, <3>2
    <3>5. ASSUME NEW j \in 1..Len(bcast'), bcast'[j].obj = bcast'[i].obj, bcast[i].msg = "destroy"
          PROVE  /\ bcast'[j].msg = "destroy" => j = i
                 /\ j < i => bcast'[j].self # "held"
      BY <3>1, <3>3, <3>5
    <3> QED
      BY <3>1, <3>2, <3>4, <3>5
  <2> QED
    BY <1>10, <2>1, <2>2, <2>3
<1>17. ObjWalks'
  BY <1>16 DEF ObjWalks
<1> QED
  BY <1>9, <1>13, <1>17 DEF ObjInv

LEMMA ObjUnrefInv ==
  ASSUME ObjInv, NEW o \in Obj, mowgli_object_unref(o)
  PROVE  ObjInv'
<1>1. /\ refs[o] > 0 /\ refs[o] \in Nat
      /\ refs' = [refs EXCEPT ![o] = refs[o] - 1]
      /\ refs \in [Obj -> Nat]
  BY DEF mowgli_object_unref, ObjInv, ObjTypeOK
<1>2. obj[o].live /\ obj[o].refcount = refs[o] /\ IsStack(bcast)
  BY <1>1 DEF ObjInv, ObjCounts, ObjTypeOK
<1>3. PICK b : b = mowgli_object_message_broadcast(o, obj[o].klass, "destroy")
  OBVIOUS
<1>4. \/ /\ ~ObjLastRef(o)
         /\ obj' = [obj EXCEPT ![o].refcount = @ - 1]
         /\ UNCHANGED <<bcast, destroyed>>
      \/ /\ ObjLastRef(o) /\ b # << >>
         /\ obj' = [obj EXCEPT ![o].refcount = @ - 1]
         /\ bcast' = ObjDropped(bcast, o) \o b
         /\ UNCHANGED destroyed
      \/ /\ ObjLastRef(o) /\ b = << >>
         /\ ObjDestroy(o, ObjDropped(bcast, o))
  BY <1>3, Zenon DEF mowgli_object_unref
<1>5. CASE ~ObjLastRef(o)
  <2>1. refs[o] - 1 \in Nat \ {0}
    BY <1>1, <1>2, <1>5 DEF ObjLastRef
  <2>2. /\ obj' = [obj EXCEPT ![o].refcount = refs[o] - 1]
        /\ UNCHANGED <<bcast, destroyed>>
    BY <1>2, <1>4, <1>5
  <2> QED
    BY <1>1, <2>1, <2>2, ObjCountInv
<1>6. CASE ObjLastRef(o)
  <2>1. refs[o] = 1
    BY <1>1, <1>2, <1>6 DEF ObjLastRef
  <2>2. refs' = [refs EXCEPT ![o] = 0] /\ refs' \in [Obj -> Nat] /\ refs'[o] = 0
        /\ \A p \in Obj : p # o => refs'[p] = refs[p]
    BY <1>1, <2>1
  <2>3. CASE b = << >>
    <3>1. PICK bs : bs = ObjDropped(bcast, o)
      OBVIOUS
    <3>2. ObjDestroy(o, bs)
      BY <1>4, <1>6, <2>3, <3>1
    <3>3. /\ IsStack(bs) /\ Len(bs) = Len(bcast)
          /\ \A i \in 1..Len(bcast) :
               /\ bs[i].obj = bcast[i].obj /\ bs[i].msg = bcast[i].msg
               /\ bcast[i].obj # o => bs[i].self = bcast[i].self
               /\ bcast[i].obj = o => bs[i].self # "held"
      BY ONLY <1>2, <3>1, o \in Obj, ObjDroppedIs
    <3>4. \A i \in 1..Len(bcast) : bcast[i].obj = o => bcast[i].msg # "destroy"
      BY <1>1 DEF ObjInv, ObjWalks
    <3>5. Len(bs) <= Len(bcast) /\ \A i \in 1..Len(bcast) : i <= Len(bs)
      BY <1>2, <3>3, StackIs
    <3>6. \A i \in 1..Len(bs) :
            /\ bs[i].obj = bcast[i].obj /\ bs[i].msg = bcast[i].msg
            /\ bs[i].obj # o => bs[i].self = bcast[i].self
            /\ bs[i].obj = o => bs[i].self # "held" /\ bs[i].msg # "destroy"
      BY <3>3, <3>4
    <3> QED
      BY ONLY ObjInv, o \in Obj, <3>2, <1>2, <2>2, <3>3, <3>5, <3>6, ObjGone
  <2>4. CASE b # << >>
    <3>1. PICK c : b = <<c>> /\ IsBcast(c) /\ c.obj = o /\ c.msg = "destroy" /\ c.self = "held"
      BY <1>2, <1>3, <2>4, BcastMade
    <3>2. obj' = [obj EXCEPT ![o].refcount = obj[o].refcount - 1] /\ UNCHANGED destroyed
          /\ bcast' = ObjDropped(bcast, o) \o <<c>>
      BY <1>4, <1>6, <2>4, <3>1
    <3>3. obj[o].refcount - 1 = 0
      BY <1>2, <2>1
    <3>4. obj' = [obj EXCEPT ![o].refcount = 0]
      BY <3>2, <3>3
    <3> QED
      BY <1>1, <2>2, <3>1, <3>2, <3>4, ObjGoing
  <2> QED
    BY <2>3, <2>4
<1> QED
  BY <1>5, <1>6

LEMMA ObjBroadcastInv ==
  ASSUME ObjInv, NEW o \in Obj, ObjBroadcast(o)
  PROVE  ObjInv'
<1>1. /\ obj[o].live
      /\ bcast' = bcast \o mowgli_object_message_broadcast(o, obj[o].klass, "note")
      /\ UNCHANGED <<obj, klass, refs, destroyed>>
  BY DEF ObjBroadcast
<1>2. /\ IsStack(bcast')
      /\ \A i \in 1..Len(bcast) : bcast'[i] = bcast[i]
      /\ \/ Len(bcast') = Len(bcast)
         \/ /\ Len(bcast') = Len(bcast) + 1
            /\ bcast'[Len(bcast')].obj = o /\ bcast'[Len(bcast')].msg = "note"
  BY <1>1, ObjPushed DEF ObjInv, ObjTypeOK
<1>3. /\ obj'[o].live
      /\ \A p \in Obj : obj[p].live => obj'[p].live
      /\ \A p \in Obj : refs[p] = 0 /\ obj[p].live => refs'[p] = 0
  BY <1>1
<1>4. ObjWalks' /\ \A p \in Obj : ObjDestroying(p) => ObjDestroying(p)'
  BY <1>2, <1>3, ObjPushWalks
<1>5. ObjTypeOK'
  BY <1>1, <1>2 DEF ObjInv, ObjTypeOK
<1>6. ObjCounts'
  BY <1>1, <1>4 DEF ObjInv, ObjCounts
<1> QED
  BY <1>4, <1>5, <1>6 DEF ObjInv

(* What the broadcast goes on as.                                          *)
LEMMA ObjAdvanceIs ==
  ASSUME NEW b, IsBcast(b), NEW own, NEW next, next = ObjAdvance(b, own)
  PROVE  \/ next = << >>
         \/ /\ next # << >>
            /\ \E c : /\ next = <<c>> /\ IsBcast(c)
                      /\ c.obj = b.obj /\ c.msg = b.msg /\ c.self = b.self
<1>1. ASSUME NEW x, NEW c, c = [b EXCEPT !.next = x]
      PROVE  IsBcast(c) /\ c.obj = b.obj /\ c.msg = b.msg /\ c.self = b.self
  BY <1>1 DEF IsBcast
<1>2. ASSUME NEW x, NEW c, c = [b EXCEPT !.at = "object"]
      PROVE  IsBcast(c) /\ c.obj = b.obj /\ c.msg = b.msg /\ c.self = b.self
  BY <1>2 DEF IsBcast
<1>3. ASSUME NEW x, NEW c, IsBcast(c), NEW d, d = [c EXCEPT !.next = x]
      PROVE  IsBcast(d) /\ d.obj = c.obj /\ d.msg = c.msg /\ d.self = c.self
  BY <1>3 DEF IsBcast
<1>4. ASSUME NEW x, NEW c, IsBcast(c), NEW d, d = [c EXCEPT !.left = x]
      PROVE  IsBcast(d) /\ d.obj = c.obj /\ d.msg = c.msg /\ d.self = c.self
  BY <1>4 DEF IsBcast
<1> DEFINE Own(x, y) == [b EXCEPT !.at = "object", !.next = x, !.left = y]
<1>5. ASSUME NEW x, NEW y
      PROVE  IsBcast(Own(x, y)) /\ Own(x, y).obj = b.obj /\ Own(x, y).msg = b.msg
             /\ Own(x, y).self = b.self
  <2>1. PICK c1 : c1 = [b EXCEPT !.at = "object"]
    OBVIOUS
  <2>2. PICK c2 : c2 = [c1 EXCEPT !.next = x]
    OBVIOUS
  <2>3. PICK c3 : c3 = [c2 EXCEPT !.left = y]
    OBVIOUS
  <2>4. Own(x, y) = c3
    BY <2>1, <2>2, <2>3, ZenonT(30)
  <2> HIDE DEF Own
  <2>5. IsBcast(c1) /\ c1.obj = b.obj /\ c1.msg = b.msg /\ c1.self = b.self
    BY <1>2, <2>1
  <2>6. IsBcast(c2) /\ c2.obj = c1.obj /\ c2.msg = c1.msg /\ c2.self = c1.self
    BY <1>3, <2>2, <2>5
  <2>7. IsBcast(c3) /\ c3.obj = c2.obj /\ c3.msg = c2.msg /\ c3.self = c2.self
    BY <1>4, <2>3, <2>6
  <2> QED
    BY <2>4, <2>5, <2>6, <2>7, Zenon
<1>6. \/ next = << >>
      \/ \E x : next = <<[b EXCEPT !.next = x]>>
      \/ \E x, y : next = <<Own(x, y)>>
  BY Zenon DEF ObjAdvance
<1> HIDE DEF Own
<1>7. \A c : <<c>> # << >>
  OBVIOUS
<1>8. CASE \E x : next = <<[b EXCEPT !.next = x]>>
  <2>1. PICK x : next = <<[b EXCEPT !.next = x]>>
    BY <1>8
  <2>2. PICK c : c = [b EXCEPT !.next = x]
    OBVIOUS
  <2> QED
    BY <1>1, <1>7, <2>1, <2>2, Zenon
<1>9. CASE \E x, y : next = <<Own(x, y)>>
  BY <1>5, <1>7, <1>9, Zenon
<1> QED
  BY <1>6, <1>8, <1>9

LEMMA ObjReturnInv ==
  ASSUME ObjInv, ObjHandlerReturns
  PROVE  ObjInv'
<1>1. PICK own : \/ /\ ObjAdvance(Last(bcast), own) # << >> \/ Last(bcast).msg # "destroy"
                    /\ bcast' = Front(bcast) \o ObjAdvance(Last(bcast), own)
                    /\ UNCHANGED <<obj, destroyed>>
                 \/ /\ ObjAdvance(Last(bcast), own) = << >> /\ Last(bcast).msg = "destroy"
                    /\ ObjDestroy(Last(bcast).obj, Front(bcast))
  BY Zenon DEF ObjHandlerReturns
<1>2. PICK next : next = ObjAdvance(Last(bcast), own)
  OBVIOUS
<1>3. bcast # << >> /\ IsStack(bcast) /\ UNCHANGED refs
  BY DEF ObjHandlerReturns, ObjInv, ObjTypeOK
<1>4. PICK n : n = Len(bcast)
  OBVIOUS
<1>5. PICK bs : bs = Front(bcast)
  OBVIOUS
<1>6. /\ IsStack(bs) /\ Len(bs) = n - 1
      /\ \A i \in 1..(n - 1) : bs[i] = bcast[i]
      /\ Last(bcast) = bcast[n] /\ n \in Nat \ {0} /\ IsBcast(bcast[n])
      /\ \A i \in 1..n : i \in 1..(n - 1) \/ i = n
      /\ \A i \in 1..(n - 1) : i \in 1..n /\ i # n
      /\ n \in 1..n
  <2>1. /\ IsStack(bs) /\ Len(bs) = n - 1
        /\ \A i \in 1..(n - 1) : bs[i] = bcast[i]
        /\ Last(bcast) = bcast[n] /\ n \in Nat \ {0} /\ IsBcast(bcast[n])
    BY <1>3, <1>4, <1>5, StackPop
  <2> QED
    BY <2>1
<1>7. CASE next = << >> /\ bcast[n].msg = "destroy"
  <2>1. PICK o \in Obj : o = bcast[n].obj
    BY <1>6 DEF IsBcast
  <2>2. ObjDestroy(o, bs)
    BY <1>1, <1>2, <1>5, <1>6, <1>7, <2>1
  <2>3. /\ bcast[n].self = "held" /\ refs[o] = 0 /\ obj[o].live
        /\ \A j \in 1..n : bcast[j].obj = o =>
             /\ bcast[j].msg = "destroy" => j = n
             /\ j < n => bcast[j].self # "held"
    BY <1>4, <1>6, <1>7, <2>1 DEF ObjInv, ObjWalks
  <2>4. /\ refs' \in [Obj -> Nat] /\ refs'[o] = 0
        /\ \A p \in Obj : p # o => refs'[p] = refs[p]
    BY <1>3, <2>3 DEF ObjInv, ObjTypeOK
  <2>5. Len(bs) <= Len(bcast)
    BY <1>4, <1>6
  <2>6. \A i \in 1..Len(bcast) : bcast[i].obj # o => i <= Len(bs)
    BY <1>4, <1>6, <2>1
  <2>7. ASSUME NEW i \in 1..Len(bs)
        PROVE  /\ bs[i].obj = bcast[i].obj /\ bs[i].msg = bcast[i].msg
               /\ bs[i].obj # o => bs[i].self = bcast[i].self
               /\ bs[i].obj = o => bs[i].self # "held" /\ bs[i].msg # "destroy"
    <3>1. bs[i] = bcast[i] /\ i \in 1..n /\ i # n /\ i < n
      BY <1>6
    <3> QED
      BY <2>3, <3>1
  <2> QED
    BY ONLY ObjInv, o \in Obj, <1>6, <2>2, <2>3, <2>4, <2>5, <2>6, <2>7, ObjGone
<1>8. CASE next = << >> /\ bcast[n].msg # "destroy"
  <2>1. bcast' = bs /\ UNCHANGED <<obj, destroyed>>
    <3>1. bcast' = bs \o << >> /\ UNCHANGED <<obj, destroyed>>
      BY <1>1, <1>2, <1>5, <1>6, <1>8
    <3> QED
      BY <1>6, <3>1, StackIs
  <2>2. ObjTypeOK'
    BY <1>3, <1>6, <2>1 DEF ObjInv, ObjTypeOK
  <2>3. \A p \in Obj : ObjDestroying(p) => ObjDestroying(p)'
    <3>1. SUFFICES ASSUME NEW p, ObjDestroying(p) PROVE ObjDestroying(p)'
      OBVIOUS
    <3>2. PICK i \in 1..n : bcast[i].obj = p /\ bcast[i].msg = "destroy"
      BY <1>4, <3>1 DEF ObjDestroying
    <3>3. i # n
      BY <1>8, <3>2
    <3>4. i \in 1..(n - 1)
      BY <1>6, <3>3
    <3>5. bcast'[i] = bcast[i] /\ i \in 1..Len(bcast')
      BY <1>6, <2>1, <3>4
    <3>6. bcast'[i].obj = p /\ bcast'[i].msg = "destroy" /\ i \in 1..Len(bcast')
      BY <3>2, <3>5
    <3> QED
      BY <3>6 DEF ObjDestroying
  <2>4. ObjCounts'
    BY <1>3, <2>1, <2>3 DEF ObjInv, ObjCounts
  <2>5. ObjWalks'
    <3>1. ASSUME NEW i \in 1..Len(bcast')
          PROVE  /\ i \in 1..Len(bcast) /\ bcast'[i] = bcast[i]
      BY <1>4, <1>6, <2>1
    <3>2. ObjWalks
      BY DEF ObjInv
    <3>3. obj' = obj /\ refs' = refs
      BY <1>3, <2>1
    <3> QED
      BY ONLY <3>1, <3>2, <3>3 DEF ObjWalks
  <2> QED
    BY <2>2, <2>4, <2>5 DEF ObjInv
<1>9. CASE next # << >>
  <2>1. PICK c : /\ next = <<c>> /\ IsBcast(c)
                 /\ c.obj = bcast[n].obj /\ c.msg = bcast[n].msg /\ c.self = bcast[n].self
    BY <1>2, <1>6, <1>9, ObjAdvanceIs
  <2>2. bcast' = bs \o <<c>> /\ UNCHANGED <<obj, destroyed>>
    BY <1>1, <1>2, <1>5, <1>6, <1>9, <2>1
  <2>3. /\ IsStack(bcast') /\ Len(bcast') = n
        /\ \A i \in 1..(n - 1) : bcast'[i] = bs[i]
        /\ bcast'[n] = c
    <3>1. /\ IsStack(bs \o <<c>>) /\ Len(bs \o <<c>>) = Len(bs) + 1
          /\ \A i \in 1..Len(bs) : (bs \o <<c>>)[i] = bs[i]
          /\ (bs \o <<c>>)[Len(bs) + 1] = c
      <4>1. IsStack(bs) /\ IsBcast(c)
        BY <1>6, <2>1
      <4> QED
        BY ONLY <4>1, StackPush
    <3>2. Len(bs) + 1 = n
      BY <1>6
    <3> QED
      BY <1>6, <2>2, <3>1, <3>2
  <2>4. \A i \in 1..Len(bcast) : /\ bcast'[i].obj = bcast[i].obj
                                 /\ bcast'[i].msg = bcast[i].msg
                                 /\ bcast'[i].self = bcast[i].self
    BY <1>4, <1>6, <2>1, <2>3
  <2>5. /\ obj' = [p \in Obj |-> obj'[p]]
        /\ \A p \in Obj : /\ IsObj(obj'[p])
                          /\ obj'[p].live = obj[p].live
                          /\ obj'[p].refcount = obj[p].refcount
    BY <2>2, Zenon DEF ObjInv, ObjTypeOK
  <2>6. UNCHANGED <<refs, destroyed>> /\ IsStack(bcast') /\ Len(bcast') = Len(bcast)
    BY <1>3, <1>4, <2>2, <2>3
  <2> QED
    BY <2>4, <2>5, <2>6, ObjFrame
<1> QED
  BY <1>7, <1>8, <1>9

(* A reference keeps its object, an object is destroyed once, when the     *)
(* last reference is gone, by one broadcast of "destroy", and a broadcast  *)
(* works on a live one until the last reference to it is dropped from      *)
(* within: for any number of objects and handlers, nested to any depth.    *)
THEOREM ObjectsLiveWhileReferenced == ObjSpec => []ObjLifetime
<1>1. ObjInit => ObjInv
  <2> SUFFICES ASSUME ObjInit PROVE ObjInv
    OBVIOUS
  <2>1. IsObj(NoObj) /\ NoObj.live = FALSE /\ NoObj.refcount = 0
    BY DEF IsObj, NoObj
  <2>2. obj = [o \in Obj |-> NoObj] /\ bcast = << >> /\ refs = [o \in Obj |-> 0]
        /\ destroyed = [o \in Obj |-> 0]
    BY DEF ObjInit
  <2>3. NoObj.live \in BOOLEAN
    BY <2>1, Zenon
  <2>4. IsStack(bcast) /\ Len(bcast) = 0
    <3>1. << >> \in Seq({}) /\ Len(<< >>) = 0
      BY EmptySeq
    <3> QED
      BY <2>2, <3>1 DEF IsStack
  <2>5. ObjTypeOK
    <3>1. obj = [o \in Obj |-> obj[o]] /\ \A o \in Obj : obj[o] = NoObj
      BY <2>2
    <3>2. NoObj.refcount \in Int /\ refs \in [Obj -> Nat] /\ destroyed \in [Obj -> Nat]
      BY <2>1, <2>2
    <3> QED
      BY <2>1, <2>3, <2>4, <3>1, <3>2, Zenon DEF ObjTypeOK
  <2> QED
    BY <2>1, <2>2, <2>4, <2>5 DEF ObjInv, ObjCounts, ObjWalks
<1>2. ObjInv /\ [ObjNext]_objVars => ObjInv'
  <2> SUFFICES ASSUME ObjInv, [ObjNext]_objVars PROVE ObjInv'
    OBVIOUS
  <2>1. CASE UNCHANGED objVars
    <3>1. UNCHANGED <<obj, bcast, refs, destroyed>>
      BY <2>1 DEF objVars
    <3> QED
      BY <3>1 DEF ObjInv, ObjTypeOK, ObjCounts, ObjWalks, ObjDestroying
  <2> QED
    BY <2>1, ObjInitStepInv, ObjBroadcastInv, ObjReturnInv, ObjDataInv, ObjRefInv, ObjUnrefInv
       DEF ObjNext, ObjClient
<1>3. ObjInv => ObjLifetime
  <2> SUFFICES ASSUME ObjInv PROVE ObjLifetime
    OBVIOUS
  <2>1. DOMAIN bcast = 1..Len(bcast)
    BY StackIs DEF ObjInv, ObjTypeOK
  <2> QED
    BY <2>1 DEF ObjInv, ObjCounts, ObjWalks, ObjDestroying, ObjLifetime
<1> QED
  BY <1>1, <1>2, <1>3, PTL DEF ObjSpec

-----------------------------------------------------------------------------
(* Hooks.                                                                  *)

HookCanons == {HookCanon[n] : n \in HookName}

HookCall == [hook : HookCanons, cur : HookItem,
             todo : SUBSET HookItem, done : SUBSET HookItem]

HookTypeOK ==
  /\ DOMAIN hooks \subseteq HookCanons
  /\ \A h \in DOMAIN hooks : hooks[h] \in Seq(HookItem) /\ Injective(hooks[h])
  /\ hcalls \in Seq(HookCall)

\* c is at an item of its hook: what it still has to call comes after it on
\* the list, what it has called comes before
HookCallInv(c) ==
  /\ c.hook \in DOMAIN hooks
  /\ c.cur \in ToSet(hooks[c.hook])
  /\ \A y \in c.todo : Precedes(hooks[c.hook], c.cur, y)
  /\ \A y \in c.done : Precedes(hooks[c.hook], y, c.cur)

HookInv ==
  /\ HookTypeOK
  /\ \A d \in DOMAIN hcalls : HookCallInv(hcalls[d])

(* Lists that only grow at the tail keep every call where it is.           *)
LEMMA HookGrows ==
  ASSUME HookInv, UNCHANGED hcalls,
         DOMAIN hooks \subseteq DOMAIN hooks',
         DOMAIN hooks' \subseteq HookCanons,
         \A h \in DOMAIN hooks' : hooks'[h] \in Seq(HookItem) /\ Injective(hooks'[h]),
         \A h \in DOMAIN hooks :
           /\ ToSet(hooks[h]) \subseteq ToSet(hooks'[h])
           /\ \A x, y : Precedes(hooks[h], x, y) => Precedes(hooks'[h], x, y)
  PROVE  HookInv'
<1>1. HookTypeOK'
  BY DEF HookInv, HookTypeOK
<1>2. ASSUME NEW d \in DOMAIN hcalls PROVE HookCallInv(hcalls[d])'
  <2>1. HookCallInv(hcalls[d])
    BY DEF HookInv
  <2> QED
    BY <2>1 DEF HookCallInv
<1> QED
  BY <1>1, <1>2 DEF HookInv

LEMMA HookListOf ==
  ASSUME HookInv, NEW h
  PROVE  /\ HookItems(h) \in Seq(HookItem)
         /\ Injective(HookItems(h))
         /\ ToSet(HookItems(h)) \subseteq HookInUse
<1>1. CASE h \in DOMAIN hooks
  BY <1>1 DEF HookInv, HookTypeOK, HookItems, HookInUse
<1>2. CASE h \notin DOMAIN hooks
  BY <1>2, EmptySeq DEF HookItems, Injective, ToSet
<1> QED
  BY <1>1, <1>2

LEMMA HookRegisterInv ==
  ASSUME HookInv, NEW n \in HookName, mowgli_hook_register(n)
  PROVE  HookInv'
<1> DEFINE h == HookCanon[n]
<1>1. h \notin DOMAIN hooks /\ h \in HookCanons /\ UNCHANGED hcalls
  BY DEF mowgli_hook_register, mowgli_hook_find, HookCanons
<1>2. /\ DOMAIN hooks' = DOMAIN hooks \cup {h}
      /\ \A x \in DOMAIN hooks \cup {h} : hooks'[x] = HookItems(x)
  BY DEF mowgli_hook_register, HookAdded
<1>3. \A x \in DOMAIN hooks : hooks'[x] = hooks[x]
  BY <1>2 DEF HookItems
<1> HIDE DEF h
<1>4. \A x \in DOMAIN hooks' : hooks'[x] \in Seq(HookItem) /\ Injective(hooks'[x])
  BY <1>2, HookListOf
<1>5. DOMAIN hooks' \subseteq HookCanons
  BY <1>1, <1>2 DEF HookInv, HookTypeOK
<1> QED
  BY <1>1, <1>2, <1>3, <1>4, <1>5, HookGrows

LEMMA HookAssociateInv ==
  ASSUME HookInv, NEW n \in HookName, NEW f, NEW i \in HookItem,
         mowgli_hook_associate(n, f, i)
  PROVE  HookInv'
<1> DEFINE h == HookCanon[n]
<1>1. h \in HookCanons /\ UNCHANGED hcalls /\ i \notin HookInUse
  BY DEF mowgli_hook_associate, HookCanons
<1>2. /\ DOMAIN hooks' = DOMAIN hooks \cup {h}
      /\ hooks'[h] = Append(HookItems(h), i)
      /\ \A x \in DOMAIN hooks \cup {h} : x # h => hooks'[x] = HookItems(x)
  BY DEF mowgli_hook_associate, HookAdded
<1> HIDE DEF h
<1>3. HookItems(h) \in Seq(HookItem) /\ Injective(HookItems(h)) /\ i \notin ToSet(HookItems(h))
  BY <1>1, HookListOf
<1>4. /\ hooks'[h] \in Seq(HookItem) /\ Injective(hooks'[h])
      /\ \A x, y : Precedes(HookItems(h), x, y) => Precedes(hooks'[h], x, y)
      /\ ToSet(hooks'[h]) = ToSet(HookItems(h)) \cup {i}
  BY <1>2, <1>3, AppendPrecedes, AppendSet
<1>5. \A x \in DOMAIN hooks' : hooks'[x] \in Seq(HookItem) /\ Injective(hooks'[x])
  BY <1>2, <1>4, HookListOf
<1>6. \A x \in DOMAIN hooks :
        /\ ToSet(hooks[x]) \subseteq ToSet(hooks'[x])
        /\ \A y, z : Precedes(hooks[x], y, z) => Precedes(hooks'[x], y, z)
  <2> SUFFICES ASSUME NEW x \in DOMAIN hooks
               PROVE  /\ ToSet(hooks[x]) \subseteq ToSet(hooks'[x])
                      /\ \A y, z : Precedes(hooks[x], y, z) => Precedes(hooks'[x], y, z)
    OBVIOUS
  <2>1. HookItems(x) = hooks[x]
    BY DEF HookItems
  <2>2. CASE x = h
    BY <1>4, <2>1, <2>2
  <2>3. CASE x # h
    BY <1>2, <2>1, <2>3
  <2> QED
    BY <2>2, <2>3
<1>7. DOMAIN hooks' \subseteq HookCanons
  BY <1>1, <1>2 DEF HookInv, HookTypeOK
<1> QED
  BY <1>1, <1>2, <1>5, <1>6, <1>7, HookGrows

(* An item that is dissociated is of no call's rest and of none that was   *)
(* called, and no call is at it.                                           *)
LEMMA HookDissociateInv ==
  ASSUME HookInv, NEW n \in HookName, NEW f, mowgli_hook_dissociate(n, f)
  PROVE  HookInv'
<1> DEFINE h == HookCanon[n]
           s == hooks[h]
<1>1. h \in DOMAIN hooks /\ s \in Seq(HookItem) /\ Injective(s) /\ HookItems(h) = s
  BY DEF mowgli_hook_dissociate, mowgli_hook_find, HookInv, HookTypeOK, HookItems
<1>2. PICK k \in DOMAIN s :
        /\ HookMayDissociate(s[k])
        /\ hooks' = [hooks EXCEPT ![h] = Unlink(s, s[k])]
        /\ hcalls' = [d \in DOMAIN hcalls |-> [hcalls[d] EXCEPT !.todo = @ \ {s[k]},
                                                               !.done = @ \ {s[k]}]]
  <2>1. PICK k \in DOMAIN HookItems(h) :
          /\ HookMayDissociate(HookItems(h)[k])
          /\ hooks' = [hooks EXCEPT ![h] = Unlink(hooks[h], HookItems(h)[k])]
          /\ hcalls' = [d \in DOMAIN hcalls |->
                          [hcalls[d] EXCEPT !.todo = @ \ {HookItems(h)[k]},
                                            !.done = @ \ {HookItems(h)[k]}]]
    BY Zenon DEF mowgli_hook_dissociate
  <2> HIDE DEF h, s
  <2>2. HookItems(h) = s /\ hooks[h] = s
    BY <1>1 DEF s
  <2> QED
    BY <2>1, <2>2
<1> DEFINE b == s[k]
<1>3. b \in ToSet(s)
  BY DEF ToSet
<1> HIDE DEF h
<1>4. /\ DOMAIN hooks' = DOMAIN hooks
      /\ hooks'[h] = Unlink(s, b)
      /\ \A x \in DOMAIN hooks : x # h => hooks'[x] = hooks[x]
  BY <1>1, <1>2
<1> HIDE DEF s, b
<1>5. /\ Unlink(s, b) \in Seq(HookItem) /\ Injective(Unlink(s, b))
      /\ ToSet(Unlink(s, b)) = ToSet(s) \ {b}
      /\ \A x, y : Precedes(s, x, y) /\ x # b /\ y # b => Precedes(Unlink(s, b), x, y)
  BY <1>1, <1>3, UnlinkSet, UnlinkPrecedes DEF Injective
<1>6. hcalls \in Seq(HookCall) /\ DOMAIN hcalls = 1 .. Len(hcalls) /\ Len(hcalls) \in Nat
  BY DEF HookInv, HookTypeOK
<1>7. hcalls' = [d \in DOMAIN hcalls |-> [hcalls[d] EXCEPT !.todo = @ \ {b}, !.done = @ \ {b}]]
  BY <1>2 DEF b
<1>8. ASSUME NEW d \in DOMAIN hcalls
      PROVE  /\ hcalls'[d] \in HookCall
             /\ hcalls'[d].hook = hcalls[d].hook
             /\ hcalls'[d].cur = hcalls[d].cur
             /\ hcalls'[d].todo = hcalls[d].todo \ {b}
             /\ hcalls'[d].done = hcalls[d].done \ {b}
  <2> DEFINE c == hcalls[d]
             e == hcalls'[d]
  <2>1. c \in HookCall
    BY <1>6
  <2>2. e = [c EXCEPT !.todo = c.todo \ {b}, !.done = c.done \ {b}]
    BY <1>7, <2>1 DEF HookCall
  <2> HIDE DEF c, e
  <2>3. e \in HookCall /\ e.hook = c.hook /\ e.cur = c.cur /\ e.todo = c.todo \ {b} /\ e.done = c.done \ {b}
    BY <2>1, <2>2 DEF HookCall
  <2> QED
    BY <2>3 DEF c, e
<1>9. hcalls' \in Seq(HookCall) /\ DOMAIN hcalls' = DOMAIN hcalls
  <2>1. DOMAIN hcalls' = 1 .. Len(hcalls) /\ hcalls' = [d \in 1 .. Len(hcalls) |-> hcalls'[d]]
    BY <1>6, <1>7
  <2>2. hcalls' \in [1 .. Len(hcalls) -> HookCall]
    BY <1>6, <1>8, <2>1
  <2> QED
    BY <1>6, <2>1, <2>2, SeqDef
<1>10. HookTypeOK'
  <2>1. \A x \in DOMAIN hooks' : hooks'[x] \in Seq(HookItem) /\ Injective(hooks'[x])
    BY <1>4, <1>5 DEF HookInv, HookTypeOK
  <2>2. DOMAIN hooks' \subseteq HookCanons
    BY <1>4 DEF HookInv, HookTypeOK
  <2> QED
    BY <1>9, <2>1, <2>2 DEF HookTypeOK
<1>11. ASSUME NEW d \in DOMAIN hcalls PROVE HookCallInv(hcalls[d])'
  <2> DEFINE c == hcalls[d]
  <2>1. HookCallInv(c)
    BY DEF HookInv
  <2>2. c.cur # b
    <3>1. c \in ToSet(hcalls)
      BY DEF ToSet
    <3> QED
      BY <1>2, <3>1 DEF HookMayDissociate, b
  <2>3. CASE c.hook = h
    <3>1. /\ c.cur \in ToSet(s)
          /\ \A y \in c.todo : Precedes(s, c.cur, y)
          /\ \A y \in c.done : Precedes(s, y, c.cur)
      BY <2>1, <2>3 DEF HookCallInv, s
    <3> HIDE DEF c
    <3>2. /\ c.cur \in ToSet(hooks'[h])
          /\ \A y \in c.todo \ {b} : Precedes(hooks'[h], c.cur, y)
          /\ \A y \in c.done \ {b} : Precedes(hooks'[h], y, c.cur)
      BY <1>4, <1>5, <2>2, <3>1
    <3> QED
      BY <1>1, <1>4, <1>8, <2>3, <3>2 DEF HookCallInv, c
  <2>4. CASE c.hook # h
    BY <1>4, <1>8, <2>1, <2>4 DEF HookCallInv
  <2> QED
    BY <2>3, <2>4
<1> QED
  BY <1>9, <1>10, <1>11 DEF HookInv

LEMMA HookCallStepInv ==
  ASSUME HookInv, NEW n \in HookName, mowgli_hook_call(n)
  PROVE  HookInv'
<1> DEFINE h == HookCanon[n]
           s == HookItems(h)
           c == [hook |-> h, cur |-> Head(s), todo |-> ToSet(Tail(s)), done |-> {}]
<1>1. s # << >> /\ hcalls' = Append(hcalls, c) /\ UNCHANGED hooks /\ h \in HookCanons
  BY DEF mowgli_hook_call, HookCanons
<1>2. h \in DOMAIN hooks /\ hooks[h] = s
  BY <1>1 DEF HookItems
<1>3. s \in Seq(HookItem) /\ Injective(s)
  BY HookListOf
<1> HIDE DEF h, s
<1>4. /\ Len(s) \in Nat \ {0} /\ DOMAIN s = 1 .. Len(s) /\ Head(s) = s[1] /\ s[1] \in HookItem
      /\ Tail(s) \in Seq(HookItem) /\ DOMAIN Tail(s) = 1 .. Len(s) - 1
      /\ \A i \in 1 .. Len(s) - 1 : Tail(s)[i] = s[i + 1]
  BY <1>1, <1>3
<1>5. \A y \in ToSet(Tail(s)) : y \in HookItem /\ Precedes(s, Head(s), y)
  <2> SUFFICES ASSUME NEW y \in ToSet(Tail(s)) PROVE y \in HookItem /\ Precedes(s, Head(s), y)
    OBVIOUS
  <2>1. PICK i \in 1 .. Len(s) - 1 : Tail(s)[i] = y
    BY <1>4 DEF ToSet
  <2>2. i + 1 \in DOMAIN s /\ 1 \in DOMAIN s /\ 1 < i + 1 /\ s[i + 1] = y /\ s[1] = Head(s)
    BY <1>4, <2>1
  <2> QED
    BY <1>3, <2>2 DEF Precedes
<1>6. c \in HookCall /\ HookCallInv(c)
  <2>1. Head(s) \in ToSet(s)
    BY <1>4 DEF ToSet
  <2> QED
    BY <1>1, <1>2, <1>4, <1>5, <2>1 DEF HookCall, HookCallInv
<1> HIDE DEF c
<1>7. /\ hcalls \in Seq(HookCall)
      /\ \A d \in DOMAIN hcalls : HookCallInv(hcalls[d])
  BY DEF HookInv, HookTypeOK
<1>8. \A d \in DOMAIN hcalls' : hcalls'[d] = c \/ (d \in DOMAIN hcalls /\ hcalls'[d] = hcalls[d])
  BY <1>1, <1>6, <1>7
<1>10. HookTypeOK'
  BY <1>1, <1>6, <1>7 DEF HookInv, HookTypeOK
<1>11. ASSUME NEW d \in DOMAIN hcalls' PROVE HookCallInv(hcalls[d])'
  BY <1>1, <1>6, <1>7, <1>8 DEF HookCallInv
<1> QED
  BY <1>10, <1>11 DEF HookInv

(* The function of the topmost call returns: the call moves on to the item *)
(* after it, or ends.                                                      *)
LEMMA HookReturnInv ==
  ASSUME HookInv, HookFunctionReturns
  PROVE  HookInv'
<1> DEFINE c == Last(hcalls)
           r == HookAfter(c)
           e == [c EXCEPT !.cur = Head(r), !.todo = @ \ {Head(r)}, !.done = @ \cup {c.cur}]
           f == Front(hcalls)
           s == hooks[c.hook]
<1>1. /\ hcalls # << >>
      /\ hcalls' = IF r = << >> THEN f ELSE Append(f, e)
      /\ UNCHANGED hooks
  BY DEF HookFunctionReturns
<1>2. /\ hcalls \in Seq(HookCall)
      /\ \A d \in DOMAIN hcalls : HookCallInv(hcalls[d])
  BY DEF HookInv, HookTypeOK
<1>3. /\ Len(hcalls) \in Nat \ {0} /\ DOMAIN hcalls = 1 .. Len(hcalls)
      /\ f \in Seq(HookCall) /\ Len(f) = Len(hcalls) - 1
      /\ \A d \in 1 .. Len(hcalls) - 1 : f[d] = hcalls[d]
      /\ c = hcalls[Len(hcalls)]
  <2>1. hcalls # << >>
    BY <1>1
  <2>2. Len(hcalls) \in Nat \ {0} /\ DOMAIN hcalls = 1 .. Len(hcalls)
    BY <1>2, <2>1
  <2>3. f = SubSeq(hcalls, 1, Len(hcalls) - 1)
    BY DEF Front
  <2>4. c = hcalls[Len(hcalls)]
    BY DEF Last
  <2> HIDE DEF c, f
  <2>5. /\ f \in Seq(HookCall) /\ Len(f) = Len(hcalls) - 1
        /\ \A d \in 1 .. Len(hcalls) - 1 : f[d] = hcalls[d]
    BY <1>2, <2>2, <2>3
  <2> QED
    BY <2>2, <2>4, <2>5
<1>4. c \in HookCall /\ HookCallInv(c)
  BY <1>2, <1>3
<1>5. r = Rest(s, c.cur)
  BY DEF HookAfter, Rest
<1> HIDE DEF c, r, f
<1>6. \A d \in DOMAIN f : HookCallInv(f[d])
  BY <1>2, <1>3
<1>7. CASE r = << >>
  <2>1. hcalls' = f
    BY <1>1, <1>7
  <2>2. HookTypeOK'
    BY <1>1, <1>3, <2>1 DEF HookInv, HookTypeOK
  <2>3. ASSUME NEW d \in DOMAIN hcalls' PROVE HookCallInv(hcalls[d])'
    BY <1>1, <1>6, <2>1 DEF HookCallInv
  <2> QED
    BY <2>2, <2>3 DEF HookInv
<1>8. CASE r # << >>
  <2>1. hcalls' = Append(f, e)
    BY <1>1, <1>8
  <2>2. s \in Seq(HookItem) /\ Injective(s) /\ c.cur \in ToSet(s)
    BY <1>4 DEF HookCallInv, HookInv, HookTypeOK
  <2>3. /\ r \in Seq(HookItem)
        /\ Precedes(s, c.cur, Head(r))
        /\ \A y : Precedes(s, c.cur, y) /\ y # Head(r) => Precedes(s, Head(r), y)
        /\ \A y : Precedes(s, y, c.cur) => Precedes(s, y, Head(r))
    BY <1>5, <1>8, <2>2, RestOfList
  <2>4. Head(r) \in HookItem /\ Head(r) \in ToSet(s)
    <3>1. Head(r) \in HookItem
      BY <1>8, <2>3
    <3> QED
      BY <2>2, <2>3, <3>1, PrecedesOrder
  <2>5. /\ e \in HookCall /\ e.hook = c.hook /\ e.cur = Head(r)
        /\ e.todo = c.todo \ {Head(r)} /\ e.done = c.done \cup {c.cur}
    <3> DEFINE g == Head(r)
    <3>1. e = [c EXCEPT !.cur = g, !.todo = c.todo \ {g}, !.done = c.done \cup {c.cur}]
      BY <1>4 DEF HookCall
    <3>2. g \in HookItem
      BY <2>4
    <3> HIDE DEF e, g, s
    <3>3. e \in HookCall /\ e.hook = c.hook /\ e.cur = g /\ e.todo = c.todo \ {g} /\ e.done = c.done \cup {c.cur}
      BY <1>4, <3>1, <3>2 DEF HookCall
    <3> QED
      BY <3>3 DEF g
  <2> HIDE DEF e
  <2>6. HookCallInv(e)
    BY <1>4, <2>3, <2>4, <2>5 DEF HookCallInv
  <2>7. HookTypeOK'
    BY <1>1, <1>3, <2>1, <2>5 DEF HookInv, HookTypeOK
  <2>8. ASSUME NEW d \in DOMAIN hcalls' PROVE HookCallInv(hcalls[d])'
    <3>1. hcalls'[d] = e \/ (d \in DOMAIN f /\ hcalls'[d] = f[d])
      BY <1>3, <2>1, <2>5
    <3> QED
      BY <1>1, <1>6, <2>6, <3>1 DEF HookCallInv
  <2> QED
    BY <2>7, <2>8 DEF HookInv
<1> QED
  BY <1>7, <1>8

(* Whatever functions add, remove and call while a hook is called, the     *)
(* function that runs is associated, and every item that was there when    *)
(* the call began is called once unless it is dissociated first: for any   *)
(* hooks, functions, items and depth of calls.                             *)
THEOREM HooksCallEachOnce == HookSpec => []HookCallsEach
<1>1. HookInit => HookInv
  <2> SUFFICES ASSUME HookInit PROVE HookInv
    OBVIOUS
  <2>1. DOMAIN hooks = {} /\ hcalls \in Seq(HookCall) /\ DOMAIN hcalls = {}
    BY EmptySeq DEF HookInit
  <2> QED
    BY <2>1 DEF HookInv, HookTypeOK
<1>2. HookInv /\ [HookNext]_hookVars => HookInv'
  <2> SUFFICES ASSUME HookInv, [HookNext]_hookVars PROVE HookInv'
    OBVIOUS
  <2>1. CASE UNCHANGED hookVars
    <3>1. UNCHANGED <<hooks, hcalls>>
      BY <2>1 DEF hookVars
    <3>2. HookTypeOK'
      BY <3>1 DEF HookInv, HookTypeOK
    <3>3. ASSUME NEW d \in DOMAIN hcalls' PROVE HookCallInv(hcalls[d])'
      BY <3>1 DEF HookInv, HookCallInv
    <3> QED
      BY <3>2, <3>3 DEF HookInv
  <2> QED
    BY <2>1, HookRegisterInv, HookAssociateInv, HookDissociateInv, HookCallStepInv, HookReturnInv
       DEF HookNext
<1>3. HookInv => HookCallsEach
  <2> SUFFICES ASSUME HookInv, NEW d \in DOMAIN hcalls
               PROVE  LET c == hcalls[d]
                      IN  /\ c.cur \in ToSet(hooks[c.hook]) /\ c.cur \notin c.done
                          /\ c.todo \subseteq ToSet(HookAfter(c))
    BY DEF HookCallsEach
  <2> DEFINE c == hcalls[d]
             s == hooks[c.hook]
  <2>1. c \in HookCall /\ HookCallInv(c)
    BY DEF HookInv, HookTypeOK
  <2>2. HookAfter(c) = Rest(s, c.cur)
    BY DEF HookAfter, Rest
  <2> HIDE DEF c
  <2>3. s \in Seq(HookItem) /\ Injective(s) /\ c.cur \in ToSet(s)
    BY <2>1 DEF HookCallInv, HookInv, HookTypeOK
  <2>4. /\ \A y \in c.todo : y \in HookItem /\ Precedes(s, c.cur, y)
        /\ \A y \in c.done : Precedes(s, y, c.cur)
    BY <2>1 DEF HookCallInv, HookCall
  <2> HIDE DEF s
  <2>5. ToSet(Rest(s, c.cur)) = {y \in HookItem : Precedes(s, c.cur, y)}
    BY <2>3, RestOfList
  <2>6. c.cur \notin c.done
    BY <2>3, <2>4, PrecedesOrder
  <2> QED
    BY <2>2, <2>3, <2>4, <2>5, <2>6 DEF c, s
<1> QED
  BY <1>1, <1>2, <1>3, PTL DEF HookSpec

-----------------------------------------------------------------------------
(* VIO: the contexts' reference counts.                                    *)

HandlesOn(cs, c) == {k \in DOMAIN cs : cs[k].handle = c}

Maker(cs, c) == IF \E k \in DOMAIN cs : cs[k].context = c THEN 1 ELSE 0

\* a connection points to contexts that were made
VioConn == [handle : DOMAIN ctxrefs \cup {0}, context : DOMAIN ctxrefs \cup {0}, vio : VObj]

CtxTypeOK ==
  /\ IsFiniteSet(DOMAIN conns)
  /\ \A k \in DOMAIN conns : conns[k] \in VioConn
  /\ \E n \in Nat : DOMAIN ctxrefs = 1 .. n
  /\ DOMAIN shared = DOMAIN ctxrefs
  /\ \A c \in DOMAIN ctxrefs : ctxrefs[c] \in Int /\ shared[c] \in Int

CtxCounted ==
  \A c \in DOMAIN ctxrefs : ctxrefs[c] + shared[c] >= Cardinality(HandlesOn(conns, c)) + Maker(conns, c)

CtxInv == CtxTypeOK /\ CtxCounted

LEMMA HandlesCounted ==
  ASSUME CtxTypeOK, NEW c
  PROVE  /\ IsFiniteSet(HandlesOn(conns, c))
         /\ Cardinality(HandlesOn(conns, c)) \in Nat
         /\ Maker(conns, c) \in {0, 1}
<1>1. HandlesOn(conns, c) \in SUBSET DOMAIN conns
  BY DEF HandlesOn
<1>2. IsFiniteSet(HandlesOn(conns, c))
  BY <1>1, FS_Subset DEF CtxTypeOK
<1> QED
  BY <1>2, FS_CardinalityType DEF Maker

LEMMA NextCtxIsNew ==
  ASSUME CtxTypeOK
  PROVE  \E n \in Nat : /\ DOMAIN ctxrefs = 1 .. n
                        /\ NextCtx = n + 1
                        /\ DOMAIN ctxrefs \cup {NextCtx} = 1 .. n + 1
<1>1. PICK n \in Nat : DOMAIN ctxrefs = 1 .. n
  BY DEF CtxTypeOK
<1>2. Cardinality(1 .. n) = IF 1 > n THEN 0 ELSE n - 1 + 1
  BY FS_Interval
<1>3. NextCtx = n + 1
  BY <1>1, <1>2 DEF NextCtx
<1> QED
  BY <1>1, <1>3

(* setssl: a connection without a context.                                 *)
LEMMA CtxNewConnection ==
  ASSUME CtxInv, NEW v \in VObj, NEW k, k \notin DOMAIN conns,
         conns' = With(conns, k, NewConnection(v)), UNCHANGED <<ctxrefs, shared>>
  PROVE  CtxInv'
<1>1. /\ DOMAIN conns' = DOMAIN conns \cup {k}
      /\ conns'[k] = NewConnection(v)
      /\ \A j \in DOMAIN conns : conns'[j] = conns[j]
  BY DEF With
<1>2. NewConnection(v) \in VioConn
  BY DEF NewConnection, VioConn
<1>3. IsFiniteSet(DOMAIN conns')
  BY <1>1, FS_AddElement DEF CtxInv, CtxTypeOK
<1>4. CtxTypeOK'
  BY <1>1, <1>2, <1>3 DEF CtxInv, CtxTypeOK, VioConn
<1>5. ASSUME NEW c \in DOMAIN ctxrefs
      PROVE  HandlesOn(conns', c) = HandlesOn(conns, c) /\ Maker(conns', c) = Maker(conns, c)
  <2>1. c # 0
    BY DEF CtxInv, CtxTypeOK
  <2>2. conns'[k].handle = 0 /\ conns'[k].context = 0
    BY <1>1 DEF NewConnection
  <2>3. HandlesOn(conns', c) = HandlesOn(conns, c)
    BY <1>1, <2>1, <2>2 DEF HandlesOn
  <2>4. (\E j \in DOMAIN conns' : conns'[j].context = c) <=> (\E j \in DOMAIN conns : conns[j].context = c)
    BY <1>1, <2>1, <2>2
  <2> QED
    BY <2>3, <2>4 DEF Maker
<1>6. CtxCounted'
  BY <1>5 DEF CtxInv, CtxCounted
<1> QED
  BY <1>4, <1>6 DEF CtxInv

(* accept: one more handle on c, which has a maker already.                *)
LEMMA CtxAccept ==
  ASSUME CtxInv, NEW w \in VObj, NEW k, k \notin DOMAIN conns,
         NEW j \in DOMAIN conns, conns[j].context # 0,
         conns' = With(conns, k, SharedContext(w, conns[j].context)),
         ctxrefs' = [ctxrefs EXCEPT ![conns[j].context] = @ + 1],
         UNCHANGED shared
  PROVE  CtxInv'
<1> DEFINE c == conns[j].context
<1>1. c \in DOMAIN ctxrefs
  BY DEF CtxInv, CtxTypeOK, VioConn
<1>2. /\ DOMAIN conns' = DOMAIN conns \cup {k}
      /\ conns'[k] = SharedContext(w, c)
      /\ \A i \in DOMAIN conns : conns'[i] = conns[i]
  BY DEF With
<1>3. /\ DOMAIN ctxrefs' = DOMAIN ctxrefs
      /\ ctxrefs'[c] = ctxrefs[c] + 1
      /\ \A d \in DOMAIN ctxrefs : d # c => ctxrefs'[d] = ctxrefs[d]
  BY <1>1 DEF CtxInv, CtxTypeOK
<1> HIDE DEF c
<1>4. SharedContext(w, c) \in VioConn
  BY <1>1 DEF SharedContext, VioConn
<1>5. IsFiniteSet(DOMAIN conns')
  BY <1>2, FS_AddElement DEF CtxInv, CtxTypeOK
<1>6. CtxTypeOK'
  <2>1. VioConn' = VioConn
    BY <1>3 DEF VioConn
  <2>2. \A i \in DOMAIN conns' : conns'[i] \in VioConn'
    BY <1>2, <1>4, <2>1 DEF CtxInv, CtxTypeOK
  <2>3. \A d \in DOMAIN ctxrefs' : ctxrefs'[d] \in Int /\ shared'[d] \in Int
    BY <1>3 DEF CtxInv, CtxTypeOK
  <2> QED
    BY <1>3, <1>5, <2>2, <2>3 DEF CtxInv, CtxTypeOK
<1>7. conns'[k].handle = c /\ conns'[k].context = c
  BY <1>2 DEF SharedContext
<1>8. ASSUME NEW d \in DOMAIN ctxrefs
      PROVE  ctxrefs'[d] + shared'[d] >= Cardinality(HandlesOn(conns', d)) + Maker(conns', d)
  <2>1. /\ ctxrefs[d] + shared[d] >= Cardinality(HandlesOn(conns, d)) + Maker(conns, d)
        /\ ctxrefs[d] \in Int /\ shared[d] \in Int
    BY DEF CtxInv, CtxCounted, CtxTypeOK
  <2>2. /\ IsFiniteSet(HandlesOn(conns, d))
        /\ Cardinality(HandlesOn(conns, d)) \in Nat
        /\ Maker(conns, d) \in {0, 1}
    BY HandlesCounted DEF CtxInv
  <2>3. (\E i \in DOMAIN conns' : conns'[i].context = d) <=> (\E i \in DOMAIN conns : conns[i].context = d)
    BY <1>2, <1>7 DEF c
  <2>4. Maker(conns', d) = Maker(conns, d)
    BY <2>3 DEF Maker
  <2>5. CASE d = c
    <3>1. HandlesOn(conns', d) = HandlesOn(conns, d) \cup {k} /\ k \notin HandlesOn(conns, d)
      BY <1>2, <1>7, <2>5 DEF HandlesOn
    <3>2. Cardinality(HandlesOn(conns', d)) = Cardinality(HandlesOn(conns, d)) + 1
      BY <2>2, <3>1, FS_AddElement
    <3> QED
      BY <1>3, <2>1, <2>2, <2>4, <2>5, <3>2
  <2>6. CASE d # c
    <3>1. HandlesOn(conns', d) = HandlesOn(conns, d)
      BY <1>2, <1>7, <2>6 DEF HandlesOn
    <3> QED
      BY <1>3, <2>1, <2>4, <2>6, <3>1
  <2> QED
    BY <2>5, <2>6
<1>9. CtxCounted'
  BY <1>3, <1>8 DEF CtxCounted
<1> QED
  BY <1>6, <1>9 DEF CtxInv

(* SSL_CTX_new and SSL_new: what connection k pointed to is forgotten, and *)
(* its count covers all the more.                                          *)
LEMMA CtxFresh ==
  ASSUME CtxInv, NEW k \in DOMAIN conns, NEW outcome, Fresh(k, outcome), Made(outcome)
  PROVE  CtxInv' /\ DOMAIN conns' = DOMAIN conns /\ \A j \in DOMAIN conns : conns'[j].vio = conns[j].vio
<1>1. PICK n \in Nat : DOMAIN ctxrefs = 1 .. n /\ NextCtx = n + 1
                       /\ DOMAIN ctxrefs \cup {NextCtx} = 1 .. n + 1
  BY NextCtxIsNew DEF CtxInv
<1>2. /\ NextCtx \notin DOMAIN ctxrefs /\ NextCtx # 0
      /\ \A c \in DOMAIN ctxrefs : c # 0
      /\ conns[k] \in VioConn
      /\ DOMAIN shared = DOMAIN ctxrefs
  BY <1>1 DEF CtxInv, CtxTypeOK
<1> DEFINE new == conns'[k]
<1>3. /\ DOMAIN conns' = DOMAIN conns
      /\ \A j \in DOMAIN conns : j # k => conns'[j] = conns[j]
  BY DEF Fresh
<1>4. \/ /\ outcome = "noctx"
         /\ new.handle = conns[k].handle /\ new.context = 0 /\ UNCHANGED <<ctxrefs, shared>>
      \/ /\ outcome # "noctx"
         /\ new.handle \in {0, NextCtx} /\ new.context = NextCtx
         /\ DOMAIN ctxrefs' = DOMAIN ctxrefs \cup {NextCtx}
         /\ DOMAIN shared' = DOMAIN ctxrefs \cup {NextCtx}
         /\ ctxrefs'[NextCtx] = IF new.handle = 0 THEN 1 ELSE 2
         /\ shared'[NextCtx] = 0
         /\ \A c \in DOMAIN ctxrefs : ctxrefs'[c] = ctxrefs[c] /\ shared'[c] = shared[c]
  <2> DEFINE x == NextCtx
  <2>1. x = NextCtx
    OBVIOUS
  <2> HIDE DEF x
  <2>2. CASE outcome = "noctx"
    BY <1>2, <2>2 DEF Fresh, Made, VioConn
  <2>3. CASE outcome = "nossl"
    <3>1. new.handle = 0 /\ new.context = x
      BY <1>2, <2>1, <2>3 DEF Fresh, VioConn
    <3>2. ctxrefs' = With(ctxrefs, x, 1) /\ shared' = With(shared, x, 0)
      BY <2>1, <2>3 DEF Fresh, Made
    <3>3. /\ DOMAIN ctxrefs' = DOMAIN ctxrefs \cup {x}
          /\ DOMAIN shared' = DOMAIN ctxrefs \cup {x}
          /\ ctxrefs'[x] = 1 /\ shared'[x] = 0
          /\ \A c \in DOMAIN ctxrefs : ctxrefs'[c] = ctxrefs[c] /\ shared'[c] = shared[c]
      BY <1>2, <2>1, <3>2 DEF With
    <3> QED
      BY <2>1, <2>3, <3>1, <3>3
  <2>4. CASE outcome # "noctx" /\ outcome # "nossl"
    <3>1. new.handle = x /\ new.context = x
      BY <1>2, <2>1, <2>4 DEF Fresh, VioConn
    <3>2. ctxrefs' = With(ctxrefs, x, 2) /\ shared' = With(shared, x, 0)
      BY <2>1, <2>4 DEF Fresh, Made
    <3>3. /\ DOMAIN ctxrefs' = DOMAIN ctxrefs \cup {x}
          /\ DOMAIN shared' = DOMAIN ctxrefs \cup {x}
          /\ ctxrefs'[x] = 2 /\ shared'[x] = 0
          /\ \A c \in DOMAIN ctxrefs : ctxrefs'[c] = ctxrefs[c] /\ shared'[c] = shared[c]
      BY <1>2, <2>1, <3>2 DEF With
    <3> QED
      BY <1>2, <2>1, <2>4, <3>1, <3>3
  <2> QED
    BY <2>2, <2>3, <2>4
<1>5. new = [handle |-> new.handle, context |-> new.context, vio |-> conns[k].vio]
  BY <1>2 DEF Fresh, VioConn
<1> HIDE DEF new
<1>6. CtxTypeOK'
  <2>1. \E m \in Nat : DOMAIN ctxrefs' = 1 .. m
    <3>1. DOMAIN ctxrefs' = 1 .. n \/ DOMAIN ctxrefs' = 1 .. n + 1
      BY <1>1, <1>4
    <3> QED
      BY <3>1
  <2>2. new \in VioConn'
    BY <1>2, <1>4, <1>5 DEF VioConn
  <2>3. \A j \in DOMAIN conns' : conns'[j] \in VioConn'
    BY <1>2, <1>3, <1>4, <2>2 DEF CtxInv, CtxTypeOK, VioConn, new
  <2>4. DOMAIN shared' = DOMAIN ctxrefs'
    BY <1>2, <1>4
  <2>5. \A c \in DOMAIN ctxrefs' : ctxrefs'[c] \in Int /\ shared'[c] \in Int
    BY <1>4 DEF CtxInv, CtxTypeOK
  <2> QED
    BY <1>3, <2>1, <2>3, <2>4, <2>5 DEF CtxInv, CtxTypeOK
<1>7. ASSUME NEW c \in DOMAIN ctxrefs
      PROVE  ctxrefs'[c] + shared'[c] >= Cardinality(HandlesOn(conns', c)) + Maker(conns', c)
  <2>1. /\ ctxrefs[c] + shared[c] >= Cardinality(HandlesOn(conns, c)) + Maker(conns, c)
        /\ ctxrefs[c] \in Int /\ shared[c] \in Int
        /\ ctxrefs'[c] = ctxrefs[c] /\ shared'[c] = shared[c]
    BY <1>4 DEF CtxInv, CtxCounted, CtxTypeOK
  <2>2. /\ IsFiniteSet(HandlesOn(conns, c))
        /\ Cardinality(HandlesOn(conns, c)) \in Nat
        /\ Maker(conns, c) \in {0, 1}
    BY HandlesCounted DEF CtxInv
  <2>3. /\ new.handle = c => conns[k].handle = c
        /\ new.context # c
    BY <1>2, <1>4
  <2>4. HandlesOn(conns', c) \in SUBSET HandlesOn(conns, c)
    BY <1>3, <2>3 DEF HandlesOn, new
  <2>5. Cardinality(HandlesOn(conns', c)) <= Cardinality(HandlesOn(conns, c))
    BY <2>2, <2>4, FS_Subset
  <2>6. Maker(conns', c) <= Maker(conns, c)
    BY <1>3, <2>3 DEF Maker, new
  <2>7. Cardinality(HandlesOn(conns', c)) \in Nat /\ Maker(conns', c) \in {0, 1}
    BY <2>2, <2>4, FS_Subset, FS_CardinalityType DEF Maker
  <2> QED
    BY <2>1, <2>2, <2>5, <2>6, <2>7
<1>8. ASSUME outcome # "noctx"
      PROVE  ctxrefs'[NextCtx] + shared'[NextCtx] >=
               Cardinality(HandlesOn(conns', NextCtx)) + Maker(conns', NextCtx)
  <2>1. \A j \in DOMAIN conns : conns[j].handle # NextCtx
    BY <1>2 DEF CtxInv, CtxTypeOK, VioConn
  <2>2. Maker(conns', NextCtx) \in {0, 1}
    BY DEF Maker
  <2>3. CASE new.handle = 0
    <3>1. HandlesOn(conns', NextCtx) = {}
      BY <1>2, <1>3, <2>1, <2>3 DEF HandlesOn, new
    <3> QED
      BY <1>4, <1>8, <2>2, <2>3, <3>1, FS_EmptySet
  <2>4. CASE new.handle = NextCtx
    <3>1. HandlesOn(conns', NextCtx) = {k}
      BY <1>2, <1>3, <2>1, <2>4 DEF HandlesOn, new
    <3>2. Cardinality(HandlesOn(conns', NextCtx)) = 1
      BY <3>1, FS_Singleton
    <3> QED
      BY <1>2, <1>4, <1>8, <2>2, <2>4, <3>2
  <2> QED
    BY <1>4, <1>8, <2>3, <2>4
<1>9. CtxCounted'
  BY <1>4, <1>7, <1>8 DEF CtxCounted
<1>10. \A j \in DOMAIN conns : conns'[j].vio = conns[j].vio
  BY <1>3, <1>5 DEF new
<1> QED
  BY <1>3, <1>6, <1>9, <1>10 DEF CtxInv

(* SSL_free and SSL_CTX_free: the count loses what the connection gave it, *)
(* or one more where another connection has the same context.              *)
LEMMA CtxRelease ==
  ASSUME CtxInv, NEW k \in DOMAIN conns,
         ctxrefs' = Released(k),
         shared' = IF Borrowed(k) THEN [shared EXCEPT ![conns[k].context] = @ + 1] ELSE shared,
         conns' = Without(conns, k)
  PROVE  CtxInv'
<1> DEFINE h == conns[k].handle
           x == conns[k].context
<1>1. /\ DOMAIN conns' = DOMAIN conns \ {k}
      /\ \A j \in DOMAIN conns \ {k} : conns'[j] = conns[j]
  BY DEF Without
<1>2. /\ DOMAIN ctxrefs' = DOMAIN ctxrefs
      /\ \A c \in DOMAIN ctxrefs :
           ctxrefs'[c] = ctxrefs[c] - ((IF c = h THEN 1 ELSE 0) + (IF c = x THEN 1 ELSE 0))
  BY DEF Released
<1>3. h \in DOMAIN ctxrefs \cup {0} /\ x \in DOMAIN ctxrefs \cup {0}
      /\ DOMAIN shared = DOMAIN ctxrefs
  BY DEF CtxInv, CtxTypeOK, VioConn
<1>4. /\ DOMAIN shared' = DOMAIN ctxrefs
      /\ \A c \in DOMAIN ctxrefs : c # x => shared'[c] = shared[c]
      /\ \A c \in DOMAIN ctxrefs : c = x => shared'[c] = IF Borrowed(k) THEN shared[c] + 1 ELSE shared[c]
  <2>1. CASE Borrowed(k)
    BY <1>3, <2>1
  <2>2. CASE ~Borrowed(k)
    BY <1>3, <2>2
  <2> QED
    BY <2>1, <2>2
<1>5. Borrowed(k) <=> (x # 0 /\ \E j \in DOMAIN conns \ {k} : conns[j].context = x)
  BY DEF Borrowed
<1>6. \A c \in DOMAIN ctxrefs : ctxrefs[c] \in Int /\ shared[c] \in Int /\ c # 0
  BY DEF CtxInv, CtxTypeOK
<1> HIDE DEF h, x
<1>7. CtxTypeOK'
  <2>1. VioConn' = VioConn
    BY <1>2 DEF VioConn
  <2>2. \A j \in DOMAIN conns' : conns'[j] \in VioConn'
    BY <1>1, <2>1 DEF CtxInv, CtxTypeOK
  <2>3. \A c \in DOMAIN ctxrefs' : ctxrefs'[c] \in Int /\ shared'[c] \in Int
    BY <1>2, <1>4, <1>6
  <2>4. IsFiniteSet(DOMAIN conns')
    BY <1>1, FS_RemoveElement DEF CtxInv, CtxTypeOK
  <2> QED
    BY <1>2, <1>4, <2>2, <2>3, <2>4 DEF CtxInv, CtxTypeOK
<1>8. ASSUME NEW c \in DOMAIN ctxrefs
      PROVE  ctxrefs'[c] + shared'[c] >= Cardinality(HandlesOn(conns', c)) + Maker(conns', c)
  <2>1. ctxrefs[c] + shared[c] >= Cardinality(HandlesOn(conns, c)) + Maker(conns, c)
    BY DEF CtxInv, CtxCounted
  <2>2. /\ IsFiniteSet(HandlesOn(conns, c))
        /\ Cardinality(HandlesOn(conns, c)) \in Nat
        /\ Maker(conns, c) \in {0, 1}
    BY HandlesCounted DEF CtxInv
  <2>3. HandlesOn(conns', c) = HandlesOn(conns, c) \ {k} /\ (k \in HandlesOn(conns, c) <=> c = h)
    BY <1>1 DEF HandlesOn, h
  <2>4. Cardinality(HandlesOn(conns', c)) =
          Cardinality(HandlesOn(conns, c)) - (IF c = h THEN 1 ELSE 0)
    <3> DEFINE H == HandlesOn(conns, c)
    <3>1. Cardinality(H \ {k}) = IF k \in H THEN Cardinality(H) - 1 ELSE Cardinality(H)
      BY <2>2, FS_RemoveElement
    <3> HIDE DEF H
    <3> QED
      BY <2>2, <2>3, <3>1 DEF H
  <2>5. Maker(conns', c) \in {0, 1} /\ Maker(conns', c) <= Maker(conns, c)
    BY <1>1 DEF Maker
  <2>6. CASE c # x
    BY <1>2, <1>4, <1>6, <2>1, <2>2, <2>4, <2>5, <2>6
  <2>7. CASE c = x /\ Borrowed(k)
    BY <1>2, <1>4, <1>6, <2>1, <2>2, <2>4, <2>5, <2>7
  <2>8. CASE c = x /\ ~Borrowed(k)
    <3>1. Maker(conns, c) = 1
      BY <2>8 DEF Maker, x
    <3>2. Maker(conns', c) = 0
      BY <1>1, <1>5, <1>6, <2>8 DEF Maker
    <3> QED
      BY <1>2, <1>4, <1>6, <2>1, <2>2, <2>4, <2>8, <3>1, <3>2
  <2> QED
    BY <2>6, <2>7, <2>8
<1>9. CtxCounted'
  BY <1>2, <1>8 DEF CtxCounted
<1> QED
  BY <1>7, <1>9 DEF CtxInv

-----------------------------------------------------------------------------
(* VIO: descriptors and connections.                                       *)

IsVio(r) ==
  r = [live |-> r.live, fd |-> r.fd, loop |-> r.loop, flags |-> r.flags,
       ssl |-> r.ssl, conn |-> r.conn]

VioTypeOK ==
  /\ vio = [v \in VObj |-> vio[v]]
  /\ \A v \in VObj : vio[v] = Freed \/ (IsVio(vio[v]) /\ vio[v].live = TRUE)
  /\ fds \subseteq VFd
  /\ owned \subseteq VObj

\* an SSL object that is in use, or that destroy would close, has its own
\* connection
VioConnInv ==
  /\ DOMAIN conns \subseteq VConn
  /\ \A v \in VObj : Live(v) /\ vio[v].ssl /\ (v \in owned \/ ~Closed(v)) => Connected(v)

VioInv == VioTypeOK /\ DescriptorsOwned /\ VioConnInv /\ CtxInv

\* what a step must be for VioLost
VioLostStep ==
  \A v \in owned :
    /\ vio[v].fd \in fds'
    /\ \A w \in owned' : vio'[w].fd # vio[v].fd
    => /\ ~vio'[v].live
       /\ Closed(v) \/ (vio[v].ssl /\ conns[vio[v].conn].handle = 0)

(* No step takes a connection from an object it does not work on.          *)
LEMMA StaysConnected ==
  ASSUME NEW v, Connected(v), vio'[v] = vio[v],
         \A j \in DOMAIN conns : conns[j].vio = v => j \in DOMAIN conns' /\ conns'[j].vio = conns[j].vio
  PROVE  Connected(v)'
BY DEF Connected

(* A step on v that opens and closes no descriptor.                        *)
LEMMA VioUpdates ==
  ASSUME VioInv, NEW v \in VObj, CtxInv', UNCHANGED <<fds, owned>>,
         vio' = [vio EXCEPT ![v] = vio'[v]], IsVio(vio'[v]), vio'[v].live = TRUE,
         v \in owned => vio'[v].fd = vio[v].fd,
         vio'[v].fd # 0 /\ "CLOSED" \notin vio'[v].flags => v \in owned,
         vio'[v].ssl /\ (v \in owned \/ "CLOSED" \notin vio'[v].flags) => Connected(v)',
         DOMAIN conns' \subseteq VConn,
         \A j \in DOMAIN conns : j \in DOMAIN conns' /\ conns'[j].vio = conns[j].vio
  PROVE  VioInv' /\ VioLostStep
<1>1. \A w \in VObj : w # v => vio'[w] = vio[w]
  BY DEF VioInv, VioTypeOK
<1>2. vio' = [w \in VObj |-> vio'[w]]
  BY DEF VioInv, VioTypeOK
<1>3. VioTypeOK'
  BY <1>1, <1>2, Zenon DEF VioInv, VioTypeOK
<1>4. \A w \in owned : w \in VObj /\ Live(w) /\ vio[w].fd \in fds /\ vio'[w].fd = vio[w].fd
  BY <1>1 DEF VioInv, VioTypeOK, DescriptorsOwned
<1>5. \A w \in owned : vio'[w].live
  BY <1>1, <1>4 DEF Live
<1>6. DescriptorsOwned'
  <2>1. \A w \in owned' : Live(w)' /\ vio'[w].fd \in fds'
    BY <1>4, <1>5 DEF Live
  <2>2. \A w, x \in owned' : vio'[w].fd = vio'[x].fd => w = x
    BY <1>4 DEF VioInv, DescriptorsOwned
  <2>3. \A w \in VObj : vio'[w].live /\ vio'[w].fd # 0 /\ "CLOSED" \notin vio'[w].flags => w \in owned'
    BY <1>1 DEF VioInv, DescriptorsOwned, Live, Closed
  <2> QED
    BY <2>1, <2>2, <2>3 DEF DescriptorsOwned, Live, Closed
<1>7. ASSUME NEW w \in VObj, vio'[w].live, vio'[w].ssl, w \in owned' \/ "CLOSED" \notin vio'[w].flags
      PROVE  Connected(w)'
  <2>1. CASE w = v
    BY <1>7, <2>1
  <2>2. CASE w # v
    <3>1. Connected(w)
      BY <1>1, <1>7, <2>2 DEF VioInv, VioConnInv, Live, Closed
    <3> QED
      BY <1>1, <2>2, <3>1, StaysConnected
  <2> QED
    BY <2>1, <2>2
<1>8. VioConnInv'
  BY <1>7 DEF VioConnInv, Live, Closed
<1>9. VioLostStep
  BY <1>4 DEF VioLostStep
<1> QED
  BY <1>3, <1>6, <1>8, <1>9 DEF VioInv

LEMMA LowestIsIn ==
  ASSUME NEW S \in SUBSET Nat, S # {}
  PROVE  Lowest(S) \in S
BY NatMin DEF Lowest

(* socket() and accept() give v a descriptor that nobody has.              *)
LEMMA VioOpens ==
  ASSUME VioInv, NEW v \in VObj, CtxInv', v \notin owned, VFd \ fds # {},
         vio' = [vio EXCEPT ![v] = vio'[v]], IsVio(vio'[v]), vio'[v].live = TRUE,
         vio'[v].fd = NextFd, fds' = fds \cup {NextFd}, owned' = owned \cup {v},
         vio'[v].ssl => Connected(v)',
         DOMAIN conns' \subseteq VConn,
         \A j \in DOMAIN conns : j \in DOMAIN conns' /\ conns'[j].vio = conns[j].vio
  PROVE  VioInv' /\ VioLostStep
<1>1. \A w \in VObj : w # v => vio'[w] = vio[w]
  BY DEF VioInv, VioTypeOK
<1>2. vio' = [w \in VObj |-> vio'[w]]
  BY DEF VioInv, VioTypeOK
<1>3. NextFd \in VFd \ fds
  BY VioAssumption, LowestIsIn DEF NextFd
<1>4. VioTypeOK'
  <2>1. fds' \subseteq VFd /\ owned' \subseteq VObj
    BY <1>3 DEF VioInv, VioTypeOK
  <2> QED
    BY <1>1, <1>2, <2>1, Zenon DEF VioInv, VioTypeOK
<1>5. \A w \in owned : w \in VObj /\ w # v /\ vio[w].live /\ vio[w].fd \in fds /\ vio'[w] = vio[w]
  BY <1>1 DEF VioInv, VioTypeOK, DescriptorsOwned, Live
<1>6. DescriptorsOwned'
  <2>1. \A w \in owned' : vio'[w].live /\ vio'[w].fd \in fds'
    BY <1>5
  <2>2. \A w, x \in owned : vio[w].fd = vio[x].fd => w = x
    BY DEF VioInv, DescriptorsOwned
  <2>3. \A w, x \in owned' : vio'[w].fd = vio'[x].fd => w = x
    BY <1>3, <1>5, <2>2
  <2>4. \A w \in VObj : vio'[w].live /\ vio'[w].fd # 0 /\ "CLOSED" \notin vio'[w].flags => w \in owned'
    BY <1>1 DEF VioInv, DescriptorsOwned, Live, Closed
  <2> QED
    BY <2>1, <2>3, <2>4 DEF DescriptorsOwned, Live, Closed
<1>7. ASSUME NEW w \in VObj, vio'[w].live, vio'[w].ssl, w \in owned' \/ "CLOSED" \notin vio'[w].flags
      PROVE  Connected(w)'
  <2>1. CASE w = v
    BY <1>7, <2>1
  <2>2. CASE w # v
    <3>1. Connected(w)
      BY <1>1, <1>7, <2>2 DEF VioInv, VioConnInv, Live, Closed
    <3> QED
      BY <1>1, <2>2, <3>1, StaysConnected
  <2> QED
    BY <2>1, <2>2
<1>8. VioConnInv'
  BY <1>7 DEF VioConnInv, Live, Closed
<1>9. VioLostStep
  BY <1>5 DEF VioLostStep
<1> QED
  BY <1>4, <1>6, <1>8, <1>9 DEF VioInv

(* v is closed, or freed, or both: its descriptor goes, or is lost when it *)
(* may be.                                                                 *)
LEMMA VioCloses ==
  ASSUME VioInv, NEW v \in VObj, CtxInv', Live(v),
         vio' = [vio EXCEPT ![v] = vio'[v]],
         vio'[v] = Freed \/ (IsVio(vio'[v]) /\ vio'[v].live = TRUE /\ "CLOSED" \in vio'[v].flags),
         owned' = owned \ {v},
         \/ fds' = fds \ {vio[v].fd} /\ (vio[v].fd # 0 => v \in owned)
         \/ /\ UNCHANGED fds /\ vio'[v] = Freed
            /\ v \in owned => Closed(v) \/ (vio[v].ssl /\ conns[vio[v].conn].handle = 0),
         DOMAIN conns' \subseteq VConn,
         \A j \in DOMAIN conns : conns[j].vio # v => j \in DOMAIN conns' /\ conns'[j].vio = conns[j].vio
  PROVE  VioInv' /\ VioLostStep
<1>1. \A w \in VObj : w # v => vio'[w] = vio[w]
  BY DEF VioInv, VioTypeOK
<1>2. vio' = [w \in VObj |-> vio'[w]]
  BY DEF VioInv, VioTypeOK
<1>3. VioTypeOK'
  <2>1. fds' \subseteq VFd /\ owned' \subseteq VObj
    BY DEF VioInv, VioTypeOK
  <2> QED
    BY <1>1, <1>2, <2>1, Zenon DEF VioInv, VioTypeOK
<1>4. \A w \in owned' : w \in owned /\ w # v /\ w \in VObj /\ vio[w].live /\ vio[w].fd \in fds /\ vio'[w] = vio[w]
  BY <1>1 DEF VioInv, VioTypeOK, DescriptorsOwned, Live
<1>5. \A w, x \in owned : vio[w].fd = vio[x].fd => w = x
  BY DEF VioInv, DescriptorsOwned
<1>6. 0 \notin fds
  BY VioAssumption DEF VioInv, VioTypeOK
<1>7. \A w \in owned' : vio[w].fd \in fds'
  BY <1>4, <1>5, <1>6
<1>8. Freed.live = FALSE
  BY DEF Freed
<1>9. DescriptorsOwned'
  <2>1. \A w \in owned' : vio'[w].live /\ vio'[w].fd \in fds'
    BY <1>4, <1>7
  <2>2. \A w, x \in owned' : vio'[w].fd = vio'[x].fd => w = x
    BY <1>4, <1>5
  <2>3. \A w \in VObj : vio'[w].live /\ vio'[w].fd # 0 /\ "CLOSED" \notin vio'[w].flags => w \in owned'
    BY <1>1, <1>8 DEF VioInv, DescriptorsOwned, Live, Closed
  <2> QED
    BY <2>1, <2>2, <2>3 DEF DescriptorsOwned, Live, Closed
<1>10. ASSUME NEW w \in VObj, vio'[w].live, vio'[w].ssl, w \in owned' \/ "CLOSED" \notin vio'[w].flags
       PROVE  Connected(w)'
  <2>1. w # v
    BY <1>4, <1>8, <1>10
  <2>2. Connected(w)
    BY <1>1, <1>4, <1>10, <2>1 DEF VioInv, VioConnInv, Live, Closed
  <2> QED
    BY <1>1, <2>1, <2>2, StaysConnected
<1>11. VioConnInv'
  BY <1>10 DEF VioConnInv, Live, Closed
<1>12. VioLostStep
  <2> SUFFICES ASSUME NEW w \in owned,
                      vio[w].fd \in fds',
                      \A x \in owned' : vio'[x].fd # vio[w].fd
               PROVE  /\ ~vio'[w].live
                      /\ Closed(w) \/ (vio[w].ssl /\ conns[vio[w].conn].handle = 0)
    BY DEF VioLostStep
  <2>1. w = v
    BY <1>4
  <2>2. UNCHANGED fds /\ vio'[v] = Freed
    BY <2>1
  <2> QED
    BY <1>8, <2>1, <2>2
<1> QED
  BY <1>3, <1>9, <1>11, <1>12 DEF VioInv

-----------------------------------------------------------------------------
(* VIO: each operation.                                                    *)

\* v gets the flags F; CLOSED goes only from an object in use without SSL
NewFlags(v, F) ==
  /\ vio' = [vio EXCEPT ![v] = [vio[v] EXCEPT !.flags = F]]
  /\ Closed(v) => "CLOSED" \in F \/ (v \in owned /\ ~vio[v].ssl)

LEMMA VioLive ==
  ASSUME VioInv, NEW v \in VObj, Live(v)
  PROVE  IsVio(vio[v]) /\ vio[v].live = TRUE
<1>1. Freed.live = FALSE
  BY DEF Freed
<1> QED
  BY <1>1, Zenon DEF VioInv, VioTypeOK, Live

LEMMA CtxSame ==
  ASSUME CtxInv, UNCHANGED <<conns, ctxrefs, shared>>
  PROVE  CtxInv'
<1>1. CtxTypeOK'
  BY DEF CtxInv, CtxTypeOK, VioConn
<1>2. CtxCounted'
  BY DEF CtxInv, CtxCounted
<1> QED
  BY <1>1, <1>2 DEF CtxInv

LEMMA VioFlags ==
  ASSUME VioInv, NEW v \in VObj, Live(v), \E F : NewFlags(v, F), CtxInv', UNCHANGED <<fds, owned>>,
         DOMAIN conns' = DOMAIN conns,
         \A j \in DOMAIN conns : conns'[j].vio = conns[j].vio
  PROVE  VioInv' /\ VioLostStep
<1>1. IsVio(vio[v]) /\ vio[v].live = TRUE
  BY VioLive
<1>2. PICK F : NewFlags(v, F)
  OBVIOUS
<1>3. vio'[v] = [vio[v] EXCEPT !.flags = F]
  BY <1>2 DEF NewFlags, VioInv, VioTypeOK
<1>4. /\ IsVio(vio'[v]) /\ vio'[v].live = vio[v].live /\ vio'[v].fd = vio[v].fd
      /\ vio'[v].ssl = vio[v].ssl /\ vio'[v].conn = vio[v].conn /\ vio'[v].flags = F
  BY <1>1, <1>3 DEF IsVio
<1>5. vio' = [vio EXCEPT ![v] = vio'[v]]
  BY <1>2, <1>3 DEF NewFlags
<1>6. vio'[v].live = TRUE
  BY <1>1, <1>4, Zenon
<1>7. vio'[v].fd # 0 /\ "CLOSED" \notin vio'[v].flags => v \in owned
  BY <1>2, <1>4 DEF NewFlags, VioInv, DescriptorsOwned
<1>8. ASSUME vio'[v].ssl, v \in owned \/ "CLOSED" \notin vio'[v].flags
      PROVE  Connected(v)'
  <2>1. v \in owned \/ ~Closed(v)
    BY <1>2, <1>4, <1>8 DEF NewFlags
  <2>2. Connected(v)
    BY <1>4, <1>8, <2>1 DEF VioInv, VioConnInv
  <2> QED
    BY <1>4, <2>2 DEF Connected
<1>9. DOMAIN conns' \subseteq VConn
  BY DEF VioInv, VioConnInv
<1> QED
  BY <1>4, <1>5, <1>6, <1>7, <1>8, <1>9, VioUpdates

(* The operations that change flags only.                                  *)
LEMMA VioFlagSteps ==
  ASSUME VioInv, NEW v \in VObj,
         \/ mowgli_vio_default_listen(v) \/ mowgli_vio_default_connect(v)
         \/ DefaultRead(v) \/ DefaultWrite(v)
  PROVE  VioInv' /\ VioLostStep
<1>1. Live(v) /\ v \in owned /\ ~vio[v].ssl /\ UNCHANGED <<fds, owned, conns, ctxrefs, shared>>
  BY DEF mowgli_vio_default_listen, mowgli_vio_default_connect, DefaultRead, DefaultWrite, Usable, Becomes
<1>2. \E F : vio' = [vio EXCEPT ![v] = [vio[v] EXCEPT !.flags = F]]
  BY Zenon DEF mowgli_vio_default_listen, mowgli_vio_default_connect, DefaultRead, DefaultWrite, Becomes,
         mowgli_vio_default_read, mowgli_vio_default_write, MOWGLI_VIO_SET_CLOSED, Clearflag
<1>3. \E F : NewFlags(v, F)
  BY <1>1, <1>2 DEF NewFlags
<1>4. CtxInv'
  BY <1>1, CtxSame DEF VioInv
<1> QED
  BY <1>1, <1>3, <1>4, VioFlags

LEMMA VioAttachSteps ==
  ASSUME VioInv, NEW v \in VObj, mowgli_vio_eventloop_attach(v) \/ mowgli_vio_eventloop_detach(v)
  PROVE  VioInv' /\ VioLostStep
<1>1. Live(v) /\ UNCHANGED <<fds, owned, conns, ctxrefs, shared>>
  BY DEF mowgli_vio_eventloop_attach, mowgli_vio_eventloop_detach, Becomes
<1>2. PICK b : vio' = [vio EXCEPT ![v] = [vio[v] EXCEPT !.loop = b]]
  BY Zenon DEF mowgli_vio_eventloop_attach, mowgli_vio_eventloop_detach, Becomes, Detached
<1>3. IsVio(vio[v]) /\ vio[v].live = TRUE
  BY <1>1, VioLive
<1>4. vio'[v] = [vio[v] EXCEPT !.loop = b]
  BY <1>2 DEF VioInv, VioTypeOK
<1>5. /\ IsVio(vio'[v]) /\ vio'[v].live = vio[v].live /\ vio'[v].fd = vio[v].fd
      /\ vio'[v].ssl = vio[v].ssl /\ vio'[v].conn = vio[v].conn /\ vio'[v].flags = vio[v].flags
  BY <1>3, <1>4 DEF IsVio
<1>6. vio'[v].live = TRUE
  BY <1>3, <1>5, Zenon
<1>7. vio' = [vio EXCEPT ![v] = vio'[v]]
  BY <1>2, <1>4
<1>8. vio'[v].fd # 0 /\ "CLOSED" \notin vio'[v].flags => v \in owned
  BY <1>1, <1>5 DEF VioInv, DescriptorsOwned, Closed
<1>9. ASSUME vio'[v].ssl, v \in owned \/ "CLOSED" \notin vio'[v].flags
      PROVE  Connected(v)'
  <2>1. Connected(v)
    BY <1>1, <1>5, <1>9 DEF VioInv, VioConnInv, Closed
  <2> QED
    BY <1>1, <1>5, <2>1 DEF Connected
<1>10. DOMAIN conns' \subseteq VConn
  BY <1>1 DEF VioInv, VioConnInv
<1>11. CtxInv'
  BY <1>1, CtxSame DEF VioInv
<1> QED
  BY <1>1, <1>5, <1>6, <1>7, <1>8, <1>9, <1>10, <1>11, VioUpdates

LEMMA VioCreateStep ==
  ASSUME VioInv, NEW v \in VObj, mowgli_vio_create(v)
  PROVE  VioInv' /\ VioLostStep
<1> DEFINE r == mowgli_vio_init
<1>1. ~Live(v) /\ vio' = [vio EXCEPT ![v] = r] /\ UNCHANGED <<fds, owned, conns, ctxrefs, shared>>
  BY DEF mowgli_vio_create, Becomes
<1>2. IsVio(r) /\ r.live = TRUE /\ r.fd = 0 /\ r.ssl = FALSE
  BY DEF mowgli_vio_init, IsVio
<1> HIDE DEF r
<1>3. vio'[v] = r /\ vio' = [vio EXCEPT ![v] = vio'[v]]
  BY <1>1 DEF VioInv, VioTypeOK
<1>4. v \notin owned
  BY <1>1 DEF VioInv, DescriptorsOwned
<1>5. DOMAIN conns' \subseteq VConn
  BY <1>1 DEF VioInv, VioConnInv
<1>6. CtxInv'
  BY <1>1, CtxSame DEF VioInv
<1>7. /\ IsVio(vio'[v]) /\ vio'[v].live = TRUE
      /\ ~vio'[v].ssl
  BY <1>2, <1>3, Zenon
<1>8. vio'[v].fd = 0
  BY <1>2, <1>3
<1> QED
  BY <1>1, <1>3, <1>4, <1>5, <1>6, <1>7, <1>8, VioUpdates

LEMMA VioSetsslStep ==
  ASSUME VioInv, NEW v \in VObj, mowgli_vio_openssl_setssl(v)
  PROVE  VioInv' /\ VioLostStep
<1> DEFINE k == NextConn
<1>1. /\ Live(v)
      /\ k \in VConn \ DOMAIN conns
      /\ vio' = [vio EXCEPT ![v] = [vio[v] EXCEPT !.ssl = TRUE, !.conn = k]]
      /\ conns' = With(conns, k, NewConnection(v))
      /\ UNCHANGED <<fds, owned, ctxrefs, shared>>
  BY VioAssumption, LowestIsIn DEF mowgli_vio_openssl_setssl, NextConn
<1> HIDE DEF k
<1>2. IsVio(vio[v]) /\ vio[v].live = TRUE
  BY <1>1, VioLive
<1>3. /\ vio'[v] = [[vio[v] EXCEPT !.ssl = TRUE] EXCEPT !.conn = k]
      /\ vio' = [vio EXCEPT ![v] = vio'[v]]
  BY <1>1 DEF VioInv, VioTypeOK
<1>4. /\ IsVio(vio'[v]) /\ vio'[v].live = vio[v].live /\ vio'[v].fd = vio[v].fd
      /\ vio'[v].conn = k /\ vio'[v].flags = vio[v].flags
  <2> DEFINE t == TRUE
             a == [vio[v] EXCEPT !.ssl = t]
  <2>0. vio'[v] = [a EXCEPT !.conn = k]
    BY <1>3
  <2> HIDE DEF t
  <2>1. /\ IsVio(a) /\ a.live = vio[v].live /\ a.fd = vio[v].fd /\ a.flags = vio[v].flags
    BY <1>2 DEF IsVio
  <2> HIDE DEF a
  <2> QED
    BY <2>0, <2>1 DEF IsVio
<1>5. vio'[v].live = TRUE
  BY <1>2, <1>4, Zenon
<1>6. /\ DOMAIN conns' = DOMAIN conns \cup {k}
      /\ conns'[k].vio = v
      /\ \A j \in DOMAIN conns : conns'[j] = conns[j]
  BY <1>1 DEF With, NewConnection
<1>7. Connected(v)'
  BY <1>4, <1>6 DEF Connected
<1>8. DOMAIN conns' \subseteq VConn
  BY <1>1, <1>6 DEF VioInv, VioConnInv
<1>9. CtxInv'
  BY <1>1, CtxNewConnection DEF VioInv
<1>10. vio'[v].fd # 0 /\ "CLOSED" \notin vio'[v].flags => v \in owned
  BY <1>1, <1>4 DEF VioInv, DescriptorsOwned, Closed
<1> QED
  BY <1>1, <1>3, <1>4, <1>5, <1>6, <1>7, <1>8, <1>9, <1>10, VioUpdates

LEMMA VioSocketStep ==
  ASSUME VioInv, NEW v \in VObj, NEW stream \in BOOLEAN, mowgli_vio_default_socket(v, stream)
  PROVE  VioInv' /\ VioLostStep
<1> DEFINE n == NextFd
           a == [vio[v] EXCEPT !.fd = n]
<1>1. /\ Live(v) /\ v \notin owned /\ VFd \ fds # {}
      /\ vio[v].ssl => Connected(v)
      /\ \E F : vio' = [vio EXCEPT ![v] = IF stream THEN [a EXCEPT !.flags = F] ELSE a]
      /\ fds' = fds \cup {n} /\ owned' = owned \cup {v}
      /\ UNCHANGED <<conns, ctxrefs, shared>>
  BY Zenon DEF mowgli_vio_default_socket, Vacant
<1>2. IsVio(vio[v]) /\ vio[v].live = TRUE
  BY <1>1, VioLive
<1>3. /\ IsVio(a) /\ a.live = vio[v].live /\ a.fd = n /\ a.ssl = vio[v].ssl /\ a.conn = vio[v].conn
  <2> HIDE DEF n
  <2> QED
    BY <1>2 DEF IsVio
<1> HIDE DEF a
<1>4. PICK F : vio' = [vio EXCEPT ![v] = IF stream THEN [a EXCEPT !.flags = F] ELSE a]
  BY <1>1
<1>5. /\ vio'[v] = IF stream THEN [a EXCEPT !.flags = F] ELSE a
      /\ vio' = [vio EXCEPT ![v] = vio'[v]]
  BY <1>4 DEF VioInv, VioTypeOK
<1>6. /\ IsVio(vio'[v]) /\ vio'[v].live = vio[v].live /\ vio'[v].fd = n
      /\ vio'[v].ssl = vio[v].ssl /\ vio'[v].conn = vio[v].conn
  <2>1. CASE stream
    BY <1>3, <1>5, <2>1 DEF IsVio
  <2>2. CASE ~stream
    BY <1>3, <1>5, <2>2
  <2> QED
    BY <2>1, <2>2
<1>7. vio'[v].live = TRUE
  BY <1>2, <1>6, Zenon
<1>8. vio'[v].ssl => Connected(v)'
  BY <1>1, <1>6 DEF Connected
<1>9. DOMAIN conns' \subseteq VConn
  BY <1>1 DEF VioInv, VioConnInv
<1>10. CtxInv'
  BY <1>1, CtxSame DEF VioInv
<1> QED
  BY <1>1, <1>5, <1>6, <1>7, <1>8, <1>9, <1>10, VioOpens

LEMMA VioAcceptStep ==
  ASSUME VioInv, NEW v \in VObj, NEW w \in VObj, mowgli_vio_default_accept(v, w)
  PROVE  VioInv' /\ VioLostStep
<1> DEFINE n == NextFd
<1>1. /\ Live(w) /\ w \notin owned /\ VFd \ fds # {} /\ ~vio[w].ssl
      /\ \E F : vio' = [vio EXCEPT ![w] = [vio[w] EXCEPT !.fd = n, !.flags = F]]
      /\ fds' = fds \cup {n} /\ owned' = owned \cup {w}
      /\ UNCHANGED <<conns, ctxrefs, shared>>
  BY Zenon DEF mowgli_vio_default_accept, Accepts, Vacant
<1>2. IsVio(vio[w]) /\ vio[w].live = TRUE
  BY <1>1, VioLive
<1>3. PICK F : vio' = [vio EXCEPT ![w] = [vio[w] EXCEPT !.fd = n, !.flags = F]]
  BY <1>1
<1> HIDE DEF n
<1>4. /\ vio'[w] = [vio[w] EXCEPT !.fd = n, !.flags = F]
      /\ vio' = [vio EXCEPT ![w] = vio'[w]]
  BY <1>3 DEF VioInv, VioTypeOK
<1>5. /\ IsVio(vio'[w]) /\ vio'[w].live = vio[w].live /\ vio'[w].fd = n
      /\ vio'[w].ssl = vio[w].ssl /\ vio'[w].conn = vio[w].conn
  BY <1>2, <1>4 DEF IsVio
<1>6. vio'[w].live = TRUE
  BY <1>2, <1>5, Zenon
<1>7. ~vio'[w].ssl
  BY <1>1, <1>5, Zenon
<1>8. DOMAIN conns' \subseteq VConn
  BY <1>1 DEF VioInv, VioConnInv
<1>9. CtxInv'
  BY <1>1, CtxSame DEF VioInv
<1>10. vio'[w].fd = NextFd /\ fds' = fds \cup {NextFd}
  BY <1>1, <1>5 DEF n
<1> QED
  BY <1>1, <1>4, <1>5, <1>6, <1>7, <1>8, <1>9, <1>10, VioOpens

LEMMA VioSslAcceptStep ==
  ASSUME VioInv, NEW v \in VObj, NEW w \in VObj, mowgli_vio_openssl_default_accept(v, w)
  PROVE  VioInv' /\ VioLostStep
<1> DEFINE n == NextFd
           k == NextConn
           c == conns[vio[v].conn].context
           t == TRUE
           r == [vio[w] EXCEPT !.fd = n, !.ssl = t, !.conn = k]
<1>1. /\ Live(v) /\ v \in owned /\ vio[v].ssl
      /\ Live(w) /\ w \notin owned /\ VFd \ fds # {} /\ VConn \ DOMAIN conns # {}
      /\ c # 0
      /\ \E done \in BOOLEAN : vio' = [vio EXCEPT ![w] = Accepted(r, done)]
      /\ conns' = With(conns, k, SharedContext(w, c))
      /\ ctxrefs' = [ctxrefs EXCEPT ![c] = @ + 1]
      /\ fds' = fds \cup {n} /\ owned' = owned \cup {w}
      /\ UNCHANGED shared
  BY DEF mowgli_vio_openssl_default_accept, Accepts, Vacant, Usable
<1>2. k \in VConn \ DOMAIN conns
  BY <1>1, VioAssumption, LowestIsIn DEF NextConn
<1>3. IsVio(vio[w]) /\ vio[w].live = TRUE
  BY <1>1, VioLive
<1>4. /\ vio[v].conn \in DOMAIN conns
  BY <1>1 DEF VioInv, VioConnInv, Connected
<1>5. vio'[w].fd = n => vio'[w].fd = NextFd
  OBVIOUS
<1>6. CtxInv'
  BY <1>1, <1>2, <1>4, CtxAccept DEF VioInv
<1>7. /\ DOMAIN conns' = DOMAIN conns \cup {k}
      /\ conns'[k].vio = w
      /\ \A j \in DOMAIN conns : conns'[j] = conns[j]
  <2> HIDE DEF k, c
  <2> QED
    BY <1>1, <1>2 DEF With, SharedContext
<1>8. fds' = fds \cup {NextFd}
  BY <1>1
<1> HIDE DEF n, k, c, t
<1>9. IsVio(r) /\ r.live = vio[w].live /\ r.fd = n /\ r.conn = k
  <2> DEFINE a == [vio[w] EXCEPT !.fd = n]
             b == [a EXCEPT !.ssl = t]
  <2>1. IsVio(a) /\ a.live = vio[w].live /\ a.fd = n
    BY <1>3 DEF IsVio
  <2> HIDE DEF a
  <2>2. IsVio(b) /\ b.live = vio[w].live /\ b.fd = n
    BY <2>1 DEF IsVio
  <2>3. r = [b EXCEPT !.conn = k]
    BY DEF a
  <2> HIDE DEF b, r
  <2> QED
    BY <2>2, <2>3 DEF IsVio
<1> HIDE DEF r
<1>10. PICK done \in BOOLEAN : vio' = [vio EXCEPT ![w] = Accepted(r, done)]
  BY <1>1
<1>11. vio'[w] = Accepted(r, done) /\ vio' = [vio EXCEPT ![w] = vio'[w]]
  BY <1>10 DEF VioInv, VioTypeOK
<1>12. IsVio(vio'[w]) /\ vio'[w].live = vio[w].live /\ vio'[w].fd = n /\ vio'[w].conn = k
  <2>1. CASE done
    BY <1>9, <1>11, <2>1 DEF IsVio, Accepted
  <2>2. CASE ~done
    BY <1>9, <1>11, <2>2 DEF Accepted
  <2> QED
    BY <2>1, <2>2
<1>13. vio'[w].live = TRUE
  BY <1>3, <1>12, Zenon
<1>14. Connected(w)'
  BY <1>7, <1>12 DEF Connected
<1>15. DOMAIN conns' \subseteq VConn
  BY <1>2, <1>7 DEF VioInv, VioConnInv
<1> QED
  BY <1>1, <1>5, <1>6, <1>7, <1>8, <1>11, <1>12, <1>13, <1>14, <1>15, VioOpens

(* The handshakes and listen: a new context, and flags.                    *)
LEMMA VioFreshStep ==
  ASSUME VioInv, NEW v \in VObj, Live(v), v \in owned, vio[v].ssl,
         \E outcome : Fresh(vio[v].conn, outcome) /\ Made(outcome),
         \E F : NewFlags(v, F), UNCHANGED <<fds, owned>>
  PROVE  VioInv' /\ VioLostStep
<1>1. vio[v].conn \in DOMAIN conns
  BY DEF VioInv, VioConnInv, Connected
<1>2. CtxInv' /\ DOMAIN conns' = DOMAIN conns /\ \A j \in DOMAIN conns : conns'[j].vio = conns[j].vio
  <2>1. PICK outcome : Fresh(vio[v].conn, outcome) /\ Made(outcome)
    OBVIOUS
  <2>2. CtxInv
    BY DEF VioInv
  <2>3. PICK k \in DOMAIN conns : k = vio[v].conn
    BY <1>1
  <2>4. Fresh(k, outcome)
    BY <2>1, <2>3
  <2> QED
    BY <2>1, <2>2, <2>4, CtxFresh
<1> QED
  BY <1>2, VioFlags

(* What the flags of v may become when they are set one after the other.   *)
LEMMA ShakenFlags ==
  ASSUME VioInv, NEW v \in VObj, Live(v), NEW outcome,
         \E A : /\ Closed(v) => "CLOSED" \in A
                /\ vio' = [vio EXCEPT ![v] = Shaken([vio[v] EXCEPT !.flags = A], outcome)]
  PROVE  \E F : NewFlags(v, F)
<1>0. PICK A : /\ Closed(v) => "CLOSED" \in A
               /\ vio' = [vio EXCEPT ![v] = Shaken([vio[v] EXCEPT !.flags = A], outcome)]
  OBVIOUS
<1> DEFINE r == [vio[v] EXCEPT !.flags = A]
<1>1. IsVio(vio[v])
  BY VioLive
<1>2. r.flags = A
  BY <1>1 DEF IsVio
<1>3. \E F : Shaken(r, outcome) = [vio[v] EXCEPT !.flags = F] /\ ("CLOSED" \in A => "CLOSED" \in F)
  <2>1. CASE outcome \in {"want", "done"}
    <3>1. Shaken(r, outcome) = [r EXCEPT !.flags = A \ {"SSLCONNECTING"}]
      BY <1>2, <2>1 DEF Shaken, Clearflag
    <3>2. [r EXCEPT !.flags = A \ {"SSLCONNECTING"}] = [vio[v] EXCEPT !.flags = A \ {"SSLCONNECTING"}]
      BY <1>1 DEF IsVio
    <3>3. "CLOSED" \in A => "CLOSED" \in A \ {"SSLCONNECTING"}
      OBVIOUS
    <3> HIDE DEF r
    <3> QED
      BY <3>1, <3>2, <3>3, Zenon
  <2>2. CASE outcome = "wantconnect"
    <3>1. Shaken(r, outcome) = [r EXCEPT !.flags = A \cup {"CONNECTING"}]
      BY <1>2, <2>2 DEF Shaken, Setflag
    <3>2. [r EXCEPT !.flags = A \cup {"CONNECTING"}] = [vio[v] EXCEPT !.flags = A \cup {"CONNECTING"}]
      BY <1>1 DEF IsVio
    <3>3. "CLOSED" \in A => "CLOSED" \in A \cup {"CONNECTING"}
      OBVIOUS
    <3> HIDE DEF r
    <3> QED
      BY <3>1, <3>2, <3>3, Zenon
  <2>3. CASE outcome \notin {"want", "done", "wantconnect"}
    <3>1. Shaken(r, outcome) = r
      BY <2>3 DEF Shaken
    <3> QED
      BY <3>1, Zenon
  <2> QED
    BY <2>1, <2>2, <2>3
<1>4. PICK F : Shaken(r, outcome) = [vio[v] EXCEPT !.flags = F] /\ ("CLOSED" \in A => "CLOSED" \in F)
  BY <1>3
<1>5. vio' = [vio EXCEPT ![v] = Shaken(r, outcome)]
  BY <1>0
<1> HIDE DEF r
<1>6. vio' = [vio EXCEPT ![v] = [vio[v] EXCEPT !.flags = F]]
  BY <1>4, <1>5, Zenon
<1> QED
  BY <1>0, <1>4, <1>6, Zenon DEF NewFlags

LEMMA VioHandshakeStep ==
  ASSUME VioInv, NEW v \in VObj, Live(v), v \in owned, vio[v].ssl,
         \E A : /\ Closed(v) => "CLOSED" \in A
                /\ mowgli_vio_openssl_client_handshake(v, [vio[v] EXCEPT !.flags = A])
  PROVE  VioInv' /\ VioLostStep
<1>1. PICK A : /\ Closed(v) => "CLOSED" \in A
               /\ mowgli_vio_openssl_client_handshake(v, [vio[v] EXCEPT !.flags = A])
  OBVIOUS
<1> DEFINE r == [vio[v] EXCEPT !.flags = A]
<1>2. r.conn = vio[v].conn
  BY VioLive DEF IsVio
<1>3. PICK outcome : /\ Fresh(r.conn, outcome) /\ Made(outcome)
                     /\ vio' = [vio EXCEPT ![v] = Shaken(r, outcome)]
                     /\ UNCHANGED <<fds, owned>>
  BY <1>1, Zenon DEF mowgli_vio_openssl_client_handshake
<1>4. \E F : NewFlags(v, F)
  BY <1>1, <1>3, ShakenFlags
<1>5. Fresh(vio[v].conn, outcome)
  <2> HIDE DEF r
  <2> QED
    BY <1>2, <1>3
<1> QED
  BY <1>3, <1>4, <1>5, VioFreshStep

LEMMA VioSslConnectStep ==
  ASSUME VioInv, NEW v \in VObj, mowgli_vio_openssl_default_connect(v)
  PROVE  VioInv' /\ VioLostStep
<1>1. Live(v) /\ v \in owned /\ vio[v].ssl
  BY DEF mowgli_vio_openssl_default_connect, Secured, Usable
<1>2. IsVio(vio[v])
  BY <1>1, VioLive
<1>3. CASE Becomes(v, Setflag(Setflag(vio[v], "CONNECTING"), "SSLCONNECTING"))
  <2> DEFINE A == vio[v].flags \cup {"CONNECTING"}
             a == [vio[v] EXCEPT !.flags = A]
  <2>1. a.flags = A
    BY <1>2 DEF IsVio
  <2>2. Setflag(Setflag(vio[v], "CONNECTING"), "SSLCONNECTING") = [a EXCEPT !.flags = A \cup {"SSLCONNECTING"}]
    BY <2>1, Zenon DEF Setflag
  <2>3. [a EXCEPT !.flags = A \cup {"SSLCONNECTING"}] = [vio[v] EXCEPT !.flags = A \cup {"SSLCONNECTING"}]
    BY <1>2 DEF IsVio
  <2>4. /\ vio' = [vio EXCEPT ![v] = [vio[v] EXCEPT !.flags = A \cup {"SSLCONNECTING"}]]
        /\ UNCHANGED <<fds, owned, conns, ctxrefs, shared>>
    BY <1>3, <2>2, <2>3, Zenon DEF Becomes
  <2>5. NewFlags(v, A \cup {"SSLCONNECTING"})
    BY <2>4 DEF NewFlags, Closed
  <2>6. CtxInv'
    BY <2>4, CtxSame DEF VioInv
  <2> QED
    BY <1>1, <2>4, <2>5, <2>6, VioFlags
<1>4. CASE mowgli_vio_openssl_client_handshake(v,
             [vio[v] EXCEPT !.flags = @ \ {"SERVER", "CONNECTING"}])
  <2>1. Closed(v) => "CLOSED" \in vio[v].flags \ {"SERVER", "CONNECTING"}
    BY DEF Closed
  <2>2. \E A : /\ Closed(v) => "CLOSED" \in A
               /\ mowgli_vio_openssl_client_handshake(v, [vio[v] EXCEPT !.flags = A])
    BY <1>4, <2>1, Zenon
  <2> QED
    BY <1>1, <2>2, VioHandshakeStep
<1> QED
  BY <1>3, <1>4 DEF mowgli_vio_openssl_default_connect

LEMMA VioSslListenStep ==
  ASSUME VioInv, NEW v \in VObj, mowgli_vio_openssl_default_listen(v)
  PROVE  VioInv' /\ VioLostStep
<1>1. Live(v) /\ v \in owned /\ vio[v].ssl /\ UNCHANGED <<fds, owned>>
  BY DEF mowgli_vio_openssl_default_listen, Secured, Usable
<1>2. IsVio(vio[v])
  BY <1>1, VioLive
<1>3. PICK outcome :
        /\ Fresh(vio[v].conn, outcome) /\ Made(outcome)
        /\ vio' = [vio EXCEPT ![v] = IF outcome = "done" THEN Setflag(vio[v], "SERVER") ELSE vio[v]]
  BY Zenon DEF mowgli_vio_openssl_default_listen
<1>4. \E F : NewFlags(v, F)
  <2>1. CASE outcome = "done"
    <3>1. NewFlags(v, vio[v].flags \cup {"SERVER"})
      BY <1>3, <2>1 DEF NewFlags, Setflag, Closed
    <3> QED
      BY <3>1
  <2>2. CASE outcome # "done"
    <3>1. [vio[v] EXCEPT !.flags = vio[v].flags] = vio[v]
      BY <1>2 DEF IsVio
    <3>2. vio' = [vio EXCEPT ![v] = vio[v]]
      BY <1>3, <2>2
    <3>3. NewFlags(v, vio[v].flags)
      BY <3>1, <3>2 DEF NewFlags, Closed
    <3> QED
      BY <3>3
  <2> QED
    BY <2>1, <2>2
<1> QED
  BY <1>1, <1>3, <1>4, VioFreshStep

LEMMA VioSslIoStep ==
  ASSUME VioInv, NEW v \in VObj, mowgli_openssl_read_or_write(v)
  PROVE  VioInv' /\ VioLostStep
<1> DEFINE A == vio[v].flags \ {"CONNECTING"}
           r == [vio[v] EXCEPT !.flags = A]
<1>1. Live(v) /\ v \in owned /\ vio[v].ssl
  BY DEF mowgli_openssl_read_or_write, Secured, Usable
<1>2. IsVio(vio[v])
  BY <1>1, VioLive
<1>3. Closed(v) => "CLOSED" \in A
  BY DEF Closed
<1>4. \/ mowgli_vio_openssl_client_handshake(v, r)
      \/ Becomes(v, MOWGLI_VIO_SET_CLOSED(r))
      \/ Becomes(v, r)
  BY Zenon DEF mowgli_openssl_read_or_write, Clearflag
<1>5. CASE mowgli_vio_openssl_client_handshake(v, r)
  <2>1. \E B : /\ Closed(v) => "CLOSED" \in B
               /\ mowgli_vio_openssl_client_handshake(v, [vio[v] EXCEPT !.flags = B])
    BY <1>3, <1>5, Zenon
  <2> QED
    BY <1>1, <2>1, VioHandshakeStep
<1>6. CASE Becomes(v, r)
  <2>1. NewFlags(v, A) /\ UNCHANGED <<fds, owned, conns, ctxrefs, shared>>
    BY <1>3, <1>6, Zenon DEF NewFlags, Becomes
  <2>2. CtxInv'
    BY <2>1, CtxSame DEF VioInv
  <2> QED
    BY <1>1, <2>1, <2>2, VioFlags
<1>7. CASE Becomes(v, MOWGLI_VIO_SET_CLOSED(r))
  <2> DEFINE B == (A \ {"CONNECTING", "SSLCONNECTING"}) \cup {"CLOSED"}
  <2>1. r.flags = A
    BY <1>2 DEF IsVio
  <2>2. MOWGLI_VIO_SET_CLOSED(r) = [r EXCEPT !.flags = B]
    BY <2>1, Zenon DEF MOWGLI_VIO_SET_CLOSED
  <2>3. [r EXCEPT !.flags = B] = [vio[v] EXCEPT !.flags = B]
    BY <1>2 DEF IsVio
  <2>4. /\ vio' = [vio EXCEPT ![v] = [vio[v] EXCEPT !.flags = B]]
        /\ UNCHANGED <<fds, owned, conns, ctxrefs, shared>>
    BY <1>7, <2>2, <2>3, Zenon DEF Becomes
  <2>5. NewFlags(v, B)
    BY <2>4 DEF NewFlags
  <2>6. CtxInv'
    BY <2>4, CtxSame DEF VioInv
  <2> QED
    BY <1>1, <2>4, <2>5, <2>6, VioFlags
<1> QED
  BY <1>4, <1>5, <1>6, <1>7

LEMMA VioSame ==
  ASSUME VioInv, UNCHANGED vioVars
  PROVE  VioInv' /\ VioLostStep
<1>1. UNCHANGED <<vio, fds, owned, conns, ctxrefs, shared>>
  BY DEF vioVars
<1>2. CtxInv'
  BY <1>1, CtxSame DEF VioInv
<1>3. VioTypeOK' /\ DescriptorsOwned' /\ VioConnInv'
  BY <1>1 DEF VioInv, VioTypeOK, DescriptorsOwned, VioConnInv, Live, Closed, Connected
<1>4. VioLostStep
  BY <1>1 DEF VioLostStep
<1> QED
  BY <1>2, <1>3, <1>4 DEF VioInv

(* mowgli_vio_close, by itself or from mowgli_vio_destroy, which detaches  *)
(* the object first and frees it afterwards.                               *)
LEMMA VioCloseStep ==
  ASSUME VioInv, NEW v \in VObj, Live(v), v \in owned \/ ~Closed(v),
         \E b, free : /\ Close(v, [vio[v] EXCEPT !.loop = b], free)
                      /\ free \/ b = vio[v].loop
  PROVE  VioInv' /\ VioLostStep
<1>1. PICK b, free : /\ Close(v, [vio[v] EXCEPT !.loop = b], free)
                     /\ free \/ b = vio[v].loop
  OBVIOUS
<1> DEFINE r == [vio[v] EXCEPT !.loop = b]
           q == MOWGLI_VIO_SET_CLOSED(r)
           done == /\ vio' = [vio EXCEPT ![v] = IF free THEN Freed ELSE q]
                   /\ fds' = fds \ {r.fd}
                   /\ owned' = owned \ {v}
           refused == /\ vio' = [vio EXCEPT ![v] = IF free THEN Freed ELSE r]
                      /\ UNCHANGED fds
                      /\ owned' = IF free THEN owned \ {v} ELSE owned
<1>2. IsVio(vio[v]) /\ vio[v].live = TRUE
  BY VioLive
<1>3. IsVio(r) /\ r.live = vio[v].live /\ r.fd = vio[v].fd /\ r.ssl = vio[v].ssl /\ r.conn = vio[v].conn
  BY <1>2 DEF IsVio
<1>4. free \/ r = vio[v]
  BY <1>1, <1>2 DEF IsVio
<1>5. \E F : q = [r EXCEPT !.flags = F] /\ "CLOSED" \in F
  <2>1. q = [r EXCEPT !.flags = (r.flags \ {"CONNECTING", "SSLCONNECTING"}) \cup {"CLOSED"}]
    BY DEF MOWGLI_VIO_SET_CLOSED
  <2> QED
    BY <2>1, Zenon
<1>6. IsVio(q) /\ q.live = vio[v].live /\ "CLOSED" \in q.flags
  <2>1. PICK F : q = [r EXCEPT !.flags = F] /\ "CLOSED" \in F
    BY <1>5
  <2> HIDE DEF q, r
  <2> QED
    BY <1>3, <2>1 DEF IsVio
<1>7. \/ r.ssl /\ conns[r.conn].handle = 0 /\ refused /\ UNCHANGED <<conns, ctxrefs, shared>>
      \/ /\ r.ssl /\ done
         /\ ctxrefs' = Released(r.conn)
         /\ shared' = IF Borrowed(r.conn)
                      THEN [shared EXCEPT ![conns[r.conn].context] = @ + 1]
                      ELSE shared
         /\ conns' = Without(conns, r.conn)
      \/ ~r.ssl /\ r.fd = 0 /\ refused /\ UNCHANGED <<conns, ctxrefs, shared>>
      \/ ~r.ssl /\ done /\ UNCHANGED <<conns, ctxrefs, shared>>
  BY <1>1, Zenon DEF Close
<1> HIDE DEF q, r
<1>8. DOMAIN conns \subseteq VConn
  BY DEF VioInv, VioConnInv
<1>9. vio[v].fd # 0 => v \in owned
  BY DEF VioInv, DescriptorsOwned
<1>10. v \in owned => vio[v].fd # 0
  BY VioAssumption DEF VioInv, VioTypeOK, DescriptorsOwned
<1>11. ASSUME done
       PROVE  /\ vio' = [vio EXCEPT ![v] = vio'[v]]
              /\ vio'[v] = Freed \/ (IsVio(vio'[v]) /\ vio'[v].live = TRUE /\ "CLOSED" \in vio'[v].flags)
              /\ owned' = owned \ {v}
              /\ fds' = fds \ {vio[v].fd}
  <2>1. vio'[v] = IF free THEN Freed ELSE q
    BY <1>11, Zenon DEF VioInv, VioTypeOK
  <2>2. vio' = [vio EXCEPT ![v] = vio'[v]]
    BY <1>11, <2>1
  <2>3. vio'[v] = Freed \/ vio'[v] = q
    BY <2>1
  <2>4. q.live = TRUE
    BY <1>2, <1>6, Zenon
  <2>5. vio'[v] = Freed \/ (IsVio(vio'[v]) /\ vio'[v].live = TRUE /\ "CLOSED" \in vio'[v].flags)
    BY <1>6, <2>3, <2>4, Zenon
  <2> QED
    BY <1>3, <1>11, <2>2, <2>5, Zenon
<1>12. ASSUME refused, UNCHANGED <<conns, ctxrefs, shared>>,
              v \in owned => vio[v].ssl /\ conns[vio[v].conn].handle = 0
       PROVE  VioInv' /\ VioLostStep
  <2>1. CASE free
    <3>1. vio' = [vio EXCEPT ![v] = Freed] /\ owned' = owned \ {v} /\ UNCHANGED fds
      BY <1>12, <2>1
    <3>2. vio'[v] = Freed
      BY <3>1, Zenon DEF VioInv, VioTypeOK
    <3>3. vio' = [vio EXCEPT ![v] = vio'[v]]
      BY <3>1, <3>2
    <3>4. CtxInv'
      BY <1>12, CtxSame DEF VioInv
    <3> QED
      BY <1>8, <1>12, <3>1, <3>2, <3>3, <3>4, VioCloses
  <2>2. CASE ~free
    <3>1. vio' = [vio EXCEPT ![v] = vio[v]] /\ UNCHANGED <<fds, owned>>
      BY <1>4, <1>12, <2>2, Zenon
    <3>2. vio' = vio
      BY <3>1 DEF VioInv, VioTypeOK
    <3> QED
      BY <1>12, <3>1, <3>2, VioSame DEF vioVars
  <2> QED
    BY <2>1, <2>2
<1>13. CASE r.ssl /\ conns[r.conn].handle = 0 /\ refused /\ UNCHANGED <<conns, ctxrefs, shared>>
  BY <1>3, <1>12, <1>13
<1>14. CASE ~r.ssl /\ r.fd = 0 /\ refused /\ UNCHANGED <<conns, ctxrefs, shared>>
  BY <1>3, <1>10, <1>12, <1>14
<1>15. CASE ~r.ssl /\ done /\ UNCHANGED <<conns, ctxrefs, shared>>
  <2>1. CtxInv'
    BY <1>15, CtxSame DEF VioInv
  <2>2. DOMAIN conns' \subseteq VConn /\ \A j \in DOMAIN conns : j \in DOMAIN conns' /\ conns'[j].vio = conns[j].vio
    BY <1>8, <1>15
  <2> HIDE DEF done
  <2> QED
    BY <1>9, <1>11, <1>15, <2>1, <2>2, VioCloses
<1>16. CASE /\ r.ssl /\ done
            /\ ctxrefs' = Released(r.conn)
            /\ shared' = IF Borrowed(r.conn)
                         THEN [shared EXCEPT ![conns[r.conn].context] = @ + 1]
                         ELSE shared
            /\ conns' = Without(conns, r.conn)
  <2>1. Connected(v)
    BY <1>3, <1>16 DEF VioInv, VioConnInv
  <2>2. r.conn \in DOMAIN conns /\ conns[r.conn].vio = v
    BY <1>3, <2>1 DEF Connected
  <2>3. CtxInv'
    BY <1>16, <2>2, CtxRelease DEF VioInv
  <2>4. /\ DOMAIN conns' \subseteq VConn
        /\ \A j \in DOMAIN conns : conns[j].vio # v => j \in DOMAIN conns' /\ conns'[j].vio = conns[j].vio
    BY <1>8, <1>16, <2>2 DEF Without
  <2> HIDE DEF done
  <2> QED
    BY <1>9, <1>11, <1>16, <2>3, <2>4, VioCloses
<1> QED
  BY <1>7, <1>13, <1>14, <1>15, <1>16

LEMMA VioDestroyStep ==
  ASSUME VioInv, NEW v \in VObj, mowgli_vio_destroy(v)
  PROVE  VioInv' /\ VioLostStep
<1> DEFINE r == Detached(vio[v])
<1>1. /\ Live(v)
      /\ \/ MustClose(r) /\ Close(v, r, TRUE)
         \/ /\ ~MustClose(r)
            /\ vio' = [vio EXCEPT ![v] = Freed]
            /\ owned' = owned \ {v}
            /\ UNCHANGED <<fds, conns, ctxrefs, shared>>
  BY Zenon DEF mowgli_vio_destroy
<1>2. IsVio(vio[v])
  BY <1>1, VioLive
<1>3. \E b : r = [vio[v] EXCEPT !.loop = b]
  BY Zenon DEF Detached
<1> HIDE DEF r
<1>4. PICK b : r = [vio[v] EXCEPT !.loop = b]
  BY <1>3
<1>5. r.flags = vio[v].flags
  BY <1>2, <1>4 DEF IsVio
<1>6. CASE MustClose(r) /\ Close(v, r, TRUE)
  <2>1. ~Closed(v)
    BY <1>5, <1>6 DEF MustClose, Closed
  <2>2. \E bb, free : Close(v, [vio[v] EXCEPT !.loop = bb], free) /\ (free \/ bb = vio[v].loop)
    BY <1>4, <1>6, Zenon
  <2> QED
    BY <1>1, <2>1, <2>2, VioCloseStep
<1>7. CASE /\ ~MustClose(r)
           /\ vio' = [vio EXCEPT ![v] = Freed]
           /\ owned' = owned \ {v}
           /\ UNCHANGED <<fds, conns, ctxrefs, shared>>
  <2>1. Closed(v)
    BY <1>5, <1>7 DEF MustClose, Closed
  <2>2. vio'[v] = Freed
    BY <1>7, Zenon DEF VioInv, VioTypeOK
  <2>3. vio' = [vio EXCEPT ![v] = vio'[v]]
    BY <1>7, <2>2
  <2>4. CtxInv'
    BY <1>7, CtxSame DEF VioInv
  <2>5. DOMAIN conns' \subseteq VConn
    BY <1>7 DEF VioInv, VioConnInv
  <2> QED
    BY <1>1, <1>7, <2>1, <2>2, <2>3, <2>4, <2>5, VioCloses
<1> QED
  BY <1>1, <1>6, <1>7

LEMMA VioCloseSteps ==
  ASSUME VioInv, NEW v \in VObj, mowgli_vio_close(v)
  PROVE  VioInv' /\ VioLostStep
<1>1. Live(v) /\ v \in owned /\ Close(v, vio[v], FALSE)
  BY DEF mowgli_vio_close, Usable
<1>2. IsVio(vio[v])
  BY <1>1, VioLive
<1>3. vio[v] = [vio[v] EXCEPT !.loop = vio[v].loop]
  BY <1>2 DEF IsVio
<1>4. \E b, free : Close(v, [vio[v] EXCEPT !.loop = b], free) /\ (free \/ b = vio[v].loop)
  BY <1>1, <1>3, Zenon
<1> QED
  BY <1>1, <1>4, VioCloseStep

LEMMA VioInitInv ==
  ASSUME VioInit
  PROVE  VioInv
<1>1. vio = [v \in VObj |-> vio[v]] /\ \A v \in VObj : vio[v] = Freed
  BY DEF VioInit
<1>2. fds = {} /\ owned = {} /\ DOMAIN conns = {} /\ DOMAIN ctxrefs = {} /\ DOMAIN shared = {}
  BY DEF VioInit
<1>3. \A v \in VObj : ~vio[v].live
  BY <1>1 DEF Freed
<1>4. VioTypeOK
  BY <1>1, <1>2 DEF VioTypeOK
<1>5. DescriptorsOwned /\ VioConnInv
  BY <1>2, <1>3 DEF DescriptorsOwned, VioConnInv, Live
<1>6. CtxTypeOK
  <2>1. IsFiniteSet(DOMAIN conns)
    BY <1>2, FS_EmptySet
  <2>2. 0 \in Nat /\ DOMAIN ctxrefs = 1 .. 0
    BY <1>2
  <2> QED
    BY <1>2, <2>1, <2>2 DEF CtxTypeOK
<1>7. CtxCounted
  BY <1>2 DEF CtxCounted
<1> QED
  BY <1>4, <1>5, <1>6, <1>7 DEF VioInv, CtxInv

LEMMA VioNextInv ==
  ASSUME VioInv, VioNext
  PROVE  VioInv' /\ VioLostStep
<1>1. PICK v \in VObj :
        \/ mowgli_vio_create(v) \/ mowgli_vio_destroy(v) \/ mowgli_vio_close(v)
        \/ mowgli_vio_eventloop_attach(v) \/ mowgli_vio_eventloop_detach(v)
        \/ \E stream \in BOOLEAN : mowgli_vio_default_socket(v, stream)
        \/ mowgli_vio_default_listen(v) \/ mowgli_vio_default_connect(v)
        \/ DefaultRead(v) \/ DefaultWrite(v)
        \/ mowgli_vio_openssl_setssl(v)
        \/ mowgli_vio_openssl_default_listen(v) \/ mowgli_vio_openssl_default_connect(v)
        \/ mowgli_openssl_read_or_write(v)
        \/ \E w \in VObj : mowgli_vio_default_accept(v, w) \/ mowgli_vio_openssl_default_accept(v, w)
  BY DEF VioNext
<1>2. CASE mowgli_vio_create(v)
  BY <1>2, VioCreateStep
<1>3. CASE mowgli_vio_destroy(v) \/ mowgli_vio_close(v)
  BY <1>3, VioDestroyStep, VioCloseSteps
<1>4. CASE mowgli_vio_eventloop_attach(v) \/ mowgli_vio_eventloop_detach(v)
  BY <1>4, VioAttachSteps
<1>5. CASE \E stream \in BOOLEAN : mowgli_vio_default_socket(v, stream)
  BY <1>5, VioSocketStep
<1>6. CASE \/ mowgli_vio_default_listen(v) \/ mowgli_vio_default_connect(v)
           \/ DefaultRead(v) \/ DefaultWrite(v)
  BY <1>6, VioFlagSteps
<1>7. CASE mowgli_vio_openssl_setssl(v)
  BY <1>7, VioSetsslStep
<1>8. CASE mowgli_vio_openssl_default_listen(v)
  BY <1>8, VioSslListenStep
<1>9. CASE mowgli_vio_openssl_default_connect(v)
  BY <1>9, VioSslConnectStep
<1>10. CASE mowgli_openssl_read_or_write(v)
  BY <1>10, VioSslIoStep
<1>11. ASSUME NEW w \in VObj, mowgli_vio_default_accept(v, w) \/ mowgli_vio_openssl_default_accept(v, w)
       PROVE  VioInv' /\ VioLostStep
  BY <1>11, VioAcceptStep, VioSslAcceptStep
<1> QED
  BY <1>1, <1>2, <1>3, <1>4, <1>5, <1>6, <1>7, <1>8, <1>9, <1>10, <1>11

(* Whatever the calls on any number of VIO objects and in whatever order,  *)
(* a descriptor and an SSL connection belong to one object, destroy and    *)
(* close never close a descriptor of another, and the reference count of   *)
(* every SSL context is short by at most the closes of connections that    *)
(* shared it (vio_sockets.c, vio_openssl.c).                               *)
THEOREM VioOwnersAreUnique == VioSpec => []VioOwnership
<1>1. VioInit => VioInv
  BY VioInitInv
<1>2. VioInv /\ [VioNext]_vioVars => VioInv'
  BY VioNextInv, VioSame
<1>3. VioInv => VioOwnership
  <2> SUFFICES ASSUME VioInv PROVE VioOwnership
    OBVIOUS
  <2>1. \A v \in {x \in owned : vio[x].ssl} : Connected(v)
    BY DEF VioInv, VioTypeOK, VioConnInv, DescriptorsOwned
  <2>2. \A c \in DOMAIN ctxrefs : ctxrefs[c] + shared[c]
            >= Cardinality({k \in DOMAIN conns : conns[k].handle = c})
               + (IF \E k \in DOMAIN conns : conns[k].context = c THEN 1 ELSE 0)
    BY Zenon DEF VioInv, CtxInv, CtxCounted, HandlesOn, Maker
  <2>3. ConnectionsOwned
    BY <2>1, <2>2, Zenon DEF ConnectionsOwned
  <2> QED
    BY <2>3 DEF VioOwnership, VioInv
<1> QED
  BY <1>1, <1>2, <1>3, PTL DEF VioSpec

(* An open descriptor that no object has any more was lost by a destroy,   *)
(* and only of an object that a hang-up or an earlier close had marked     *)
(* closed, or whose SSL connection had no handle: the early returns of     *)
(* mowgli_vio_destroy and mowgli_vio_openssl_default_close.                *)
THEOREM DescriptorsLostOnlyByDestroy == VioSpec => VioLost
<1>1. VioInit => VioInv
  BY VioInitInv
<1>2. VioInv /\ [VioNext]_vioVars => VioInv'
  BY VioNextInv, VioSame
<1>3. VioInv /\ [VioNext]_vioVars => [VioLostStep]_vioVars
  BY VioNextInv, VioSame
<1>4. VioSpec => [][VioLostStep]_vioVars
  BY <1>1, <1>2, <1>3, PTL DEF VioSpec
<1> QED
  BY <1>4, PTL DEF VioLost, VioLostStep

-----------------------------------------------------------------------------
(* Line buffers.  The operators of the scan, over any stream r.            *)

DelimsIn(r, s) == {i \in DOMAIN s : Ends(r[s[i]])}

NextIn(r, s) ==
  LET d == Min(DelimsIn(r, s))
      text == {i \in DOMAIN s \ DelimsIn(r, s) : i > d}
  IN  IF text = {} THEN << >> ELSE SubSeq(s, Min(text), Len(s))

LineIn(r, i, j) ==
  /\ i < j /\ Ends(r[j])
  /\ \A k \in i .. j - 1 : ~Ends(r[k])
  /\ i = 1 \/ Ends(r[i - 1])

FramesIn(r) ==
  {Span(p[1], p[2]) : p \in {q \in (DOMAIN r) \X (DOMAIN r) : LineIn(r, q[1], q[2])}}

\* the lines that start in the first c bytes
FramesTo(r, c) == {f \in FramesIn(r) : f[1] <= c}

\* s is the end of the stream, from the start of a line on
EndsStream(r, s) ==
  /\ s \in Seq(Nat) /\ Len(s) <= Len(r)
  /\ \A i \in 1 .. Len(s) : s[i] = (Len(r) - Len(s)) + i
  /\ Len(s) = Len(r) \/ Ends(r[Len(r) - Len(s)])

LEMMA FrameMember ==
  ASSUME NEW r, NEW f
  PROVE  f \in FramesIn(r) <=> \E i, j \in DOMAIN r : LineIn(r, i, j) /\ f = Span(i, j)
<1>1. ASSUME f \in FramesIn(r)
      PROVE  \E i, j \in DOMAIN r : LineIn(r, i, j) /\ f = Span(i, j)
  <2>1. PICK p \in {q \in (DOMAIN r) \X (DOMAIN r) : LineIn(r, q[1], q[2])} :
               f = Span(p[1], p[2])
    BY <1>1 DEF FramesIn
  <2>2. p[1] \in DOMAIN r /\ p[2] \in DOMAIN r /\ LineIn(r, p[1], p[2])
    OBVIOUS
  <2> QED
    BY <2>1, <2>2
<1>2. ASSUME NEW i \in DOMAIN r, NEW j \in DOMAIN r, LineIn(r, i, j), f = Span(i, j)
      PROVE  f \in FramesIn(r)
  <2> DEFINE p == <<i, j>>
  <2>1. p \in (DOMAIN r) \X (DOMAIN r) /\ p[1] = i /\ p[2] = j
    OBVIOUS
  <2> HIDE DEF p
  <2>2. p \in {q \in (DOMAIN r) \X (DOMAIN r) : LineIn(r, q[1], q[2])} /\ f = Span(p[1], p[2])
    BY <1>2, <2>1
  <2> QED
    BY <2>2 DEF FramesIn
<1> QED
  BY <1>1, <1>2

LEMMA SpanFields ==
  ASSUME NEW i \in Nat, NEW j \in Nat, i < j
  PROVE  Span(i, j)[1] = i /\ Span(i, j) # << >> /\ Span(i, j) \in Seq(Nat)
<1>1. 1 \in 1 .. j - i /\ j - i \in Nat
  OBVIOUS
<1>2. \A k \in 1 .. j - i : i + k - 1 \in Nat
  OBVIOUS
<1>3. Span(i, j)[1] = i
  BY <1>1 DEF Span
<1>4. Span(i, j) \in [1 .. j - i -> Nat]
  BY <1>2 DEF Span
<1>5. Span(i, j) \in Seq(Nat)
  BY <1>1, <1>4
<1>6. DOMAIN Span(i, j) = 1 .. j - i
  BY DEF Span
<1> QED
  BY <1>1, <1>3, <1>5, <1>6

(* The first delimiter of the buffer, and where the next line starts.      *)
LEMMA NextLineFacts ==
  ASSUME NEW r \in Seq(Kind), NEW s, EndsStream(r, s), DelimsIn(r, s) # {}
  PROVE  LET d == Min(DelimsIn(r, s))
             n == NextIn(r, s)
         IN  /\ d \in 1 .. Len(s) /\ Ends(r[s[d]])
             /\ \A i \in 1 .. d - 1 : ~Ends(r[s[i]])
             /\ n \in Seq(Nat) /\ Len(n) <= Len(s) - d
             /\ \A i \in d .. Len(s) - Len(n) : Ends(r[s[i]])
             /\ \A i \in 1 .. Len(n) : n[i] = s[(Len(s) - Len(n)) + i]
<1> DEFINE D == DelimsIn(r, s)
           d == Min(D)
           T == {i \in DOMAIN s \ D : i > d}
           n == NextIn(r, s)
           N == Len(s)
<1>1. N \in Nat /\ DOMAIN s = 1 .. N /\ s \in Seq(Nat)
  BY DEF EndsStream
<1>2. D \in SUBSET Nat /\ D \subseteq 1 .. N /\ D # {}
  BY <1>1 DEF DelimsIn
<1>3. d \in D /\ \A i \in D : d <= i
  <2> HIDE DEF D
  <2> QED
    BY <1>2, NatMin
<1>4. d \in 1 .. N /\ Ends(r[s[d]])
  BY <1>1, <1>3 DEF DelimsIn
<1> HIDE DEF d, N
<1>5. \A i \in 1 .. N : i \notin D => ~Ends(r[s[i]])
  BY <1>1 DEF DelimsIn
<1>6. d \in Nat /\ N \in Nat
  BY <1>1, <1>4
<1>7. \A i \in 1 .. d - 1 : ~Ends(r[s[i]])
  <2> HIDE DEF D
  <2>1. ASSUME NEW i \in 1 .. d - 1 PROVE i \in 1 .. N /\ i \notin D
    BY <1>1, <1>2, <1>3, <1>4
  <2> QED
    BY <1>5, <2>1
<1>8. CASE T = {}
  <2>1. n = << >>
    BY <1>8 DEF NextIn, d
  <2>2. Len(n) = 0 /\ n \in Seq(Nat)
    BY <2>1
  <2>3. ASSUME NEW i \in d .. N PROVE Ends(r[s[i]])
    <3>1. i \in 1 .. N /\ (i = d \/ i > d)
      BY <1>1, <1>4
    <3> QED
      BY <1>1, <1>4, <1>8, <3>1 DEF DelimsIn
  <2> HIDE DEF n
  <2> QED
    BY <1>1, <1>4, <1>7, <2>2, <2>3 DEF n, d, N
<1>9. CASE T # {}
  <2> DEFINE m == Min(T)
  <2>1. T \in SUBSET Nat
    BY <1>1
  <2>2. m \in T /\ \A i \in T : m <= i
    <3> HIDE DEF T
    <3> QED
      BY <1>9, <2>1, NatMin
  <2>3. m \in 1 .. N /\ m > d /\ m \notin D
    BY <1>1, <2>2
  <2>4. n = SubSeq(s, m, N)
    BY <1>9 DEF NextIn, d, N
  <2>5. ASSUME NEW i \in d .. m - 1 PROVE Ends(r[s[i]])
    <3>1. i \in 1 .. N /\ i \notin T /\ (i = d \/ i > d)
      <4> HIDE DEF T
      <4> QED
        BY <1>1, <1>4, <2>1, <2>2, <2>3
    <3> QED
      BY <1>1, <1>4, <3>1 DEF DelimsIn
  <2> HIDE DEF m, n, T, D
  <2>6. n \in Seq(Nat) /\ Len(n) = (N - m) + 1 /\ \A i \in 1 .. Len(n) : n[i] = s[(m - 1) + i]
    <3>1. /\ s \in Seq(Nat) /\ m \in Int /\ N \in Int /\ m <= N
          /\ \A i \in m .. N : s[i] \in Nat
      BY <1>1, <2>3 DEF N
    <3> HIDE DEF N
    <3>2. /\ SubSeq(s, m, N) \in Seq(Nat)
          /\ Len(SubSeq(s, m, N)) = IF m <= N THEN N - m + 1 ELSE 0
          /\ \A i \in 1 .. N - m + 1 : SubSeq(s, m, N)[i] = s[m + i - 1]
      BY ONLY <3>1, SubSeqProperties
    <3>3. n \in Seq(Nat) /\ Len(n) = (N - m) + 1 /\ \A i \in 1 .. (N - m) + 1 : n[i] = s[m + i - 1]
      BY <2>4, <3>1, <3>2
    <3>4. \A i \in 1 .. (N - m) + 1 : m + i - 1 = (m - 1) + i
      BY <1>1, <2>3
    <3> QED
      BY <3>3, <3>4
  <2>7. m \in Nat /\ d \in Nat
    BY <1>1, <1>4, <2>3
  <2>8. N - Len(n) = m - 1 /\ Len(n) <= N - d
    <3>1. Len(n) = (N - m) + 1 /\ m > d
      BY <2>3, <2>6
    <3> QED
      BY ONLY <1>6, <2>7, <3>1
  <2> QED
    BY <1>1, <1>4, <1>7, <2>5, <2>6, <2>8 DEF n, d, N, D
<1> QED
  BY <1>8, <1>9

(* What recv() adds does not change the lines that start before: a line    *)
(* that starts in the first c bytes ends there.                            *)
LEMMA OldFrames ==
  ASSUME NEW r \in Seq(Kind), NEW k \in Seq(Kind), NEW c \in 0 .. Len(r),
         c = 0 \/ Ends(r[c])
  PROVE  FramesTo(r \o k, c) = FramesTo(r, c)
<1> DEFINE t == r \o k
<1>1. /\ Len(r) \in Nat /\ Len(t) \in Nat /\ Len(r) <= Len(t)
      /\ DOMAIN r = 1 .. Len(r) /\ DOMAIN t = 1 .. Len(t)
      /\ \A i \in 1 .. Len(r) : t[i] = r[i]
  OBVIOUS
<1> HIDE DEF t
<1>2. ASSUME NEW i \in DOMAIN t, NEW j \in DOMAIN t, i <= c
      PROVE  LineIn(t, i, j) <=> j \in DOMAIN r /\ LineIn(r, i, j)
  <2>1. i \in Nat /\ j \in Nat /\ i \in DOMAIN r /\ c # 0 /\ c \in DOMAIN r /\ Ends(t[c])
    BY <1>1, <1>2
  <2>2. ASSUME LineIn(t, i, j) PROVE j \in DOMAIN r
    <3>1. SUFFICES ASSUME ~(j <= c) PROVE FALSE
      BY <1>1, <2>1
    <3>2. c \in i .. j - 1
      BY <1>2, <2>1, <3>1
    <3>3. ~Ends(t[c])
      BY <2>2, <3>2 DEF LineIn
    <3> QED
      BY <2>1, <3>3
  <2>3. ASSUME j \in DOMAIN r PROVE LineIn(t, i, j) <=> LineIn(r, i, j)
    <3>1. \A l \in i .. j - 1 : l \in 1 .. Len(r)
      BY <1>1, <2>1, <2>3
    <3>2. i # 1 => i - 1 \in 1 .. Len(r)
      BY <1>1, <2>1
    <3> QED
      BY <1>1, <2>3, <3>1, <3>2 DEF LineIn
  <2> QED
    BY <2>2, <2>3
<1>3. ASSUME NEW f
      PROVE  f \in FramesTo(t, c) <=> f \in FramesTo(r, c)
  <2>1. ASSUME f \in FramesTo(t, c) PROVE f \in FramesTo(r, c)
    <3>1. PICK i \in DOMAIN t, j \in DOMAIN t : LineIn(t, i, j) /\ f = Span(i, j)
      BY <2>1, FrameMember DEF FramesTo
    <3>2. i \in Nat /\ j \in Nat /\ i < j
      BY <1>1, <3>1 DEF LineIn
    <3>3. f[1] = i
      BY <3>1, <3>2, SpanFields
    <3>4. i <= c
      BY <2>1, <3>3 DEF FramesTo
    <3>5. i \in DOMAIN r /\ j \in DOMAIN r /\ LineIn(r, i, j)
      BY <1>1, <1>2, <3>1, <3>2, <3>4
    <3>6. f \in FramesIn(r)
      BY <3>1, <3>5, FrameMember
    <3> QED
      BY <3>3, <3>4, <3>6 DEF FramesTo
  <2>2. ASSUME f \in FramesTo(r, c) PROVE f \in FramesTo(t, c)
    <3>1. PICK i \in DOMAIN r, j \in DOMAIN r : LineIn(r, i, j) /\ f = Span(i, j)
      BY <2>2, FrameMember DEF FramesTo
    <3>2. i \in Nat /\ j \in Nat /\ i < j /\ i \in DOMAIN t /\ j \in DOMAIN t
      BY <1>1, <3>1 DEF LineIn
    <3>3. f[1] = i
      BY <3>1, <3>2, SpanFields
    <3>4. i <= c
      BY <2>2, <3>3 DEF FramesTo
    <3>5. LineIn(t, i, j)
      BY <1>2, <3>1, <3>2, <3>4
    <3>6. f \in FramesIn(t)
      BY <3>1, <3>2, <3>5, FrameMember
    <3> QED
      BY <3>3, <3>4, <3>6 DEF FramesTo
  <2> QED
    BY <2>1, <2>2
<1> QED
  BY <1>3 DEF t, FramesTo

(* The line mowgli_linebuf_process finds at the start of the buffer is the *)
(* next one of the stream, and the only one up to where it goes on; it is  *)
(* empty when the buffer starts with a delimiter.                          *)
LEMMA NewFrame ==
  ASSUME NEW r \in Seq(Kind), NEW s, EndsStream(r, s), DelimsIn(r, s) # {}
  PROVE  LET d == Min(DelimsIn(r, s))
             b == Len(r) - Len(s)
             e == Len(r) - Len(NextIn(r, s))
             l == SubSeq(s, 1, d - 1)
         IN  /\ EndsStream(r, NextIn(r, s))
             /\ b \in Nat /\ e \in Nat /\ b < e /\ e <= Len(r) /\ Ends(r[e])
             /\ l \in Seq(Nat)
             /\ l # << >> => l[1] = b + 1
             /\ FramesTo(r, e) = FramesTo(r, b) \cup ({l} \ {<< >>})
<1> DEFINE d == Min(DelimsIn(r, s))
           n == NextIn(r, s)
           N == Len(s)
           M == Len(n)
           R == Len(r)
           b == R - N
           e == R - M
           l == SubSeq(s, 1, d - 1)
<1>1. /\ d \in 1 .. N /\ Ends(r[s[d]])
      /\ \A i \in 1 .. d - 1 : ~Ends(r[s[i]])
      /\ n \in Seq(Nat) /\ M <= N - d
      /\ \A i \in d .. N - M : Ends(r[s[i]])
      /\ \A i \in 1 .. M : n[i] = s[(N - M) + i]
  BY NextLineFacts
<1>2. /\ s \in Seq(Nat) /\ N \in Nat /\ R \in Nat /\ N <= R /\ M \in Nat
      /\ \A i \in 1 .. N : s[i] = b + i
      /\ N = R \/ Ends(r[R - N])
      /\ DOMAIN r = 1 .. R
  BY <1>1 DEF EndsStream
<1> HIDE DEF d, n, N, M, R
<1>3. /\ b \in Nat /\ e \in Nat /\ b + d <= e /\ e <= R /\ d \in Nat /\ d >= 1
      /\ b = 0 \/ Ends(r[b])
  BY <1>1, <1>2
<1>4. Ends(r[b + d]) /\ \A i \in b + 1 .. (b + d) - 1 : ~Ends(r[i])
  <2>1. ASSUME NEW i \in b + 1 .. (b + d) - 1 PROVE ~Ends(r[i])
    <3>1. i - b \in 1 .. d - 1 /\ i - b \in 1 .. N /\ b + (i - b) = i
      BY <1>1, <1>2, <1>3
    <3>2. ~Ends(r[s[i - b]]) /\ s[i - b] = b + (i - b)
      BY <1>1, <1>2, <3>1
    <3> QED
      BY <3>1, <3>2
  <2> QED
    BY <1>1, <1>2, <2>1
<1>5. \A i \in b + d .. e : Ends(r[i])
  <2>1. SUFFICES ASSUME NEW i \in b + d .. e PROVE Ends(r[i])
    OBVIOUS
  <2>2. i - b \in d .. N - M /\ i - b \in 1 .. N /\ b + (i - b) = i
    BY <1>1, <1>2, <1>3
  <2>3. Ends(r[s[i - b]]) /\ s[i - b] = b + (i - b)
    BY <1>1, <1>2, <2>2
  <2> QED
    BY <2>2, <2>3
<1>6. EndsStream(r, n)
  <2>1. ASSUME NEW i \in 1 .. M PROVE n[i] = (R - M) + i
    <3>1. (N - M) + i \in 1 .. N /\ b + ((N - M) + i) = (R - M) + i
      BY <1>1, <1>2, <2>1
    <3> QED
      BY <1>1, <1>2, <3>1
  <2>2. Ends(r[R - M])
    BY <1>3, <1>5
  <2>3. n \in Seq(Nat) /\ M <= R
    BY <1>1, <1>2, <1>3
  <2> QED
    BY <2>1, <2>2, <2>3 DEF EndsStream, M, R
<1>7. /\ l \in Seq(Nat) /\ DOMAIN l = 1 .. d - 1
      /\ \A i \in 1 .. d - 1 : l[i] = b + i
  <2>1. \A i \in 1 .. d - 1 : s[i] \in Nat /\ i \in 1 .. N
    <3>1. SUFFICES ASSUME NEW i \in 1 .. d - 1 PROVE s[i] \in Nat /\ i \in 1 .. N
      OBVIOUS
    <3>2. i \in 1 .. N /\ b + i \in Nat
      BY <1>1, <1>2, <1>3
    <3> QED
      BY <1>2, <3>2
  <2>2. d - 1 \in Nat /\ 1 \in Int /\ d - 1 \in Int
    BY <1>3
  <2>3. /\ l \in Seq(Nat) /\ Len(l) = IF 1 <= d - 1 THEN d - 1 - 1 + 1 ELSE 0
        /\ \A i \in 1 .. d - 1 - 1 + 1 : l[i] = s[1 + i - 1]
    BY <2>1, <2>2, SubSeqProperties
  <2>4. Len(l) = d - 1 /\ d - 1 - 1 + 1 = d - 1 /\ \A i \in 1 .. d - 1 : 1 + i - 1 = i
    BY <2>2, <2>3
  <2>5. DOMAIN l = 1 .. d - 1
    BY <2>3, <2>4
  <2> QED
    BY <1>2, <2>1, <2>3, <2>4, <2>5
<1>8. d # 1 => l = Span(b + 1, b + d) /\ l # << >> /\ l[1] = b + 1
  <2>1. SUFFICES ASSUME d # 1
                 PROVE  l = Span(b + 1, b + d) /\ l # << >> /\ l[1] = b + 1
    OBVIOUS
  <2>2. (b + d) - (b + 1) = d - 1 /\ 1 \in 1 .. d - 1
    BY <1>3, <2>1
  <2>3. Span(b + 1, b + d) = [i \in 1 .. d - 1 |-> (b + 1) + i - 1]
    BY <2>2 DEF Span
  <2>4. \A i \in 1 .. d - 1 : (b + 1) + i - 1 = b + i
    BY <1>3
  <2> HIDE DEF l, b
  <2>5. l = [i \in 1 .. d - 1 |-> l[i]]
    BY <1>7
  <2>6. l = [i \in 1 .. d - 1 |-> b + i]
    BY ONLY <1>7, <2>5
  <2>7. Span(b + 1, b + d) = [i \in 1 .. d - 1 |-> b + i]
    BY ONLY <2>3, <2>4
  <2>8. l[1] = b + 1
    BY <1>7, <2>2
  <2>9. l # << >>
    <3>1. l \in Seq(Nat) /\ 1 \in DOMAIN l
      BY <1>7, <2>2
    <3>2. 1 \in 1 .. Len(l)
      BY ONLY <3>1
    <3> QED
      BY ONLY <3>1, <3>2
  <2> QED
    BY <2>6, <2>7, <2>8, <2>9
<1>9. d = 1 => l = << >>
  BY <1>7
<1>10. d # 1 => LineIn(r, b + 1, b + d) /\ b + 1 \in DOMAIN r /\ b + d \in DOMAIN r
  <2>1. b + 1 = 1 \/ Ends(r[(b + 1) - 1])
    BY <1>3
  <2> QED
    BY <1>2, <1>3, <1>4, <2>1 DEF LineIn
<1> HIDE DEF b, e, l
<1>11. ASSUME NEW f, f \in FramesTo(r, e)
       PROVE  f \in FramesTo(r, b) \cup ({l} \ {<< >>})
  <2>1. PICK i \in DOMAIN r, j \in DOMAIN r : LineIn(r, i, j) /\ f = Span(i, j)
    BY <1>11, FrameMember DEF FramesTo
  <2>2. i \in 1 .. R /\ j \in 1 .. R /\ i < j
    BY <1>2, <2>1 DEF LineIn
  <2>3. f[1] = i
    BY <1>2, <2>1, <2>2, SpanFields, SMTT(30)
  <2>4. i <= e
    BY <1>11, <2>3 DEF FramesTo
  <2>5. CASE i <= b
    BY <1>11, <2>3, <2>5 DEF FramesTo
  <2>6. CASE ~(i <= b)
    <3>1. ~Ends(r[i])
      <4>1. i \in i .. j - 1
        BY <2>2
      <4> QED
        BY <2>1, <4>1 DEF LineIn
    <3>2. i \in b + 1 .. (b + d) - 1
      <4>1. ~(i \in b + d .. e)
        BY <1>5, <3>1
      <4> QED
        BY <1>3, <2>2, <2>4, <2>6, <4>1
    <3>3. i = b + 1
      <4>1. SUFFICES ASSUME i # b + 1 PROVE FALSE
        OBVIOUS
      <4>2. i - 1 \in b + 1 .. (b + d) - 1 /\ i # 1
        BY <1>3, <3>2, <4>1
      <4>3. ~Ends(r[i - 1])
        BY <1>4, <4>2
      <4> QED
        BY <2>1, <4>2, <4>3 DEF LineIn
    <3>4. j = b + d
      <4>1. ~(j < b + d)
        <5>1. SUFFICES ASSUME j < b + d PROVE FALSE
          OBVIOUS
        <5>2. j \in b + 1 .. (b + d) - 1
          BY <1>3, <2>2, <3>3, <5>1
        <5> QED
          BY <1>4, <2>1, <5>2 DEF LineIn
      <4>2. ~(b + d < j)
        <5>1. SUFFICES ASSUME b + d < j PROVE FALSE
          OBVIOUS
        <5>2. b + d \in i .. j - 1
          BY <1>3, <2>2, <3>3, <5>1
        <5> QED
          BY <1>4, <2>1, <5>2 DEF LineIn
      <4> QED
        BY <1>3, <2>2, <4>1, <4>2
    <3>5. d # 1
      BY <1>3, <3>2, <3>3
    <3> QED
      BY <1>8, <2>1, <3>3, <3>4, <3>5
  <2> QED
    BY <2>5, <2>6
<1>12. FramesTo(r, b) \subseteq FramesTo(r, e)
  <2>1. SUFFICES ASSUME NEW f \in FramesTo(r, b) PROVE f \in FramesTo(r, e)
    OBVIOUS
  <2>2. PICK i \in DOMAIN r, j \in DOMAIN r : LineIn(r, i, j) /\ f = Span(i, j)
    BY <2>1, FrameMember DEF FramesTo
  <2>3. i \in 1 .. R /\ j \in 1 .. R /\ i < j
    BY <1>2, <2>2 DEF LineIn
  <2>4. f[1] = i
    BY <1>2, <2>2, <2>3, SpanFields, SMTT(30)
  <2>5. i <= b
    BY <2>1, <2>4 DEF FramesTo
  <2>6. i <= e
    BY <1>3, <2>3, <2>5
  <2> QED
    BY <2>1, <2>4, <2>6 DEF FramesTo
<1>13. {l} \ {<< >>} \subseteq FramesTo(r, e)
  <2>1. SUFFICES ASSUME l # << >> PROVE l \in FramesTo(r, e)
    OBVIOUS
  <2>2. d # 1
    BY <1>9, <2>1
  <2>3. l \in FramesIn(r)
    BY <1>8, <1>10, <2>2, FrameMember
  <2>4. l[1] = b + 1 /\ b + 1 <= e
    BY <1>3, <1>8, <2>2
  <2> QED
    BY <2>3, <2>4 DEF FramesTo
<1>14. FramesTo(r, e) = FramesTo(r, b) \cup ({l} \ {<< >>})
  BY <1>11, <1>12, <1>13
<1>15. b < e /\ Ends(r[e])
  BY <1>3, <1>5
<1>16. l # << >> => l[1] = b + 1
  BY <1>8, <1>9
<1> QED
  BY <1>3, <1>6, <1>7, <1>14, <1>15, <1>16 DEF d, n, N, M, R, b, e, l

-----------------------------------------------------------------------------
(* The inductive invariant of a line buffer.                               *)

\* what is left to scan, or waits for the rest of a line
View == IF pc = "idle" THEN readbuf ELSE scan

\* the bytes up to where the scan goes on
Behind ==
  Len(received) - Len(IF pc = "line" THEN NextIn(received, scan) ELSE View)

Got == {lines[i] : i \in Delivered}

InOrder == \A i, j \in Delivered : i < j => lines[i][1] < lines[j][1]

\* the bytes sent and buffered, the event they wait for, and how far the
\* buffers are filled
OutInv ==
  BytesCounted /\ ExactUntilPartial /\ WriteScheduled /\ BuflenBounds /\ Len(scan) <= MaxBufLen + 1

\* the buffer holds the stream from the start of a line on; between events
\* it has no delimiter, and while no line is found it is the whole buffer
ScanInv ==
  /\ EndsStream(received, View)
  /\ pc = "idle" => DelimsIn(received, readbuf) = {}
  /\ pc # "idle" /\ linecount = 0 => scan = readbuf
  /\ pc = "line" => DelimsIn(received, scan) # {} /\ linecount # 0

\* readline_cb got the lines of the first c bytes
GotTo(c) ==
  /\ Got = FramesTo(received, c)
  /\ c = 0 \/ Ends(received[c])

\* ... where c is how far the scan got, or was when the client shut down
LinesInv ==
  /\ \E c \in 0 .. Behind : GotTo(c) /\ (~Has("SHUTTING_DOWN") => c = Behind)
  /\ InOrder

LbInv == TypeOK /\ OutInv /\ ScanInv /\ LinesInv

Directions == {"read", "write"}
AllFlags == {"READBUF_FULL", "WRITEBUF_FULL", "SHUTTING_DOWN"}
Errors == [type : {"none", "custom", "errcode", "hangup"}, code : BOOLEAN]

LEMMA SameOperators ==
  /\ \A s : Delims(s) = DelimsIn(received, s) /\ NextLine(s) = NextIn(received, s)
  /\ Frames = FramesIn(received)
<1>1. \A s : Delims(s) = DelimsIn(received, s)
  BY DEF Delims, DelimsIn
<1>2. \A s : NextLine(s) = NextIn(received, s)
  BY <1>1 DEF NextLine, NextIn
<1>3. \A i, j : IsLine(i, j) <=> LineIn(received, i, j)
  BY DEF IsLine, LineIn
<1>4. {p \in (DOMAIN received) \X (DOMAIN received) : IsLine(p[1], p[2])}
      = {p \in (DOMAIN received) \X (DOMAIN received) : LineIn(received, p[1], p[2])}
  BY <1>3
<1>5. Frames = FramesIn(received)
  BY <1>4 DEF Frames, FramesIn
<1> QED
  BY <1>1, <1>2, <1>5

(* What a step that neither receives nor scans leaves true.                *)
LEMMA ScanKept ==
  ASSUME ScanInv, LinesInv, UNCHANGED rvars, flags \subseteq flags'
  PROVE  ScanInv' /\ LinesInv'
<1>1. View' = View /\ Behind' = Behind /\ Got' = Got /\ (InOrder' <=> InOrder)
  BY DEF rvars, View, Behind, Got, InOrder, Delivered
<1>2. received' = received /\ pc' = pc /\ linecount' = linecount /\ scan' = scan /\ readbuf' = readbuf
  BY DEF rvars
<1>3. ScanInv'
  BY <1>1, <1>2 DEF ScanInv
<1>4. PICK c \in 0 .. Behind : GotTo(c) /\ (~Has("SHUTTING_DOWN") => c = Behind)
  BY DEF LinesInv
<1>5. GotTo(c)'
  BY <1>1, <1>2, <1>4 DEF GotTo
<1>6. ~Has("SHUTTING_DOWN")' => ~Has("SHUTTING_DOWN")
  BY DEF Has
<1>7. LinesInv'
  BY <1>1, <1>4, <1>5, <1>6 DEF LinesInv
<1> QED
  BY <1>3, <1>7

LEMMA LbInit == Init => LbInv
<1> SUFFICES ASSUME Init PROVE LbInv
  OBVIOUS
<1>1. /\ received = << >> /\ lines = << >> /\ readbuf = << >> /\ writebuf = << >>
      /\ scan = << >> /\ sent = << >> /\ pc = "idle" /\ linecount = 0 /\ written = 0
      /\ Len(<< >>) = 0 /\ flags = {} /\ attached = FALSE /\ selected = {}
      /\ needwrite = FALSE /\ isclosed = FALSE
      /\ error = NoError /\ shutdown = "none" /\ partial = FALSE
  BY DEF Init
<1>2. TypeOK
  <2>1. NoError \in Errors
    BY DEF NoError, Errors
  <2>2. << >> \in Seq(Nat) /\ << >> \in Seq(Kind) /\ << >> \in Seq(Seq(Nat))
    OBVIOUS
  <2>3. {needwrite, isclosed} \subseteq BOOLEAN /\ partial \in BOOLEAN
    BY <1>1
  <2> QED
    BY <1>1, <2>1, <2>2, <2>3 DEF TypeOK, Errors
<1>3. MaxBufLen \in Nat
  BY LinebufAssumption
<1>4. OutInv
  BY <1>1, <1>3 DEF OutInv, BytesCounted,
                    ExactUntilPartial, SentInOrder, WriteScheduled, BuflenBounds
<1>5. ScanInv
  BY <1>1 DEF ScanInv, EndsStream, View, DelimsIn
<1>6. Behind = 0 /\ Got = {} /\ InOrder
  BY <1>1 DEF Behind, View, Got, InOrder, Delivered
<1>7. FramesTo(received, 0) = {}
  <2>1. DOMAIN received = {}
    BY <1>1
  <2> QED
    BY <2>1, FrameMember DEF FramesTo
<1>8. LinesInv
  BY <1>6, <1>7 DEF LinesInv, GotTo
<1> QED
  BY <1>2, <1>4, <1>5, <1>8 DEF LbInv

(* The invariant says what the client relies on.                           *)
LEMMA LbExact == LbInv => LinebufExact
<1> SUFFICES ASSUME LbInv PROVE LinebufExact
  OBVIOUS
<1>1. PICK c \in 0 .. Behind : GotTo(c) /\ (~Has("SHUTTING_DOWN") => c = Behind)
  BY DEF LbInv, LinesInv
<1>2. Got = FramesTo(received, c) /\ InOrder /\ Frames = FramesIn(received)
  BY <1>1, SameOperators DEF LbInv, LinesInv, GotTo
<1>3. received \in Seq(Kind) /\ Len(received) \in Nat /\ DOMAIN received = 1 .. Len(received)
  BY DEF LbInv, TypeOK, Kind
<1>4. ASSUME NEW f \in Frames
      PROVE  \E i, j \in 1 .. Len(received) :
               LineIn(received, i, j) /\ i < j /\ f = Span(i, j) /\ f[1] = i
  <2>1. PICK i \in DOMAIN received, j \in DOMAIN received :
               LineIn(received, i, j) /\ f = Span(i, j)
    BY <1>2, FrameMember
  <2>2. i \in Nat /\ j \in Nat /\ i < j
    BY <1>3, <2>1 DEF LineIn
  <2> QED
    BY <1>3, <2>1, <2>2, SpanFields
<1>5. Got \subseteq Frames
  BY <1>2 DEF FramesTo
<1>6. Behind \in Nat /\ c \in Nat
  <2>1. ASSUME pc = "line"
        PROVE  Len(NextIn(received, scan)) \in Nat /\ Len(NextIn(received, scan)) <= Len(received)
    <3>1. EndsStream(received, scan) /\ DelimsIn(received, scan) # {}
      BY <2>1 DEF LbInv, ScanInv, View
    <3>2. EndsStream(received, NextIn(received, scan))
      BY <1>3, <3>1, NewFrame
    <3> QED
      BY <3>2 DEF EndsStream
  <2>2. Len(View) \in Nat /\ Len(View) <= Len(received)
    BY DEF LbInv, ScanInv, EndsStream
  <2>3. Behind \in Nat
    BY <1>3, <2>1, <2>2 DEF Behind
  <2> QED
    BY <1>1, <2>3
<1>7. ASSUME NEW f \in Frames, NEW g \in Got, f[1] < g[1] PROVE f \in Got
  <2>1. f[1] \in Nat /\ g[1] \in Nat /\ g[1] <= c
    BY <1>2, <1>4, <1>5 DEF FramesTo
  <2>2. f[1] <= c
    BY <1>6, <1>7, <2>1
  <2> QED
    BY <1>2, <2>2 DEF FramesTo
<1>8. ASSUME pc = "idle", ~Has("SHUTTING_DOWN") PROVE Frames \subseteq Got
  <2>1. c = Len(received) - Len(readbuf)
    BY <1>1, <1>8 DEF Behind, View
  <2>2. EndsStream(received, readbuf) /\ DelimsIn(received, readbuf) = {}
    BY <1>8 DEF LbInv, ScanInv, View
  <2>3. SUFFICES ASSUME NEW f \in Frames PROVE f \in Got
    OBVIOUS
  <2>4. PICK i \in 1 .. Len(received), j \in 1 .. Len(received) :
               LineIn(received, i, j) /\ i < j /\ f[1] = i
    BY <1>4
  <2>5. j <= c
    <3>1. SUFFICES ASSUME ~(j <= c) PROVE FALSE
      OBVIOUS
    <3>2. readbuf \in Seq(Nat) /\ Len(readbuf) \in Nat
      BY <2>2 DEF EndsStream
    <3>3. j - c \in 1 .. Len(readbuf) /\ c + (j - c) = j
      BY <1>3, <1>6, <2>1, <3>1, <3>2
    <3>4. readbuf[j - c] = j
      BY <2>1, <2>2, <3>3 DEF EndsStream
    <3>5. j - c \in DelimsIn(received, readbuf)
      BY <2>4, <3>2, <3>3, <3>4 DEF DelimsIn, LineIn
    <3> QED
      BY <2>2, <3>5
  <2>6. f[1] <= c
    BY <1>6, <2>4, <2>5
  <2> QED
    BY <1>2, <2>6 DEF FramesTo
<1>9. LinesExact
  BY <1>2, <1>5, <1>7, <1>8 DEF LinesExact, Got, InOrder
<1> QED
  BY <1>9 DEF LbInv, OutInv, LinebufExact

-----------------------------------------------------------------------------
(* The steps of a line buffer that leave the input alone.                  *)

\* the state that is not input, by type
OutType ==
  /\ attached \in BOOLEAN /\ selected \subseteq Directions /\ flags \subseteq AllFlags
  /\ needwrite \in BOOLEAN /\ isclosed \in BOOLEAN /\ error \in Errors
  /\ writebuf \in Seq(Nat) /\ written \in Nat /\ sent \in Seq(Nat) /\ partial \in BOOLEAN
  /\ shutdown \in {"none", "flushed", "broken"}

InType ==
  /\ readbuf \in Seq(Nat) /\ pc \in {"idle", "process", "line"}
  /\ scan \in Seq(Nat) /\ linecount \in Nat
  /\ received \in Seq(Kind) /\ lines \in Seq(Seq(Nat))

LEMMA TypeParts == TypeOK <=> OutType /\ InType
<1>1. {needwrite, isclosed} \subseteq BOOLEAN <=> needwrite \in BOOLEAN /\ isclosed \in BOOLEAN
  OBVIOUS
<1> QED
  BY <1>1 DEF TypeOK, OutType, InType, Directions, AllFlags, Errors, Kind

LEMMA TypePartsNext == TypeOK' <=> OutType' /\ InType'
<1>1. {needwrite', isclosed'} \subseteq BOOLEAN <=> needwrite' \in BOOLEAN /\ isclosed' \in BOOLEAN
  OBVIOUS
<1> QED
  BY <1>1 DEF TypeOK, OutType, InType, Directions, AllFlags, Errors, Kind

\* the step keeps the types of the output side, and its invariant
OutGood ==
  /\ OutType' /\ UNCHANGED rvars /\ flags \subseteq flags'
  /\ BytesCounted' /\ ExactUntilPartial' /\ WriteScheduled' /\ Len(writebuf') <= MaxBufLen

LEMMA OutStep ==
  ASSUME LbInv, OutGood
  PROVE  LbInv'
<1>1. readbuf' = readbuf /\ scan' = scan /\ pc' = pc /\ linecount' = linecount
      /\ received' = received /\ lines' = lines
  BY DEF OutGood, rvars
<1>2. InType'
  BY <1>1, TypeParts DEF LbInv, InType
<1>3. OutInv'
  BY <1>1 DEF LbInv, OutInv, OutGood, BuflenBounds
<1> QED
  BY <1>2, <1>3, ScanKept, TypePartsNext DEF LbInv, OutGood

LEMMA ErrorTypes ==
  ASSUME error \in Errors
  PROVE  /\ [error EXCEPT !.type = "custom"] \in Errors
         /\ [error EXCEPT !.type = "custom"].code = error.code
         /\ [error EXCEPT !.type = "hangup"] \in Errors
         /\ [error EXCEPT !.type = "hangup"].code = error.code
         /\ [type |-> "errcode", code |-> TRUE] \in Errors
  BY DEF Errors

LEMMA WriteGood ==
  ASSUME LbInv, NEW len \in 1 .. MaxBufLen, mowgli_linebuf_write(len)
  PROVE  OutGood
<1>1. /\ OutType /\ BytesCounted /\ ExactUntilPartial /\ WriteScheduled /\ Len(writebuf) <= MaxBufLen
      /\ EndlLen \in Nat /\ MaxBufLen \in Nat
  BY TypeParts, LinebufAssumption DEF LbInv, OutInv, BuflenBounds
<1>2. CASE Fits(len)
  <2> DEFINE n == len + EndlLen
             more == [i \in 1 .. n |-> written + i]
  <2>1. /\ writebuf' = writebuf \o more /\ written' = written + n
        /\ selected' = IF attached THEN selected \cup {"write"} ELSE selected
        /\ UNCHANGED <<attached, needwrite, isclosed, rvars, sent, partial, shutdown, flags, error>>
    BY <1>2 DEF mowgli_linebuf_write
  <2>2. n \in Nat /\ more \in [1 .. n -> Nat]
    BY <1>1 DEF OutType
  <2>3. more \in Seq(Nat) /\ Len(more) = n
    BY <2>2
  <2>4. Len(writebuf) + n <= MaxBufLen
    BY <1>1, <1>2 DEF Fits, OutType
  <2> HIDE DEF n, more
  <2>5. /\ writebuf' \in Seq(Nat) /\ Len(writebuf') = Len(writebuf) + n
        /\ Len(writebuf) \in Nat /\ Len(sent) \in Nat /\ written \in Nat
    <3>1. writebuf \in Seq(Nat) /\ sent \in Seq(Nat) /\ written \in Nat
      BY <1>1 DEF OutType
    <3>2. writebuf \o more \in Seq(Nat) /\ Len(writebuf \o more) = Len(writebuf) + Len(more)
      BY ONLY <2>3, <3>1, ConcatProperties
    <3> QED
      BY <2>1, <2>3, <3>1, <3>2
  <2>6. OutType'
    BY <1>1, <2>1, <2>2, <2>5 DEF OutType, Directions
  <2>7. BytesCounted' /\ Len(writebuf') <= MaxBufLen
    <3>1. /\ Len(writebuf') = Len(writebuf) + n /\ sent' = sent /\ written' = written + n
          /\ Len(sent) + Len(writebuf) = written
      BY <1>1, <2>1, <2>5 DEF BytesCounted
    <3>2. n \in Nat /\ MaxBufLen \in Nat
      BY <1>1, <2>2
    <3>3. Len(sent') + Len(writebuf') = written'
      BY <2>5, <3>1, <3>2
    <3> QED
      BY <2>4, <3>1, <3>3 DEF BytesCounted
  <2>8. WriteScheduled'
    BY <1>1, <2>1 DEF WriteScheduled
  <2>9. ASSUME ~partial PROVE (SentInOrder /\ \A i \in DOMAIN writebuf : writebuf[i] = Len(sent) + i)'
    <3>1. SentInOrder /\ \A i \in 1 .. Len(writebuf) : writebuf[i] = Len(sent) + i
      BY <1>1, <2>9 DEF ExactUntilPartial, OutType
    <3>2. SentInOrder'
      BY <2>1, <3>1 DEF SentInOrder
    <3>3. \A i \in 1 .. n : more[i] = written + i
      BY DEF more
    <3>4. /\ \A i \in 1 .. Len(writebuf) : writebuf'[i] = writebuf[i]
          /\ \A i \in Len(writebuf) + 1 .. Len(writebuf) + n : writebuf'[i] = more[i - Len(writebuf)]
      <4>1. writebuf \in Seq(Nat) /\ more \in Seq(Nat) /\ Len(more) = n
        BY <1>1, <2>3 DEF OutType
      <4> QED
        BY ONLY <2>1, <4>1, ConcatProperties
    <3>5. ASSUME NEW i \in 1 .. Len(writebuf) + n PROVE writebuf'[i] = Len(sent) + i
      <4>0. i \in Nat
        BY <2>2, <2>5
      <4>1. CASE i \in 1 .. Len(writebuf)
        BY <3>1, <3>4, <4>1
      <4>2. CASE i \in Len(writebuf) + 1 .. Len(writebuf) + n
        <5>1. i - Len(writebuf) \in 1 .. n
          BY <2>2, <2>5, <4>2
        <5>2. writebuf'[i] = written + (i - Len(writebuf))
          BY <3>3, <3>4, <4>2, <5>1
        <5>3. Len(sent) + Len(writebuf) = written
          BY <1>1 DEF BytesCounted
        <5> QED
          BY ONLY <2>5, <4>0, <5>2, <5>3
      <4> QED
        BY <2>2, <2>5, <4>1, <4>2
    <3>6. DOMAIN writebuf' = 1 .. Len(writebuf) + n /\ sent' = sent
      BY <2>1, <2>5
    <3> QED
      BY <3>2, <3>5, <3>6
  <2>10. ExactUntilPartial'
    <3>1. partial' = partial
      BY <2>1
    <3> QED
      BY <2>9, <3>1, Zenon DEF ExactUntilPartial
  <2> QED
    BY <2>1, <2>6, <2>7, <2>8, <2>10 DEF OutGood
<1>3. CASE ~Fits(len)
  <2>1. /\ LinebufError("WRITEBUF_FULL")
        /\ UNCHANGED <<attached, needwrite, isclosed, rvars, sent, partial, shutdown, writebuf, written,
                       selected>>
    BY <1>3 DEF mowgli_linebuf_write
  <2>2. error' \in Errors /\ error'.code = error.code
    BY <1>1, <2>1, ErrorTypes DEF LinebufError, OutType
  <2>3. OutType'
    BY <1>1, <2>1, <2>2 DEF OutType, LinebufError, AllFlags
  <2> QED
    BY <1>1, <2>1, <2>2, <2>3 DEF OutGood, LinebufError, BytesCounted,
                                  ExactUntilPartial, SentInOrder, WriteScheduled
<1> QED
  BY <1>2, <1>3

(* The end of write_data leaves the interest in writes where bytes are     *)
(* left.                                                                   *)
LEMMA WriteDoneGood ==
  ASSUME selected \subseteq Directions, shutdown \in {"none", "flushed", "broken"},
         NEW more, WriteDone(more)
  PROVE  /\ selected' \subseteq Directions /\ shutdown' \in {"none", "flushed", "broken"}
         /\ writebuf' # << >> => "write" \in selected'
         /\ shutdown' = "flushed" /\ shutdown # "flushed" => writebuf' = << >>
<1>1. CASE writebuf' = << >>
  BY <1>1 DEF WriteDone
<1>2. CASE writebuf' # << >>
  BY <1>2 DEF WriteDone, Directions
<1> QED
  BY <1>1, <1>2

LEMMA SendGood ==
  ASSUME LbInv, NEW n \in 0 .. MaxBufLen, WriteSome(n)
  PROVE  OutGood
<1>1. OutType /\ BytesCounted /\ ExactUntilPartial /\ Len(writebuf) <= MaxBufLen /\ MaxBufLen \in Nat
  BY TypeParts, LinebufAssumption DEF LbInv, OutInv, BuflenBounds
<1> DEFINE N == Len(writebuf)
           a == SubSeq(writebuf, 1, n)
           b == SubSeq(writebuf, 1, N - n)
<1>2. N \in Nat /\ writebuf \in Seq(Nat) /\ n \in Nat /\ n <= N
  BY <1>1 DEF WriteSome, OutType
<1>3. a \in Seq(Nat) /\ Len(a) = n
  <2>1. n \in Int /\ 1 \in Int /\ \A i \in 1 .. n : writebuf[i] \in Nat
    BY <1>2
  <2>2. a \in Seq(Nat) /\ Len(a) = IF 1 <= n THEN n - 1 + 1 ELSE 0
    BY ONLY <2>1, SubSeqProperties
  <2> HIDE DEF a
  <2> QED
    BY <1>2, <2>2
<1>4. b \in Seq(Nat) /\ Len(b) = N - n
  <2> DEFINE k == N - n
  <2>1. k \in Nat /\ k <= N
    BY <1>2
  <2> HIDE DEF k
  <2>2. k \in Int /\ 1 \in Int /\ \A i \in 1 .. k : writebuf[i] \in Nat
    BY <1>2, <2>1
  <2>3. /\ SubSeq(writebuf, 1, k) \in Seq(Nat)
        /\ Len(SubSeq(writebuf, 1, k)) = IF 1 <= k THEN k - 1 + 1 ELSE 0
    BY ONLY <2>2, SubSeqProperties
  <2>4. SubSeq(writebuf, 1, k) \in Seq(Nat) /\ Len(SubSeq(writebuf, 1, k)) = k
    BY <2>1, <2>3
  <2> QED
    BY <2>4 DEF k
<1>5. /\ sent' = sent \o a /\ writebuf' = b /\ WriteDone(needwrite')
      /\ needwrite' = (needwrite \/ n < N) /\ partial' = (partial \/ n < N)
      /\ UNCHANGED <<attached, flags, isclosed, error, rvars, written>>
  BY DEF WriteSome, AfterSend
<1> HIDE DEF N, a, b
<1>6. sent' \in Seq(Nat) /\ Len(sent') = Len(sent) + n /\ Len(sent) \in Nat
  <2>1. sent \in Seq(Nat)
    BY <1>1 DEF OutType
  <2>2. sent \o a \in Seq(Nat) /\ Len(sent \o a) = Len(sent) + Len(a)
    BY ONLY <1>3, <2>1, ConcatProperties
  <2> QED
    BY <1>3, <1>5, <2>1, <2>2
<1>7. BytesCounted' /\ Len(writebuf') <= MaxBufLen
  <2>1. /\ Len(writebuf') = N - n /\ Len(sent') = Len(sent) + n /\ Len(sent) \in Nat
        /\ written' = written /\ written \in Nat /\ Len(sent) + N = written
    BY <1>1, <1>4, <1>5, <1>6 DEF BytesCounted, OutType, N
  <2>2. N <= MaxBufLen
    BY <1>1 DEF N
  <2> QED
    BY <1>1, <1>2, <2>1, <2>2 DEF BytesCounted
<1>8. /\ selected' \subseteq Directions /\ shutdown' \in {"none", "flushed", "broken"}
      /\ writebuf' # << >> => "write" \in selected'
  BY <1>1, <1>5, WriteDoneGood DEF OutType
<1>9. needwrite' \in BOOLEAN /\ partial' \in BOOLEAN
  BY <1>1, <1>5 DEF OutType
<1>10. OutType'
  BY <1>1, <1>4, <1>5, <1>6, <1>8, <1>9 DEF OutType
<1>11. ExactUntilPartial'
  <2>1. SUFFICES ASSUME ~partial'
                 PROVE  (SentInOrder /\ \A i \in DOMAIN writebuf : writebuf[i] = Len(sent) + i)'
    BY Zenon DEF ExactUntilPartial
  <2>2. ~partial /\ ~(n < N)
    BY <1>5, <2>1
  <2>3. n = N
    BY <1>2, <2>2
  <2>4. /\ \A i \in 1 .. Len(sent) : sent[i] = i
        /\ \A i \in 1 .. N : writebuf[i] = Len(sent) + i
    BY <1>1, <2>2 DEF ExactUntilPartial, SentInOrder, OutType, N
  <2>5. sent \in Seq(Nat)
    BY <1>1 DEF OutType
  <2>6. \A i \in 1 .. n : a[i] = writebuf[i]
    <3>1. \A i \in 1 .. n : writebuf[i] \in Nat
      BY <1>2 DEF N
    <3>2. n \in Int /\ 1 \in Int
      BY <1>2
    <3>3. \A i \in 1 .. n - 1 + 1 : SubSeq(writebuf, 1, n)[i] = writebuf[1 + i - 1]
      BY ONLY <3>1, <3>2, SubSeqProperties
    <3> QED
      BY <1>2, <3>3 DEF a
  <2>7. /\ \A i \in 1 .. Len(sent) : sent'[i] = sent[i]
        /\ \A i \in Len(sent) + 1 .. Len(sent) + n : sent'[i] = a[i - Len(sent)]
    BY ONLY <1>3, <1>5, <2>5, ConcatProperties
  <2>8. ASSUME NEW i \in 1 .. Len(sent) + n PROVE sent'[i] = i
    <3>1. CASE i \in 1 .. Len(sent)
      BY <2>4, <2>7, <3>1
    <3>2. CASE i \in Len(sent) + 1 .. Len(sent) + n
      <4>1. i - Len(sent) \in 1 .. n
        BY <1>2, <1>6, <3>2
      <4>2. sent'[i] = Len(sent) + (i - Len(sent))
        BY <2>3, <2>4, <2>6, <2>7, <3>2, <4>1
      <4> QED
        BY <1>2, <1>6, <3>2, <4>2
    <3> QED
      BY <1>2, <1>6, <3>1, <3>2
  <2>9. DOMAIN sent' = 1 .. Len(sent) + n /\ DOMAIN writebuf' = {}
    <3>1. sent' \in Seq(Nat) /\ writebuf' \in Seq(Nat) /\ Len(writebuf') = 0
      BY <1>2, <1>4, <1>5, <1>6, <2>3
    <3> QED
      BY <1>2, <1>6, <3>1
  <2> QED
    BY <2>8, <2>9 DEF SentInOrder
<1> QED
  BY <1>5, <1>7, <1>8, <1>10, <1>11 DEF OutGood, WriteScheduled

LEMMA OutputActions ==
  ASSUME LbInv,
         \/ mowgli_linebuf_attach_to_eventloop \/ mowgli_linebuf_detach_from_eventloop
         \/ mowgli_linebuf_shut_down \/ WriteAgain \/ WriteFails
         \/ ReadFull \/ ReadAgain \/ ReadHangup \/ ReadFails
  PROVE  OutGood
<1>1. OutType /\ BytesCounted /\ ExactUntilPartial /\ WriteScheduled /\ Len(writebuf) <= MaxBufLen
  BY TypeParts DEF LbInv, OutInv, BuflenBounds
<1>2. CASE mowgli_linebuf_attach_to_eventloop \/ mowgli_linebuf_detach_from_eventloop
  BY <1>1, <1>2 DEF mowgli_linebuf_attach_to_eventloop, mowgli_linebuf_detach_from_eventloop,
                    OutGood, OutType, Directions, BytesCounted,
                    ExactUntilPartial, SentInOrder, WriteScheduled, wvars
<1>3. CASE mowgli_linebuf_shut_down
  BY <1>1, <1>3 DEF mowgli_linebuf_shut_down, OutGood, OutType, AllFlags, BytesCounted,
                    ExactUntilPartial, SentInOrder,
                    WriteScheduled, wvars
<1>4. CASE WriteAgain
  <2>1. /\ WriteDone(FALSE) /\ needwrite' = FALSE
        /\ UNCHANGED <<attached, flags, isclosed, error, rvars, written, sent, partial, writebuf>>
    BY <1>4 DEF WriteAgain
  <2>2. /\ selected' \subseteq Directions /\ shutdown' \in {"none", "flushed", "broken"}
        /\ writebuf' # << >> => "write" \in selected'
    BY <1>1, <2>1, WriteDoneGood DEF OutType
  <2>3. OutType'
    BY <1>1, <2>1, <2>2 DEF OutType
  <2> QED
    BY <1>1, <2>1, <2>2, <2>3 DEF OutGood, BytesCounted,
                                  ExactUntilPartial, SentInOrder, WriteScheduled
<1>5. CASE WriteFails
  BY <1>1, <1>5, ErrorTypes DEF WriteFails, OutGood, OutType, Directions, BytesCounted,
                                ExactUntilPartial, SentInOrder,
                                WriteScheduled, wvars
<1>6. CASE ReadFull
  <2>1. /\ LinebufError("READBUF_FULL")
        /\ UNCHANGED <<attached, selected, needwrite, isclosed, rvars, wvars, shutdown>>
    BY <1>6 DEF ReadFull
  <2>2. error' \in Errors /\ error'.code = error.code
    BY <1>1, <2>1, ErrorTypes DEF LinebufError, OutType
  <2>3. OutType'
    BY <1>1, <2>1, <2>2 DEF OutType, LinebufError, AllFlags, wvars
  <2> QED
    BY <1>1, <2>1, <2>2, <2>3 DEF OutGood, LinebufError, BytesCounted,
                                  ExactUntilPartial, SentInOrder, WriteScheduled, wvars
<1>7. CASE ReadAgain
  BY <1>1, <1>7 DEF ReadAgain, ReadBroken, OutGood, OutType, Directions, BytesCounted,
                    ExactUntilPartial, SentInOrder,
                    WriteScheduled, wvars
<1>8. CASE ReadHangup
  <2>1. error' \in Errors /\ error'.code = error.code
    BY <1>1, <1>8, ErrorTypes DEF ReadHangup, OutType
  <2> QED
    BY <1>1, <1>8, <2>1 DEF ReadHangup, ReadBroken, OutGood, OutType, Directions,
                            BytesCounted, ExactUntilPartial, SentInOrder, WriteScheduled, wvars
<1>9. CASE ReadFails
  BY <1>1, <1>9, ErrorTypes DEF ReadFails, ReadBroken, OutGood, OutType, Directions,
                                BytesCounted, ExactUntilPartial, SentInOrder, WriteScheduled, wvars
<1> QED
  BY <1>2, <1>3, <1>4, <1>5, <1>6, <1>7, <1>8, <1>9

-----------------------------------------------------------------------------
(* The steps that receive and scan.                                        *)

\* the output side a scan leaves alone, but for flags and error
OutKept == UNCHANGED <<attached, selected, needwrite, isclosed, wvars, shutdown>>

LEMMA OutKeptGood ==
  ASSUME OutType, BytesCounted, ExactUntilPartial, WriteScheduled, OutKept,
         flags' \subseteq AllFlags, error' \in Errors, error'.code = error.code
  PROVE  OutType' /\ BytesCounted' /\ ExactUntilPartial' /\ WriteScheduled'
  BY DEF OutType, BytesCounted, ExactUntilPartial, SentInOrder, WriteScheduled, OutKept, wvars

\* what an input step starts from
LEMMA InFacts ==
  ASSUME LbInv
  PROVE  /\ OutType /\ InType /\ BytesCounted /\ ExactUntilPartial /\ WriteScheduled /\ ScanInv /\ LinesInv
         /\ Len(readbuf) <= MaxBufLen + 1 /\ Len(writebuf) <= MaxBufLen
         /\ Len(scan) <= MaxBufLen + 1 /\ MaxBufLen \in Nat
         /\ Len(received) \in Nat /\ Len(readbuf) \in Nat /\ Len(scan) \in Nat
<1>1. OutType /\ InType /\ MaxBufLen \in Nat
  BY TypeParts, LinebufAssumption DEF LbInv
<1>2. Len(received) \in Nat /\ Len(readbuf) \in Nat /\ Len(scan) \in Nat
  BY <1>1 DEF InType
<1> QED
  BY <1>1, <1>2 DEF LbInv, OutInv, BuflenBounds

LEMMA ReadSomeStep ==
  ASSUME LbInv, NEW k \in Chunks, ReadSome(k)
  PROVE  LbInv'
<1>0. /\ OutType /\ InType /\ BytesCounted /\ ExactUntilPartial /\ WriteScheduled /\ ScanInv /\ LinesInv
      /\ Len(readbuf) <= MaxBufLen + 1 /\ Len(writebuf) <= MaxBufLen
      /\ MaxBufLen \in Nat /\ Len(received) \in Nat /\ Len(readbuf) \in Nat
  BY InFacts
<1> DEFINE R == Len(received)
           N == Len(readbuf)
           new == [i \in 1 .. Len(k) |-> R + i]
<1>1. k \in Seq(Kind) /\ Len(k) \in Nat
  <2>1. PICK m \in 1 .. MaxBufLen + 1 : k \in [1 .. m -> Sends]
    BY DEF Chunks
  <2>2. k \in [1 .. m -> Kind] /\ m \in Nat
    BY <1>0, <2>1, LinebufAssumption
  <2> QED
    BY <2>2
<1>2. new \in Seq(Nat) /\ Len(new) = Len(k) /\ \A i \in 1 .. Len(k) : new[i] = R + i
  <2>1. \A i \in 1 .. Len(k) : R + i \in Nat
    BY <1>0, <1>1
  <2> HIDE DEF R
  <2>2. new \in [1 .. Len(k) -> Nat]
    BY <2>1
  <2> QED
    BY <1>1, <2>2
<1>3. /\ pc = "idle" /\ pc' = "process" /\ N + Len(k) <= MaxBufLen + 1
      /\ received' = received \o k /\ readbuf' = readbuf \o new
      /\ scan' = readbuf' /\ linecount' = 0 /\ lines' = lines
      /\ selected' = IF needwrite THEN selected \cup {"write"} ELSE selected
      /\ UNCHANGED <<attached, flags, needwrite, isclosed, error, wvars, shutdown>>
  BY <1>0, <1>1 DEF ReadSome, ReadEvent, Room
<1> HIDE DEF new
<1>4. /\ received' \in Seq(Kind) /\ Len(received') = R + Len(k)
      /\ \A i \in 1 .. R : received'[i] = received[i]
  <2>1. received \in Seq(Kind)
    BY <1>0 DEF InType
  <2>2. /\ received \o k \in Seq(Kind) /\ Len(received \o k) = R + Len(k)
        /\ \A i \in 1 .. R + Len(k) :
             (received \o k)[i] = IF i <= R THEN received[i] ELSE k[i - R]
    BY ONLY <1>1, <2>1, ConcatProperties DEF R
  <2>3. \A i \in 1 .. R : i \in 1 .. R + Len(k) /\ i <= R
    BY <1>0, <1>1
  <2> HIDE DEF R
  <2> QED
    BY <1>3, <2>2, <2>3
<1>5. /\ readbuf' \in Seq(Nat) /\ Len(readbuf') = N + Len(k)
      /\ \A i \in 1 .. N + Len(k) : readbuf'[i] = IF i <= N THEN readbuf[i] ELSE new[i - N]
  <2>1. readbuf \in Seq(Nat)
    BY <1>0 DEF InType
  <2>2. /\ readbuf \o new \in Seq(Nat) /\ Len(readbuf \o new) = N + Len(new)
        /\ \A i \in 1 .. N + Len(new) :
             (readbuf \o new)[i] = IF i <= N THEN readbuf[i] ELSE new[i - N]
    BY ONLY <1>2, <2>1, ConcatProperties DEF N
  <2> QED
    BY <1>2, <1>3, <2>2
<1>6. /\ EndsStream(received, readbuf) /\ View = readbuf /\ Behind = R - N
      /\ View' = readbuf' /\ Behind' = Len(received') - Len(readbuf')
  BY <1>0, <1>3 DEF ScanInv, View, Behind
<1>7. /\ N <= R /\ \A i \in 1 .. N : readbuf[i] = (R - N) + i
      /\ N = R \/ Ends(received[R - N])
  BY <1>6 DEF EndsStream
<1> HIDE DEF R, N
<1>8. R \in Nat /\ N \in Nat /\ R - N \in 0 .. R /\ Behind' = R - N
  BY <1>0, <1>1, <1>4, <1>5, <1>6, <1>7 DEF R, N
<1>9. EndsStream(received', View')
  <2>1. ASSUME NEW i \in 1 .. N + Len(k) PROVE readbuf'[i] = (R - N) + i
    <3>1. CASE i <= N
      <4>1. i \in 1 .. N
        BY <1>1, <1>8, <3>1
      <4> QED
        BY <1>5, <1>7, <3>1, <4>1
    <3>2. CASE ~(i <= N)
      <4>1. i - N \in 1 .. Len(k) /\ R + (i - N) = (R - N) + i
        BY <1>1, <1>8, <3>2
      <4> QED
        BY <1>2, <1>5, <3>2, <4>1 DEF R
    <3> QED
      BY <3>1, <3>2
  <2>2. (R + Len(k)) - (N + Len(k)) = R - N /\ N + Len(k) <= R + Len(k)
    BY <1>1, <1>7, <1>8
  <2>3. N + Len(k) = R + Len(k) \/ Ends(received'[R - N])
    <3>1. N # R => R - N \in 1 .. R
      BY <1>7, <1>8
    <3> QED
      BY <1>4, <1>7, <3>1
  <2> QED
    BY <1>4, <1>5, <1>6, <2>1, <2>2, <2>3 DEF EndsStream
<1>10. ScanInv'
  BY <1>3, <1>9 DEF ScanInv
<1>11. LinesInv'
  <2>1. PICK c \in 0 .. Behind : GotTo(c) /\ (~Has("SHUTTING_DOWN") => c = Behind)
    BY <1>0 DEF LinesInv
  <2>2. /\ Got' = Got /\ Delivered' = Delivered /\ (InOrder' <=> InOrder)
        /\ (Has("SHUTTING_DOWN")' <=> Has("SHUTTING_DOWN"))
    BY <1>3 DEF Got, Delivered, InOrder, Has
  <2>3. Behind' = Behind /\ c \in 0 .. R
    BY <1>6, <1>8, <2>1 DEF R, N
  <2>4. FramesTo(received', c) = FramesTo(received, c)
    <3>1. received \in Seq(Kind) /\ (c = 0 \/ Ends(received[c]))
      BY <1>0, <2>1 DEF InType, GotTo
    <3> QED
      BY <1>1, <1>3, <2>3, <3>1, OldFrames DEF R
  <2>5. c = 0 \/ Ends(received'[c])
    <3>1. c # 0 => c \in 1 .. R
      BY <1>8, <2>3
    <3> QED
      BY <1>4, <2>1, <3>1 DEF GotTo
  <2>6. GotTo(c)'
    BY <2>1, <2>2, <2>4, <2>5 DEF GotTo
  <2> QED
    BY <1>0, <2>1, <2>2, <2>3, <2>6 DEF LinesInv
<1>12. InType'
  BY <1>0, <1>3, <1>4, <1>5 DEF InType
<1>13. OutType' /\ BytesCounted' /\ ExactUntilPartial' /\ WriteScheduled' /\ writebuf' = writebuf
  BY <1>0, <1>3 DEF OutType, Directions, BytesCounted,
                    ExactUntilPartial, SentInOrder, WriteScheduled, wvars
<1>14. OutInv'
  BY <1>0, <1>3, <1>5, <1>13 DEF OutInv, BuflenBounds, N
<1> QED
  BY <1>10, <1>11, <1>12, <1>13, <1>14, TypePartsNext DEF LbInv

(* readline_cb gets the next line, unless the client has shut down.        *)
LEMMA ProcessLineStep ==
  ASSUME LbInv, ProcessLine
  PROVE  LbInv'
<1>0. /\ OutType /\ InType /\ BytesCounted /\ ExactUntilPartial /\ WriteScheduled /\ ScanInv /\ LinesInv
      /\ Len(readbuf) <= MaxBufLen + 1 /\ Len(writebuf) <= MaxBufLen
      /\ Len(scan) <= MaxBufLen + 1 /\ MaxBufLen \in Nat
      /\ Len(received) \in Nat /\ Len(readbuf) \in Nat /\ Len(scan) \in Nat
  BY InFacts
<1> DEFINE n == NextIn(received, scan)
           d == Min(DelimsIn(received, scan))
           l == SubSeq(scan, 1, d - 1)
           b == Len(received) - Len(scan)
           e == Len(received) - Len(n)
<1>1. /\ pc = "process" /\ DelimsIn(received, scan) # {} /\ EndsStream(received, scan)
      /\ received \in Seq(Kind) /\ lines \in Seq(Seq(Nat))
  BY <1>0, SameOperators DEF ProcessLine, ScanInv, View, InType
<1>2. /\ EndsStream(received, n)
      /\ b \in Nat /\ e \in Nat /\ b < e /\ e <= Len(received) /\ Ends(received[e])
      /\ l \in Seq(Nat)
      /\ l # << >> => l[1] = b + 1
      /\ FramesTo(received, e) = FramesTo(received, b) \cup ({l} \ {<< >>})
  BY <1>1, NewFrame
<1>3. /\ linecount' = linecount + 1 /\ linecount' \in Nat /\ linecount' # 0
      /\ UNCHANGED <<attached, selected, flags, needwrite, isclosed, error,
                     readbuf, received, wvars, shutdown>>
  BY <1>0 DEF ProcessLine, InType
<1>4. OutType' /\ BytesCounted' /\ ExactUntilPartial' /\ WriteScheduled' /\ writebuf' = writebuf
  BY <1>0, <1>3, OutKeptGood DEF OutKept, OutType, wvars
<1>5. Behind = b /\ View = scan
  BY <1>1 DEF Behind, View
<1>6. PICK c \in 0 .. b : GotTo(c) /\ (~Has("SHUTTING_DOWN") => c = b)
  BY <1>0, <1>5 DEF LinesInv
<1>7. Has("SHUTTING_DOWN")' <=> Has("SHUTTING_DOWN")
  BY <1>3 DEF Has
<1> HIDE DEF n, d, l, b, e
<1>8. CASE Has("SHUTTING_DOWN")
  <2>1. scan' = n /\ lines' = lines /\ pc' = "process"
    BY <1>1, <1>8, SameOperators DEF ProcessLine, n
  <2>2. Len(n) <= Len(scan) /\ n \in Seq(Nat)
    <3>1. n \in Seq(Nat) /\ Len(n) \in Nat
      BY <1>2 DEF EndsStream
    <3> QED
      BY <1>0, <1>2, <3>1 DEF b, e
  <2>3. ScanInv'
    BY <1>2, <1>3, <2>1 DEF ScanInv, View
  <2>4. Behind' = e
    BY <1>3, <2>1 DEF Behind, View, e
  <2>5. GotTo(c)' /\ (InOrder' <=> InOrder)
    BY <1>3, <1>6, <2>1 DEF GotTo, Got, Delivered, InOrder
  <2>6. c \in 0 .. Behind'
    BY <1>2, <1>6, <2>4
  <2>7. LinesInv'
    BY <1>0, <1>7, <1>8, <2>5, <2>6 DEF LinesInv
  <2>8. InType'
    BY <1>0, <1>3, <2>1, <2>2 DEF InType
  <2>9. Len(scan') <= MaxBufLen + 1
    BY <1>0, <2>1, <2>2
  <2>10. OutInv'
    BY <1>0, <1>3, <1>4, <2>9 DEF OutInv, BuflenBounds
  <2> QED
    BY <1>4, <2>3, <2>7, <2>8, <2>10, TypePartsNext DEF LbInv
<1>9. CASE ~Has("SHUTTING_DOWN")
  <2>1. scan' = scan /\ lines' = Append(lines, l) /\ pc' = "line"
    BY <1>9, SameOperators DEF ProcessLine, l, d
  <2> DEFINE M == Len(lines)
  <2>2. /\ lines' \in Seq(Seq(Nat)) /\ DOMAIN lines' = 1 .. M + 1 /\ DOMAIN lines = 1 .. M
        /\ M \in Nat /\ lines'[M + 1] = l /\ \A i \in 1 .. M : lines'[i] = lines[i]
    BY <1>1, <1>2, <2>1
  <2> HIDE DEF M
  <2>3. Delivered' = Delivered \cup (IF l = << >> THEN {} ELSE {M + 1})
    <3>1. \A i \in 1 .. M + 1 : i \in 1 .. M \/ i = M + 1
      BY <2>2
    <3>2. \A i \in 1 .. M : i \in 1 .. M + 1
      BY <2>2
    <3>3. M + 1 \in 1 .. M + 1
      BY <2>2
    <3> QED
      BY <2>2, <3>1, <3>2, <3>3 DEF Delivered
  <2>4. Delivered \subseteq 1 .. M
    BY <2>2 DEF Delivered
  <2>5. Got' = Got \cup ({l} \ {<< >>})
    BY <2>2, <2>3, <2>4 DEF Got
  <2>6. Got = FramesTo(received, b)
    BY <1>6, <1>9 DEF GotTo
  <2>7. Got' = FramesTo(received', e) /\ Ends(received'[e])
    BY <1>2, <1>3, <2>5, <2>6
  <2>8. Behind' = e /\ View' = scan
    BY <1>3, <2>1 DEF Behind, View, e, n
  <2>9. InOrder'
    <3>1. ASSUME NEW i \in Delivered PROVE lines[i][1] \in Nat /\ lines[i][1] <= b
      <4>1. lines[i] \in FramesTo(received, b)
        BY <2>6 DEF Got
      <4>2. PICK p \in DOMAIN received, q \in DOMAIN received :
                   LineIn(received, p, q) /\ lines[i] = Span(p, q)
        BY <4>1, FrameMember DEF FramesTo
      <4>3. p \in Nat /\ q \in Nat /\ p < q
        BY <1>1, <4>2 DEF LineIn
      <4>4. lines[i][1] = p
        BY <4>2, <4>3, SpanFields
      <4> QED
        BY <4>1, <4>3, <4>4 DEF FramesTo
    <3>2. SUFFICES ASSUME NEW i \in Delivered', NEW j \in Delivered', i < j
                   PROVE  lines'[i][1] < lines'[j][1]
      BY DEF InOrder
    <3>3. i \in 1 .. M + 1 /\ j \in 1 .. M + 1
      BY <2>2, <2>3, <2>4
    <3>4. i \in 1 .. M
      BY <2>2, <3>2, <3>3
    <3>5. i \in Delivered /\ lines'[i] = lines[i]
      <4>1. i # M + 1
        BY <2>2, <3>4
      <4> QED
        BY <2>2, <2>3, <3>2, <3>4, <4>1
    <3>6. CASE j \in Delivered
      <4>1. lines'[j] = lines[j]
        BY <2>2, <2>4, <3>6
      <4>2. InOrder
        BY <1>0 DEF LinesInv
      <4> QED
        BY <3>2, <3>5, <3>6, <4>1, <4>2 DEF InOrder
    <3>7. CASE j \notin Delivered
      <4>1. j = M + 1 /\ l # << >>
        BY <2>3, <3>2, <3>7
      <4>2. lines'[j][1] = b + 1
        BY <1>2, <2>2, <4>1
      <4> QED
        BY <1>2, <3>1, <3>5, <4>2
    <3> QED
      BY <3>6, <3>7
  <2>10. LinesInv'
    <3>0. PICK x \in Nat : x = e
      BY <1>2
    <3>1. x \in 0 .. Behind' /\ GotTo(x)' /\ x = Behind'
      BY <1>2, <2>7, <2>8, <3>0 DEF GotTo
    <3> QED
      BY <2>9, <3>1 DEF LinesInv
  <2>11. ScanInv'
    BY <1>1, <1>3, <2>1, <2>8 DEF ScanInv
  <2>12. InType'
    BY <1>0, <1>3, <2>1, <2>2 DEF InType
  <2>13. OutInv'
    BY <1>0, <1>3, <1>4, <2>1 DEF OutInv, BuflenBounds
  <2> QED
    BY <1>4, <2>10, <2>11, <2>12, <2>13, TypePartsNext DEF LbInv
<1> QED
  BY <1>8, <1>9

LEMMA LineReturnStep ==
  ASSUME LbInv, LineReturn
  PROVE  LbInv'
<1>0. /\ OutType /\ InType /\ BytesCounted /\ ExactUntilPartial /\ WriteScheduled /\ ScanInv /\ LinesInv
      /\ Len(readbuf) <= MaxBufLen + 1 /\ Len(writebuf) <= MaxBufLen
      /\ Len(scan) <= MaxBufLen + 1 /\ MaxBufLen \in Nat
      /\ Len(received) \in Nat /\ Len(readbuf) \in Nat /\ Len(scan) \in Nat
  BY InFacts
<1> DEFINE n == NextIn(received, scan)
<1>1. /\ pc = "line" /\ DelimsIn(received, scan) # {} /\ EndsStream(received, scan)
      /\ received \in Seq(Kind) /\ linecount # 0
  BY <1>0 DEF LineReturn, ScanInv, View, InType
<1>2. /\ scan' = n /\ pc' = "process"
      /\ UNCHANGED <<attached, selected, flags, needwrite, isclosed, error,
                     readbuf, linecount, received, lines, wvars, shutdown>>
  BY SameOperators DEF LineReturn
<1>3. EndsStream(received, n) /\ Len(received) - Len(scan) < Len(received) - Len(n)
  BY <1>1, NewFrame
<1>4. n \in Seq(Nat) /\ Len(n) \in Nat /\ Len(n) <= Len(scan)
  <2>1. n \in Seq(Nat)
    BY <1>3 DEF EndsStream
  <2> HIDE DEF n
  <2>2. Len(n) \in Nat
    BY <2>1
  <2> QED
    BY <1>0, <1>3, <2>1, <2>2
<1>5. Behind' = Behind /\ View' = n
  BY <1>1, <1>2 DEF Behind, View
<1> HIDE DEF n
<1>6. OutType' /\ BytesCounted' /\ ExactUntilPartial' /\ WriteScheduled' /\ writebuf' = writebuf
  BY <1>0, <1>2, OutKeptGood DEF OutKept, OutType, wvars
<1>7. ScanInv'
  BY <1>1, <1>2, <1>3, <1>5 DEF ScanInv
<1>8. PICK c \in 0 .. Behind : GotTo(c) /\ (~Has("SHUTTING_DOWN") => c = Behind)
  BY <1>0 DEF LinesInv
<1>9. /\ GotTo(c)' /\ (InOrder' <=> InOrder)
      /\ Has("SHUTTING_DOWN")' <=> Has("SHUTTING_DOWN")
  BY <1>2, <1>8 DEF GotTo, Got, Delivered, InOrder, Has
<1>10. LinesInv'
  BY <1>0, <1>5, <1>8, <1>9 DEF LinesInv
<1>11. InType'
  BY <1>0, <1>2, <1>4 DEF InType
<1>12. OutInv'
  BY <1>0, <1>2, <1>4, <1>6 DEF OutInv, BuflenBounds
<1> QED
  BY <1>6, <1>7, <1>10, <1>11, <1>12, TypePartsNext DEF LbInv

(* The end of the scan.  A full buffer without a line is kept whole, and   *)
(* is what is left of it, too.                                             *)
LEMMA ProcessDoneStep ==
  ASSUME LbInv, ProcessDone
  PROVE  LbInv'
<1>0. /\ OutType /\ InType /\ BytesCounted /\ ExactUntilPartial /\ WriteScheduled /\ ScanInv /\ LinesInv
      /\ Len(readbuf) <= MaxBufLen + 1 /\ Len(writebuf) <= MaxBufLen
      /\ Len(scan) <= MaxBufLen + 1 /\ MaxBufLen \in Nat
      /\ Len(received) \in Nat /\ Len(readbuf) \in Nat /\ Len(scan) \in Nat
  BY InFacts
<1>1. /\ pc = "process" /\ DelimsIn(received, scan) = {} /\ EndsStream(received, scan)
      /\ linecount = 0 => scan = readbuf
  BY <1>0, SameOperators DEF ProcessDone, ScanInv, View
<1>2. /\ pc' = "idle" /\ scan' = << >>
      /\ UNCHANGED <<attached, selected, needwrite, isclosed, linecount,
                     received, lines, wvars, shutdown>>
  BY DEF ProcessDone
<1>3. readbuf' = scan
  BY <1>1 DEF ProcessDone, Leftover
<1>4. \/ LinebufError("READBUF_FULL")
      \/ UNCHANGED <<flags, error>>
  BY DEF ProcessDone
<1>5. flags' \subseteq AllFlags /\ error' \in Errors /\ error'.code = error.code
      /\ (Has("SHUTTING_DOWN")' <=> Has("SHUTTING_DOWN"))
  BY <1>0, <1>4, ErrorTypes DEF LinebufError, OutType, AllFlags, Has
<1>6. OutType' /\ BytesCounted' /\ ExactUntilPartial' /\ WriteScheduled' /\ writebuf' = writebuf
  BY <1>0, <1>2, <1>5, OutKeptGood DEF OutKept, wvars
<1>7. Behind' = Behind /\ View' = scan
  BY <1>1, <1>2, <1>3 DEF Behind, View
<1>8. ScanInv'
  BY <1>1, <1>2, <1>3, <1>7 DEF ScanInv
<1>9. PICK c \in 0 .. Behind : GotTo(c) /\ (~Has("SHUTTING_DOWN") => c = Behind)
  BY <1>0 DEF LinesInv
<1>10. GotTo(c)' /\ (InOrder' <=> InOrder)
  BY <1>2, <1>9 DEF GotTo, Got, Delivered, InOrder
<1>11. LinesInv'
  BY <1>0, <1>5, <1>7, <1>9, <1>10 DEF LinesInv
<1>12. InType'
  <2>1. << >> \in Seq(Nat)
    OBVIOUS
  <2> QED
    BY <1>0, <1>2, <1>3, <2>1 DEF InType
<1>13. OutInv'
  <2>1. Len(scan') <= MaxBufLen + 1
    BY <1>0, <1>2
  <2> QED
    BY <1>0, <1>3, <1>6, <2>1 DEF OutInv, BuflenBounds
<1> QED
  BY <1>6, <1>8, <1>11, <1>12, <1>13, TypePartsNext DEF LbInv

LEMMA LbStep == LbInv /\ [Next]_vars => LbInv'
<1> SUFFICES ASSUME LbInv, [Next]_vars PROVE LbInv'
  OBVIOUS
<1>1. CASE \/ mowgli_linebuf_attach_to_eventloop \/ mowgli_linebuf_detach_from_eventloop
           \/ mowgli_linebuf_shut_down \/ WriteAgain \/ WriteFails
           \/ ReadFull \/ ReadAgain \/ ReadHangup \/ ReadFails
  BY <1>1, OutputActions, OutStep
<1>2. CASE \E len \in 1 .. MaxBufLen : mowgli_linebuf_write(len)
  BY <1>2, WriteGood, OutStep
<1>3. CASE Flush
  BY <1>3, SendGood, OutStep DEF Flush
<1>4. CASE \E k \in Chunks : ReadSome(k)
  BY <1>4, ReadSomeStep
<1>5. CASE Process
  BY <1>5, ProcessLineStep, LineReturnStep, ProcessDoneStep DEF Process
<1>6. CASE UNCHANGED vars
  <2>1. OutGood
    <3>1. OutType /\ BytesCounted /\ ExactUntilPartial /\ WriteScheduled /\ Len(writebuf) <= MaxBufLen
      BY TypeParts DEF LbInv, OutInv, BuflenBounds
    <3> QED
      BY <1>6, <3>1 DEF vars, wvars, OutGood, OutType, BytesCounted,
                        ExactUntilPartial, SentInOrder, WriteScheduled
  <2> QED
    BY <2>1, OutStep
<1> QED
  BY <1>1, <1>2, <1>3, <1>4, <1>5, <1>6 DEF Next

\* The lines readline_cb gets are those of the stream, in order and each
\* once, however recv() cuts it.  What send() took is what was written, in
\* order, until it takes a part of the buffer; what is in the buffer has an
\* event that it waits for; recv() stores at most one byte past the read
\* buffer.  For every size of the buffers and of the line ending and any
\* number of bytes.
THEOREM LinebufIsExact == Spec => []LinebufExact
<1>1. Spec => []LbInv
  BY LbInit, LbStep, PTL DEF Spec
<1> QED
  BY <1>1, LbExact, PTL

\* shutdown_cb reports an orderly shutdown only when the write buffer is
\* empty.
THEOREM FlushedBeforeShutdown == Spec => ShutdownAfterFlush
<1>1. LbInv /\ [Next]_vars =>
        [shutdown' = "flushed" /\ shutdown # "flushed" => writebuf' = << >>]_vars
  <2> SUFFICES ASSUME LbInv, Next, shutdown' = "flushed", shutdown # "flushed"
               PROVE  writebuf' = << >>
    BY DEF vars
  <2>1. selected \subseteq Directions /\ shutdown \in {"none", "flushed", "broken"}
    BY TypeParts DEF LbInv, OutType
  <2>2. CASE \/ mowgli_linebuf_attach_to_eventloop \/ mowgli_linebuf_detach_from_eventloop
             \/ mowgli_linebuf_shut_down
    BY <2>2 DEF mowgli_linebuf_attach_to_eventloop, mowgli_linebuf_detach_from_eventloop,
                mowgli_linebuf_shut_down, wvars
  <2>3. CASE \E len \in 1 .. MaxBufLen : mowgli_linebuf_write(len)
    BY <2>3 DEF mowgli_linebuf_write
  <2>4. CASE Flush
    <3>1. PICK n \in 0 .. MaxBufLen : WriteSome(n)
      BY <2>4 DEF Flush
    <3>2. WriteDone(needwrite')
      BY <3>1 DEF WriteSome
    <3> QED
      BY <2>1, <3>2, WriteDoneGood
  <2>5. CASE WriteAgain
    <3>1. WriteDone(FALSE)
      BY <2>5 DEF WriteAgain
    <3> QED
      BY <2>1, <3>1, WriteDoneGood
  <2>6. CASE WriteFails \/ ReadFull \/ ReadAgain \/ ReadHangup \/ ReadFails
    BY <2>6 DEF WriteFails, ReadFull, ReadAgain, ReadHangup, ReadFails, ReadBroken
  <2>7. CASE (\E k \in Chunks : ReadSome(k)) \/ Process
    BY <2>7 DEF ReadSome, Process, ProcessLine, LineReturn, ProcessDone
  <2> QED
    BY <2>2, <2>3, <2>4, <2>5, <2>6, <2>7 DEF Next
<1>2. Spec => []LbInv
  BY LbInit, LbStep, PTL DEF Spec
<1> QED
  BY <1>1, <1>2, PTL DEF Spec, ShutdownAfterFlush
=============================================================================
