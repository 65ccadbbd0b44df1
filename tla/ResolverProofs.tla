--------------------------- MODULE ResolverProofs ---------------------------
(* Proofs about the asynchronous resolver, for every set of queries,       *)
(* identifiers and servers, every number of retries and any loss,          *)
(* duplication and reordering of datagrams.                                *)
EXTENDS Resolver, ListProofs, SequenceTheorems, TLAPS

-----------------------------------------------------------------------------
(* The inductive invariant.                                                *)

\* the request in whose callback timeout_query_list is
InCallback(r) == in_callback /\ r = ptr

\* a request on the list asks for the name of its query, and each send after
\* the first has cost it a retry
RequestInv ==
  \A r \in Listed :
    /\ request[r].query \in Query
    /\ request[r].queryname = <<request[r].type, request[r].query>>
    /\ request[r].sends <= Retries
    /\ ~InCallback(r) => /\ request[r].retries >= 1
                         /\ request[r].sends <= 1 + Retries - request[r].retries

\* the pointers of timeout_query_list are on the list, and differ
PassInv ==
  /\ in_callback => passing /\ ptr # Null
  /\ passing => /\ {ptr, next_ptr} \ {Null} \subseteq Listed
                /\ ptr # Null => ptr # next_ptr

\* the requests whose query still waits: each query that is pending has one
Active == {r \in Listed : ~InCallback(r)}

Owned ==
  /\ \A r \in Active : outcome[request[r].query] = "pending"
  /\ \A r1, r2 \in Active : request[r1].query = request[r2].query => r1 = r2
  /\ \A q \in Query : outcome[q] = "pending" => \E r \in Active : request[r].query = q

CoreInv ==
  /\ Injective(request_list)
  /\ RequestInv
  /\ Owned
  /\ IdsUnique
  /\ AnswerIsForQuery

IInv == TypeOK /\ CoreInv /\ PassInv

RequestType ==
  [query : Query \cup {Null}, type : {"A", "PTR"}, queryname : Name \cup {Null},
   id : Id, retries : 0 .. Retries, sends : Nat, sentat : Nat,
   timeout : Nat, lastns : Ns]

\* the part of TypeOK that is about the requests, the queries and the servers
DataType ==
  /\ request_list \in Seq(Request)
  /\ request \in [Request -> RequestType]
  /\ timeout_count \in [Ns -> Nat]
  /\ retrycnt \in Nat
  /\ up \subseteq Ns
  /\ sent \subseteq Packet
  /\ outcome \in [Query -> {"none", "pending", "deleted", "dropped"} \cup Result]
  /\ answered \in [Query -> Name \cup {Null}]

\* the part of it that is about time and the pass
PassType ==
  /\ now \in Nat /\ timer \in Nat /\ next_time \in Nat
  /\ ptr \in Request \cup {Null} /\ next_ptr \in Request \cup {Null}

LEMMA TypeParts ==
  TypeOK <=> DataType /\ PassType /\ passing \in BOOLEAN /\ in_callback \in BOOLEAN
  BY Zenon DEF TypeOK, DataType, PassType, RequestType

LEMMA Constants ==
  /\ Null \notin Request /\ Zero \in Id
  /\ NsCount \in Nat \ {0} /\ Retries \in Nat \ {0} /\ InitialTimeout \in Nat \ {0}
  /\ AR_TTL \in Nat \ {0} /\ MaxTime \in Nat
  BY ResolverAssumption, Zenon

LEMMA ListedType ==
  ASSUME DataType
  PROVE  Listed \subseteq Request /\ ToSet(request_list) = Listed
  BY DEF DataType, Listed, ToSet

LEMMA FreedRequestType == FreedRequest \in RequestType
<1>1. 0 \in Ns
  BY Constants DEF Ns
<1> QED
  BY <1>1, Constants DEF FreedRequest, RequestType

-----------------------------------------------------------------------------
(* Sending.                                                                *)

LEMMA FirstOfIn ==
  ASSUME NEW S \in SUBSET Ns, S # {}, NEW rcount \in Nat
  PROVE  FirstOf(rcount, S) \in S
<1> DEFINE Offset(ns) == (ns - rcount + 1) % NsCount
           D == {Offset(ns) : ns \in S}
<1>1. \A ns \in S : Offset(ns) \in Nat
  BY Constants DEF Ns
<1>2. D \in SUBSET Nat /\ D # {}
  BY <1>1
<1>3. Min(D) \in D /\ \A d \in D : Min(D) <= d
  BY <1>2, NatMin
<1>4. PICK ns \in S : Offset(ns) = Min(D)
  BY <1>3
<1>5. \A m \in S : Offset(ns) <= Offset(m)
  BY <1>3, <1>4
<1> QED
  BY <1>5 DEF FirstOf

LEMMA SendResult ==
  ASSUME DataType, NEW rcount \in Nat
  PROVE  /\ send_res_msg(rcount) \in Ns \cup {-1}
         /\ up # {} => send_res_msg(rcount) \in Ns
<1> DEFINE first  == {ns \in up : \/ timeout_count[ns] = 0
                                  \/ (retrycnt + 1) % retryfreq(timeout_count[ns]) = 0}
           second == {ns \in up : timeout_count[ns] # 0}
<1>1. first \in SUBSET Ns /\ second \in SUBSET Ns
  BY DEF DataType
<1>2. up # {} => first # {} \/ second # {}
  OBVIOUS
<1>3. send_res_msg(rcount) = IF first # {} THEN FirstOf(rcount, first)
                             ELSE IF second # {} THEN FirstOf(rcount, second) ELSE -1
  BY DEF send_res_msg
<1> HIDE DEF first, second
<1>4. first # {} => FirstOf(rcount, first) \in Ns
  BY <1>1, FirstOfIn
<1>5. second # {} => FirstOf(rcount, second) \in Ns
  BY <1>1, FirstOfIn
<1> QED
  BY <1>2, <1>3, <1>4, <1>5

\* query_name changes the id and the sends of one request: it is sent with an
\* id no request on the list has, or, when res_mkquery fails, not at all
LEMMA QueryName ==
  ASSUME DataType, NEW req \in [Request -> RequestType], NEW r \in Request,
         req[r].queryname \in Name,
         NEW list, r \in ToSet(list), NEW res \in query_name(r, req, list)
  PROVE  /\ res.request \in [Request -> RequestType]
         /\ \A x \in Request \ {r} : res.request[x] = req[x]
         /\ res.request[r].query = req[r].query
         /\ res.request[r].type = req[r].type
         /\ res.request[r].queryname = req[r].queryname
         /\ res.request[r].retries = req[r].retries
         /\ \/ res.request[r] = req[r]
            \/ /\ res.request[r].sends = req[r].sends + 1
               /\ \A x \in ToSet(list) : req[x].id # res.request[r].id
               /\ up # {} => \E p \in res.sent : /\ p.id = res.request[r].id
                                                 /\ p.name = res.request[r].queryname
         /\ res.sent \subseteq Packet
         /\ res.retrycnt \in Nat
<1> DEFINE sends == req[r].sends + 1
           ns == send_res_msg(sends)
<1>1. CASE MayFail /\ res = [request |-> req, sent |-> sent, retrycnt |-> retrycnt]
  BY <1>1 DEF DataType
<1>2. CASE ~(MayFail /\ res = [request |-> req, sent |-> sent, retrycnt |-> retrycnt])
  <2>1. PICK id \in FreshIds(list, req) :
          res = [request  |-> [req EXCEPT ![r].id = id, ![r].sends = sends,
                                          ![r].lastns = IF ns # -1 THEN ns ELSE @],
                 sent     |-> IF ns = -1 THEN sent
                              ELSE sent \cup {[id |-> id, name |-> req[r].queryname, ns |-> ns]},
                 retrycnt |-> retrycnt + 1]
    BY <1>2 DEF query_name
  <2>2. req[r] \in RequestType /\ sends \in Nat
    BY DEF RequestType
  <2>3. ns \in Ns \cup {-1} /\ (up # {} => ns \in Ns)
    BY <2>2, SendResult
  <2>4. -1 \notin Ns
    BY Constants DEF Ns
  <2>5. id \in Id /\ \A x \in ToSet(list) : req[x].id # id
    BY <2>1 DEF FreshIds
  <2> HIDE DEF sends, ns
  <2>6. /\ res.request \in [Request -> RequestType]
        /\ \A x \in Request \ {r} : res.request[x] = req[x]
        /\ res.request[r].query = req[r].query
        /\ res.request[r].type = req[r].type
        /\ res.request[r].queryname = req[r].queryname
        /\ res.request[r].retries = req[r].retries
        /\ res.request[r].sends = sends
        /\ res.request[r].id = id
    BY <2>1, <2>2, <2>3, <2>5 DEF RequestType
  <2>7. res.sent \subseteq Packet /\ res.retrycnt \in Nat
    BY <2>1, <2>3, <2>5 DEF DataType, Packet
  <2>8. up # {} => \E p \in res.sent : p.id = id /\ p.name = req[r].queryname
    <3> DEFINE p == [id |-> id, name |-> req[r].queryname, ns |-> ns]
    <3>1. up # {} => p \in res.sent
      BY <2>1, <2>3, <2>4
    <3>2. p.id = id /\ p.name = req[r].queryname
      OBVIOUS
    <3> HIDE DEF p
    <3> QED
      BY <3>1, <3>2
  <2> QED
    BY <2>5, <2>6, <2>7, <2>8 DEF sends
<1> QED
  BY <1>1, <1>2

-----------------------------------------------------------------------------
(* Steps that change no request.                                           *)

LEMMA CoreFrame ==
  ASSUME CoreInv, UNCHANGED <<request_list, request, outcome, answered, in_callback>>,
         in_callback => UNCHANGED ptr
  PROVE  CoreInv' /\ Listed' = Listed
<1>1. Listed' = Listed
  BY DEF Listed
<1>2. Active' = Active /\ \A r \in Listed : InCallback(r)' = InCallback(r)
  BY <1>1 DEF Active, InCallback
<1>3. RequestInv'
  BY <1>1, <1>2 DEF CoreInv, RequestInv
<1>4. Owned' /\ IdsUnique' /\ AnswerIsForQuery' /\ Injective(request_list)'
  BY <1>1, <1>2 DEF CoreInv, Owned, IdsUnique, AnswerIsForQuery, Injective
<1> QED
  BY <1>1, <1>3, <1>4 DEF CoreInv

\* Expires and Sooner are times
LEMMA ExpiresType ==
  ASSUME DataType, PassType, NEW r \in Request
  PROVE  Expires(r) \in Nat /\ Sooner(Expires(r)) \in Nat
<1>1. request[r] \in RequestType
  BY DEF DataType
<1>2. Expires(r) \in Nat
  BY <1>1 DEF Expires, RequestType
<1> QED
  BY <1>2 DEF Sooner, PassType

\* the pass moves on over a list that still holds next_ptr
LEMMA AdvanceInv ==
  ASSUME Advance, request_list' \in Seq(Request), Injective(request_list)',
         next_ptr \in Listed' \cup {Null}, ~in_callback'
  PROVE  PassInv' /\ ptr' \in Request \cup {Null} /\ next_ptr' \in Request \cup {Null}
<1>1. ptr' = next_ptr /\ next_ptr' = NextNode(request_list', next_ptr, Null)
  BY DEF Advance
<1>2. next_ptr' \in Listed' \cup {Null} /\ (next_ptr # Null => next_ptr' # next_ptr)
  BY <1>1, NextOnList, Constants DEF Listed, Injective
<1>3. Listed' \subseteq Request
  BY DEF Listed, ToSet
<1> QED
  BY <1>1, <1>2, <1>3 DEF PassInv

LEMMA QuietStep ==
  ASSUME IInv, timeout_resolver \/ NotExpired \/ Rescheduled \/ Tick \/ Network
  PROVE  DataType' /\ PassType' /\ CoreInv' /\ PassInv'
<1>0. DataType /\ PassType /\ CoreInv /\ PassInv
  BY TypeParts DEF IInv
<1>1. CASE timeout_resolver
  <2>1. /\ UNCHANGED <<now, timer, request_list, request, svars, outcome, answered, in_callback>>
        /\ next_time' = 0 /\ ptr' = HeadNode(request_list, Null)
        /\ next_ptr' = NextNode(request_list, ptr', Null) /\ ~in_callback
    BY <1>0, <1>1 DEF timeout_resolver, Idle, PassInv
  <2>2. CoreInv' /\ Listed' = Listed
    BY <1>0, <2>1, CoreFrame
  <2>3. DataType'
    BY <1>0, <2>1 DEF DataType, svars
  <2>4. ptr' \in Listed \cup {Null} /\ Listed \subseteq Request
    BY <1>0, <2>1, HeadOnList DEF DataType, Listed, ToSet
  <2>5. next_ptr' \in Listed \cup {Null} /\ (ptr' # Null => ptr' # next_ptr')
    BY <1>0, <2>1, <2>4, NextOnList, Constants DEF DataType, CoreInv, Listed
  <2>6. PassType'
    BY <1>0, <2>1, <2>4, <2>5 DEF PassType
  <2> QED
    BY <2>1, <2>2, <2>3, <2>4, <2>5, <2>6 DEF PassInv
<1>2. CASE NotExpired
  <2>1. /\ UNCHANGED <<now, timer, request_list, request, svars, outcome, answered, in_callback>>
        /\ ~in_callback /\ passing /\ ptr # Null
        /\ next_time' = Sooner(Expires(ptr)) /\ Advance
    BY <1>2 DEF NotExpired, AtRequest
  <2>2. CoreInv' /\ Listed' = Listed
    BY <1>0, <2>1, CoreFrame
  <2>3. DataType'
    BY <1>0, <2>1 DEF DataType, svars
  <2>4. next_ptr \in Listed' \cup {Null}
    BY <1>0, <2>1, <2>2 DEF PassInv
  <2>5. PassInv' /\ ptr' \in Request \cup {Null} /\ next_ptr' \in Request \cup {Null}
    BY <2>1, <2>2, <2>3, <2>4, AdvanceInv DEF DataType, CoreInv
  <2>6. next_time' \in Nat
    BY <1>0, <2>1, ExpiresType DEF PassType
  <2> QED
    BY <1>0, <2>1, <2>2, <2>3, <2>5, <2>6 DEF PassType
<1>3. CASE Rescheduled
  <2>1. /\ UNCHANGED <<now, request_list, request, svars, outcome, answered, ptr, next_ptr,
                       in_callback>>
        /\ next_time' = 0 /\ timer' = NextCheck /\ ptr = Null /\ ~passing'
    BY <1>3 DEF Rescheduled
  <2>2. CoreInv' /\ Listed' = Listed
    BY <1>0, <2>1, CoreFrame
  <2>3. timer' \in Nat
    BY <1>0, <2>1, Constants DEF NextCheck, PassType
  <2> QED
    BY <1>0, <2>1, <2>2, <2>3 DEF DataType, PassType, PassInv, svars
<1>4. CASE Tick \/ Network
  <2>1. /\ UNCHANGED <<timer, request_list, request, outcome, answered, passvars,
                       timeout_count, retrycnt, sent>>
        /\ now' \in {now, now + 1} /\ up' \subseteq Ns
    BY <1>0, <1>4 DEF Tick, Network, svars, DataType
  <2>2. CoreInv' /\ Listed' = Listed
    BY <1>0, <2>1, CoreFrame DEF passvars
  <2> QED
    BY <1>0, <2>1, <2>2 DEF DataType, PassType, PassInv, passvars
<1> QED
  BY <1>1, <1>2, <1>3, <1>4

-----------------------------------------------------------------------------
(* Steps that change requests.                                             *)

LEMMA NewRequestType ==
  ASSUME PassType, NEW q \in Query, NEW type \in {"A", "PTR"}
  PROVE  NewRequest(q, type) \in RequestType
<1>1. 0 \in Ns /\ Retries \in 0 .. Retries /\ <<type, q>> \in Name
  BY Constants DEF Ns, Name
<1> QED
  BY <1>1, Constants DEF NewRequest, RequestType, PassType

\* what appending a request to the list does
LEMMA AppendRequest ==
  ASSUME NEW list \in Seq(Request), Injective(list), NEW r \in Request \ ToSet(list)
  PROVE  /\ Append(list, r) \in Seq(Request)
         /\ ToSet(Append(list, r)) = ToSet(list) \cup {r}
         /\ Injective(Append(list, r))
  BY SnocSet DEF Injective

\* what taking a request off the list does
LEMMA UnlinkRequest ==
  ASSUME NEW list \in Seq(Request), Injective(list), NEW r \in ToSet(list)
  PROVE  /\ Unlink(list, r) \in Seq(Request)
         /\ ToSet(Unlink(list, r)) = ToSet(list) \ {r}
         /\ Injective(Unlink(list, r))
  BY UnlinkSet DEF Injective

LEMMA LookupInv ==
  ASSUME IInv, NEW q \in Query, NEW type \in {"A", "PTR"}, Lookup(q, type)
  PROVE  DataType' /\ PassType' /\ CoreInv' /\ PassInv'
<1>0. DataType /\ PassType /\ CoreInv /\ PassInv
  BY TypeParts DEF IInv
<1>1. PICK r \in Request \ Listed :
        /\ request_list' = Append(request_list, r)
        /\ LET req == [request EXCEPT ![r] = NewRequest(q, type)]
           IN  \E res \in query_name(r, req, Append(request_list, r)) :
                 /\ request' = res.request
                 /\ sent' = res.sent
                 /\ retrycnt' = res.retrycnt
  BY DEF Lookup
<1> DEFINE req == [request EXCEPT ![r] = NewRequest(q, type)]
           list == Append(request_list, r)
<1>2. PICK res \in query_name(r, req, list) :
        request' = res.request /\ sent' = res.sent /\ retrycnt' = res.retrycnt
  BY <1>1
<1>3. /\ outcome[q] = "none" /\ outcome' = [outcome EXCEPT ![q] = "pending"]
      /\ UNCHANGED <<now, timer, timeout_count, up, answered, passvars>>
  BY DEF Lookup
<1>4. /\ request_list' \in Seq(Request) /\ Injective(request_list)'
      /\ Listed' = Listed \cup {r} /\ ToSet(list) = Listed \cup {r}
  BY <1>0, <1>1, AppendRequest DEF DataType, CoreInv, Listed, Injective
<1>5. /\ req \in [Request -> RequestType] /\ req[r] = NewRequest(q, type)
      /\ \A x \in Request \ {r} : req[x] = request[x]
  BY <1>0, NewRequestType DEF DataType
<1>6. /\ req[r].query = q /\ req[r].type = type /\ req[r].queryname = <<type, q>>
      /\ req[r].retries = Retries /\ req[r].sends = 0 /\ <<type, q>> \in Name
  BY <1>5 DEF NewRequest, Name
<1> HIDE DEF req, list
<1>7. /\ request' \in [Request -> RequestType]
      /\ \A x \in Request \ {r} : request'[x] = request[x]
      /\ request'[r].query = q /\ request'[r].type = type
      /\ request'[r].queryname = <<type, q>> /\ request'[r].retries = Retries
      /\ \/ request'[r].sends = 0
         \/ /\ request'[r].sends = 1
            /\ \A x \in Listed : request[x].id # request'[r].id
      /\ sent' \subseteq Packet /\ retrycnt' \in Nat
  <2>1. /\ res.request \in [Request -> RequestType]
        /\ \A x \in Request \ {r} : res.request[x] = req[x]
        /\ res.request[r].query = req[r].query
        /\ res.request[r].type = req[r].type
        /\ res.request[r].queryname = req[r].queryname
        /\ res.request[r].retries = req[r].retries
        /\ \/ res.request[r] = req[r]
           \/ /\ res.request[r].sends = req[r].sends + 1
              /\ \A x \in ToSet(list) : req[x].id # res.request[r].id
        /\ res.sent \subseteq Packet
        /\ res.retrycnt \in Nat
    BY <1>0, <1>2, <1>4, <1>5, <1>6, QueryName
  <2>2. \A x \in Listed : x \in Request \ {r}
    BY <1>0 DEF DataType, Listed, ToSet
  <2> QED
    BY <1>2, <1>4, <1>5, <1>6, <2>1, <2>2
<1>8. DataType'
  <2>1. outcome' \in [Query -> {"none", "pending", "deleted", "dropped"} \cup Result]
    BY <1>0, <1>3 DEF DataType
  <2> QED
    BY <1>0, <1>3, <1>4, <1>7, <2>1 DEF DataType
<1>9. PassType' /\ PassInv'
  BY <1>0, <1>3, <1>4 DEF PassType, PassInv, passvars
<1>10. CoreInv'
  <2>0. UNCHANGED <<in_callback, ptr, answered>> /\ Listed \subseteq Request
        /\ \A x \in Listed : x # r
    BY <1>0, <1>3 DEF passvars, DataType, Listed, ToSet
  <2>1. \A x \in Request : InCallback(x)' = InCallback(x)
    BY <2>0 DEF InCallback
  <2>2. ~InCallback(r) /\ Active' = Active \cup {r}
    BY <1>0, <1>4, <2>0, <2>1 DEF InCallback, PassInv, Active
  <2>3. RequestInv'
    <3> SUFFICES ASSUME NEW x \in Listed'
                 PROVE  /\ request'[x].query \in Query
                        /\ request'[x].queryname = <<request'[x].type, request'[x].query>>
                        /\ request'[x].sends <= Retries
                        /\ ~InCallback(x)' =>
                             /\ request'[x].retries >= 1
                             /\ request'[x].sends <= 1 + Retries - request'[x].retries
      BY DEF RequestInv
    <3>1. CASE x = r
      BY <1>7, <3>1, Constants
    <3>2. CASE x # r
      BY <1>0, <1>4, <1>7, <2>0, <2>1, <3>2 DEF CoreInv, RequestInv
    <3> QED
      BY <3>1, <3>2
  <2>4. IdsUnique'
    <3> SUFFICES ASSUME NEW a \in Listed', NEW b \in Listed', request'[a].sends > 0,
                        request'[b].sends > 0, request'[a].id = request'[b].id
                 PROVE  a = b
      BY DEF IdsUnique
    <3> QED
      BY <1>0, <1>4, <1>7, <2>0 DEF CoreInv, IdsUnique
  <2>5. \A x \in Active : x # r /\ request'[x] = request[x] /\ request[x].query \in Query
    BY <1>0, <1>7, <2>0 DEF Active, CoreInv, RequestInv
  <2>6. \A x \in Active : request[x].query # q
    BY <1>0, <1>3 DEF CoreInv, Owned
  <2>7. Owned'
    <3>1. \A x \in Active' : outcome'[request'[x].query] = "pending"
      BY <1>0, <1>3, <1>7, <2>2, <2>5 DEF CoreInv, Owned, DataType
    <3>2. \A a, b \in Active' : request'[a].query = request'[b].query => a = b
      BY <1>0, <1>7, <2>2, <2>5, <2>6 DEF CoreInv, Owned
    <3>3. ASSUME NEW k \in Query, outcome'[k] = "pending"
          PROVE  \E x \in Active' : request'[x].query = k
      <4>1. CASE k = q
        BY <1>7, <2>2, <4>1
      <4>2. CASE k # q
        <5>1. outcome[k] = "pending"
          BY <1>0, <1>3, <3>3, <4>2 DEF DataType
        <5> QED
          BY <1>0, <2>2, <2>5, <5>1 DEF CoreInv, Owned
      <4> QED
        BY <4>1, <4>2
    <3> QED
      BY <3>1, <3>2, <3>3 DEF Owned
  <2>8. AnswerIsForQuery'
    BY <1>0, <1>3, <2>0 DEF CoreInv, AnswerIsForQuery, DataType
  <2> QED
    BY <1>4, <2>3, <2>4, <2>7, <2>8 DEF CoreInv
<1> QED
  BY <1>8, <1>9, <1>10

LEMMA DeleteInv ==
  ASSUME IInv, NEW q \in Query, mowgli_dns_evloop_delete_queries(q)
  PROVE  DataType' /\ PassType' /\ CoreInv' /\ PassInv'
<1>0. DataType /\ PassType /\ CoreInv /\ PassInv
  BY TypeParts DEF IInv
<1> DEFINE mine == {r \in Listed : request[r].query = q}
<1>1. /\ ~passing /\ ~in_callback
      /\ request_list' = Kept(request_list, Request \ mine)
      /\ request' = [r \in Request |-> IF r \in mine THEN FreedRequest ELSE request[r]]
      /\ outcome' = [outcome EXCEPT ![q] = "deleted"]
      /\ UNCHANGED <<now, timer, svars, answered, passvars>>
  BY <1>0 DEF mowgli_dns_evloop_delete_queries, Idle, PassInv
<1>2. request_list' \in Seq(Request) /\ Injective(request_list)' /\ Listed \subseteq Request
      /\ Listed' = Listed \ mine
  <2>1. /\ Kept(request_list, Request \ mine) \in Seq(Request)
        /\ ToSet(Kept(request_list, Request \ mine)) = Listed \cap (Request \ mine)
        /\ Injective(Kept(request_list, Request \ mine))
    <3> HIDE DEF mine
    <3> QED
      BY <1>0, KeptSet DEF DataType, CoreInv, Listed
  <2>2. Listed \subseteq Request
    BY <1>0 DEF DataType, Listed, ToSet
  <2> QED
    BY <1>1, <2>1, <2>2 DEF Listed, Injective
<1>3. \A x \in Listed' : x \in Listed /\ request'[x] = request[x] /\ request[x].query # q
  BY <1>1, <1>2
<1>4. DataType'
  <2>1. request' \in [Request -> RequestType]
    BY <1>0, <1>1, FreedRequestType DEF DataType
  <2>2. outcome' \in [Query -> {"none", "pending", "deleted", "dropped"} \cup Result]
    BY <1>0, <1>1 DEF DataType
  <2> QED
    BY <1>0, <1>1, <1>2, <2>1, <2>2 DEF DataType, svars
<1> HIDE DEF mine
<1>5. PassType' /\ PassInv' /\ ~in_callback'
  BY <1>0, <1>1 DEF PassType, PassInv, passvars
<1>6. Active = Listed /\ Active' = Listed'
  BY <1>1, <1>5 DEF Active, InCallback
<1>7. RequestInv'
  BY <1>0, <1>1, <1>3 DEF CoreInv, RequestInv, InCallback
<1>8. Owned'
  <2>1. \A k \in Query : outcome'[k] = "pending" => k # q /\ outcome[k] = "pending"
    BY <1>0, <1>1 DEF DataType
  <2>2. \A x \in Listed' : outcome'[request'[x].query] = "pending"
    BY <1>0, <1>1, <1>3, <1>6, ZenonT(60) DEF CoreInv, Owned, RequestInv, DataType
  <2>3. \A x \in Listed : request[x].query # q => x \in Listed'
    BY <1>2 DEF mine
  <2> QED
    BY <1>0, <1>3, <1>6, <2>1, <2>2, <2>3 DEF CoreInv, Owned
<1>9. IdsUnique' /\ AnswerIsForQuery'
  <2>1. IdsUnique'
    BY <1>0, <1>3 DEF CoreInv, IdsUnique
  <2>2. AnswerIsForQuery'
    BY <1>0, <1>1 DEF CoreInv, AnswerIsForQuery, DataType
  <2> QED
    BY <2>1, <2>2
<1> QED
  BY <1>2, <1>4, <1>5, <1>7, <1>8, <1>9 DEF CoreInv

LEMMA RestartInv ==
  ASSUME IInv, mowgli_dns_evloop_restart
  PROVE  DataType' /\ PassType' /\ CoreInv' /\ PassInv'
<1>0. DataType /\ PassType /\ CoreInv /\ PassInv
  BY TypeParts DEF IInv
<1>1. /\ ~passing /\ request_list' = << >> /\ request' = [r \in Request |-> FreedRequest]
      /\ timeout_count' = [ns \in Ns |-> 0] /\ retrycnt' = 0 /\ timer' = now + 1
      /\ outcome' = [k \in Query |-> IF outcome[k] = "pending" THEN "dropped" ELSE outcome[k]]
      /\ UNCHANGED <<now, up, sent, answered, passvars>>
  BY DEF mowgli_dns_evloop_restart, Idle
<1>2. Listed' = {} /\ request_list' \in Seq(Request) /\ Injective(request_list)'
  BY <1>1 DEF Listed, ToSet, Injective
<1>3. DataType'
  <2>1. request' \in [Request -> RequestType]
    BY <1>1, FreedRequestType
  <2>2. outcome' \in [Query -> {"none", "pending", "deleted", "dropped"} \cup Result]
    BY <1>0, <1>1 DEF DataType
  <2>3. timeout_count' \in [Ns -> Nat] /\ retrycnt' \in Nat
    BY <1>1
  <2> QED
    BY <1>0, <1>1, <1>2, <2>1, <2>2, <2>3 DEF DataType
<1>4. PassType' /\ PassInv'
  BY <1>0, <1>1 DEF PassType, PassInv, passvars
<1>5. RequestInv' /\ IdsUnique' /\ Active' = {}
  BY <1>2 DEF RequestInv, IdsUnique, Active
<1>6. \A k \in Query : outcome'[k] # "pending"
  BY <1>1
<1>7. AnswerIsForQuery'
  BY <1>0, <1>1 DEF CoreInv, AnswerIsForQuery
<1> QED
  BY <1>2, <1>3, <1>4, <1>5, <1>6, <1>7 DEF CoreInv, Owned

\* a callback ends the lookup of the request it removes
LEMMA CallBackInv ==
  ASSUME DataType, PassType, CoreInv, ~in_callback, UNCHANGED in_callback,
         NEW r \in Listed, NEW result \in Result, CallBack(r, result)
  PROVE  /\ request_list' \in Seq(Request)
         /\ request' \in [Request -> RequestType]
         /\ outcome' \in [Query -> {"none", "pending", "deleted", "dropped"} \cup Result]
         /\ sent' = sent /\ retrycnt' = retrycnt
         /\ Injective(request_list)' /\ RequestInv' /\ Owned' /\ IdsUnique'
<1> DEFINE q == request[r].query
<1>1. /\ outcome' = [outcome EXCEPT ![q] = result]
      /\ request_list' = Unlink(request_list, r) /\ request' = [request EXCEPT ![r] = FreedRequest]
      /\ UNCHANGED <<sent, retrycnt>>
  BY DEF CallBack, Free
<1>2. /\ request_list' \in Seq(Request) /\ Injective(request_list)'
      /\ Listed' = Listed \ {r} /\ Listed \subseteq Request
  <2>1. Listed \subseteq Request
    BY DEF DataType, Listed, ToSet
  <2> QED
    BY <1>1, <2>1, UnlinkRequest DEF DataType, CoreInv, Listed, Injective
<1>3. q \in Query /\ result # "pending"
  BY DEF CoreInv, RequestInv, Result
<1>4. Active = Listed /\ Active' = Listed'
  BY DEF Active, InCallback
<1>5. \A x \in Listed' : x \in Listed /\ x # r /\ request'[x] = request[x] /\ request[x].query # q
  BY <1>1, <1>2, <1>4 DEF CoreInv, Owned, DataType
<1>6. request' \in [Request -> RequestType]
  BY <1>1, FreedRequestType DEF DataType
<1>7. outcome' \in [Query -> {"none", "pending", "deleted", "dropped"} \cup Result]
  BY <1>1, <1>3 DEF DataType
<1> HIDE DEF q
<1>8. RequestInv' /\ IdsUnique'
  BY <1>5 DEF CoreInv, RequestInv, IdsUnique, InCallback
<1>9. Owned'
  <2>1. \A k \in Query : outcome'[k] = IF k = q THEN result ELSE outcome[k]
    BY <1>1, <1>3 DEF DataType
  <2>2. \A x \in Listed' : outcome'[request'[x].query] = "pending"
    BY <1>4, <1>5, <2>1 DEF CoreInv, Owned, RequestInv
  <2>3. \A k \in Query : outcome'[k] = "pending" => \E x \in Listed' : request'[x].query = k
    <3> SUFFICES ASSUME NEW k \in Query, outcome'[k] = "pending"
                 PROVE  \E x \in Listed' : request'[x].query = k
      OBVIOUS
    <3>1. k # q /\ outcome[k] = "pending"
      BY <1>3, <2>1
    <3>2. PICK x \in Listed : request[x].query = k
      BY <1>4, <3>1 DEF CoreInv, Owned
    <3>3. x # r
      BY <3>1, <3>2 DEF q
    <3> QED
      BY <1>2, <1>5, <3>2, <3>3
  <2> QED
    BY <1>4, <1>5, <2>2, <2>3 DEF CoreInv, Owned
<1> QED
  BY <1>1, <1>2, <1>6, <1>7, <1>8, <1>9

\* the request for the name an address resolves to takes the place of the
\* request for the address
LEMMA FollowPtrInv ==
  ASSUME DataType, PassType, CoreInv, ~in_callback, UNCHANGED in_callback,
         NEW r \in Listed, FollowPtr(r)
  PROVE  /\ request_list' \in Seq(Request)
         /\ request' \in [Request -> RequestType]
         /\ UNCHANGED <<outcome, answered>>
         /\ sent' \subseteq Packet /\ retrycnt' \in Nat
         /\ Injective(request_list)' /\ RequestInv' /\ Owned' /\ IdsUnique'
<1> DEFINE q == request[r].query
<1>0. Listed \subseteq Request /\ q \in Query
  BY DEF DataType, Listed, ToSet, CoreInv, RequestInv
<1>1. PICK r2 \in Request \ Listed :
        LET list == Append(request_list, r2)
            req  == [request EXCEPT ![r2] = NewRequest(q, "A")]
        IN  \E res \in query_name(r2, req, list) :
              /\ request' = Free(res.request, r)
              /\ sent' = res.sent
              /\ retrycnt' = res.retrycnt
              /\ request_list' = Unlink(list, r)
              /\ UNCHANGED <<outcome, answered>>
  BY DEF FollowPtr
<1> DEFINE req == [request EXCEPT ![r2] = NewRequest(q, "A")]
           list == Append(request_list, r2)
<1>2. PICK res \in query_name(r2, req, list) :
        /\ request' = [res.request EXCEPT ![r] = FreedRequest]
        /\ sent' = res.sent /\ retrycnt' = res.retrycnt
        /\ request_list' = Unlink(list, r) /\ UNCHANGED <<outcome, answered>>
  BY <1>1 DEF Free
<1>3. list \in Seq(Request) /\ Injective(list) /\ ToSet(list) = Listed \cup {r2}
  BY <1>1, AppendRequest DEF DataType, CoreInv, Listed
<1>4. /\ req \in [Request -> RequestType] /\ req[r2] = NewRequest(q, "A")
      /\ \A x \in Request \ {r2} : req[x] = request[x]
  BY <1>0, NewRequestType DEF DataType
<1>5. /\ req[r2].query = q /\ req[r2].type = "A" /\ req[r2].queryname = <<"A", q>>
      /\ req[r2].retries = Retries /\ req[r2].sends = 0 /\ <<"A", q>> \in Name
  BY <1>0, <1>4 DEF NewRequest, Name
<1> HIDE DEF req, list, q
<1>6. /\ request_list' \in Seq(Request) /\ Injective(request_list)'
      /\ Listed' = (Listed \cup {r2}) \ {r}
  BY <1>2, <1>3, UnlinkRequest DEF Listed, Injective
<1>7. /\ res.request \in [Request -> RequestType]
      /\ \A x \in Request \ {r2} : res.request[x] = req[x]
      /\ res.request[r2].query = req[r2].query
      /\ res.request[r2].type = req[r2].type
      /\ res.request[r2].queryname = req[r2].queryname
      /\ res.request[r2].retries = req[r2].retries
      /\ \/ res.request[r2] = req[r2]
         \/ /\ res.request[r2].sends = req[r2].sends + 1
            /\ \A x \in ToSet(list) : req[x].id # res.request[r2].id
      /\ res.sent \subseteq Packet
      /\ res.retrycnt \in Nat
  BY <1>3, <1>4, <1>5, QueryName
<1>8. r2 # r /\ \A x \in Listed : x \in Request \ {r2}
  BY <1>0
<1>9. /\ request' \in [Request -> RequestType]
      /\ \A x \in Listed \ {r} : request'[x] = request[x]
      /\ request'[r2] = res.request[r2]
  BY <1>0, <1>2, <1>4, <1>7, <1>8, FreedRequestType
<1>10. /\ request'[r2].query = q /\ request'[r2].type = "A"
       /\ request'[r2].queryname = <<"A", q>> /\ request'[r2].retries = Retries
       /\ \/ request'[r2].sends = 0
          \/ /\ request'[r2].sends = 1
             /\ \A x \in Listed : request[x].id # request'[r2].id
  BY <1>3, <1>4, <1>5, <1>7, <1>8, <1>9
<1>11. Active = Listed /\ Active' = Listed' /\ \A x : ~InCallback(x) /\ ~InCallback(x)'
  BY DEF Active, InCallback
<1>12. RequestInv'
  <2> SUFFICES ASSUME NEW x \in Listed'
               PROVE  /\ request'[x].query \in Query
                      /\ request'[x].queryname = <<request'[x].type, request'[x].query>>
                      /\ request'[x].sends <= Retries
                      /\ request'[x].retries >= 1
                      /\ request'[x].sends <= 1 + Retries - request'[x].retries
    BY DEF RequestInv
  <2>1. CASE x = r2
    BY <1>0, <1>10, <2>1, Constants
  <2>2. CASE x # r2
    BY <1>6, <1>9, <1>11, <2>2 DEF CoreInv, RequestInv
  <2> QED
    BY <2>1, <2>2
<1>13. IdsUnique'
  <2> SUFFICES ASSUME NEW a \in Listed', NEW b \in Listed', request'[a].sends > 0,
                      request'[b].sends > 0, request'[a].id = request'[b].id
               PROVE  a = b
    BY DEF IdsUnique
  <2> QED
    BY <1>6, <1>8, <1>9, <1>10 DEF CoreInv, IdsUnique
<1>14. Owned'
  <2>1. outcome[q] = "pending" /\ outcome' = outcome
    BY <1>2, <1>11 DEF CoreInv, Owned, q
  <2>2. \A x \in Listed : x # r => request[x].query # q
    BY <1>11 DEF CoreInv, Owned, q
  <2>3. \A x \in Listed' : outcome'[request'[x].query] = "pending"
    BY <1>6, <1>9, <1>10, <1>11, <2>1 DEF CoreInv, Owned
  <2>4. \A a, b \in Listed' : request'[a].query = request'[b].query => a = b
    BY <1>6, <1>9, <1>10, <1>11, <2>2 DEF CoreInv, Owned
  <2>5. ASSUME NEW k \in Query, outcome[k] = "pending"
        PROVE  \E x \in Listed' : request'[x].query = k
    <3>1. CASE k = q
      BY <1>6, <1>8, <1>10, <3>1
    <3>2. CASE k # q
      <4>1. PICK x \in Listed : request[x].query = k
        BY <1>11, <2>5 DEF CoreInv, Owned
      <4>2. x # r
        BY <3>2, <4>1 DEF q
      <4> QED
        BY <1>6, <1>9, <4>1, <4>2
    <3> QED
      BY <3>1, <3>2
  <2> QED
    BY <1>11, <2>1, <2>3, <2>4, <2>5 DEF Owned
<1> QED
  BY <1>2, <1>6, <1>7, <1>9, <1>12, <1>13, <1>14

\* find_id returns a request of the list that has this id
LEMMA FindId ==
  ASSUME DataType, NEW id, find_id(id) # Null
  PROVE  find_id(id) \in Listed /\ request[find_id(id)].id = id
<1> DEFINE M == {i \in DOMAIN request_list : request[request_list[i]].id = id}
<1>1. M # {} /\ find_id(id) = request_list[Min(M)]
  BY DEF find_id
<1>2. M \in SUBSET Nat
  BY DEF DataType
<1>3. Min(M) \in M
  BY <1>1, <1>2, NatMin
<1> QED
  BY <1>1, <1>3 DEF Listed, ToSet

LEMMA ReplyInv ==
  ASSUME IInv, NEW p \in sent, NEW reply \in Reply, res_read_single_reply(p, reply)
  PROVE  DataType' /\ PassType' /\ CoreInv' /\ PassInv'
<1>0. DataType /\ PassType /\ CoreInv /\ PassInv
  BY TypeParts DEF IInv
<1> DEFINE r == find_id(p.id)
<1>1. /\ ~passing /\ ~in_callback /\ r # Null
      /\ timeout_count' = [timeout_count EXCEPT ![p.ns] = 0]
      /\ UNCHANGED <<now, timer, up, passvars>>
  BY <1>0 DEF res_read_single_reply, res_ourserver, Idle, PassInv
<1>2. r \in Listed /\ p \in Packet
  BY <1>0, <1>1, FindId DEF DataType
<1>3. timeout_count' \in [Ns -> Nat]
  BY <1>0, <1>1, <1>2 DEF DataType, Packet
<1>4. PassType' /\ PassInv' /\ UNCHANGED <<in_callback, ptr>>
  BY <1>0, <1>1 DEF PassType, PassInv, passvars
<1>5. CASE ~check_question(r, p)
  <2>1. UNCHANGED <<request_list, request, sent, retrycnt, outcome, answered>>
    BY <1>5 DEF res_read_single_reply
  <2>2. CoreInv'
    BY <1>0, <1>4, <2>1, CoreFrame
  <2> QED
    BY <1>0, <1>1, <1>3, <1>4, <2>1, <2>2 DEF DataType
<1>6. CASE check_question(r, p)
  <2>0. Process(r, p, reply)
    BY <1>6 DEF res_read_single_reply
  <2> HIDE DEF r
  <2> DEFINE q == request[r].query
  <2>1. q \in Query /\ p.name = <<request[r].type, q>>
    BY <1>0, <1>2, <1>6 DEF CoreInv, RequestInv, check_question
  <2>2. CASE \E result \in Result \ {"SUCCESS"} : CallBack(r, result) /\ UNCHANGED answered
    <3>1. PICK result \in Result \ {"SUCCESS"} : CallBack(r, result) /\ UNCHANGED answered
      BY <2>2
    <3>2. /\ request_list' \in Seq(Request)
          /\ request' \in [Request -> RequestType]
          /\ outcome' \in [Query -> {"none", "pending", "deleted", "dropped"} \cup Result]
          /\ sent' = sent /\ retrycnt' = retrycnt
          /\ Injective(request_list)' /\ RequestInv' /\ Owned' /\ IdsUnique'
      BY <1>0, <1>1, <1>2, <1>4, <3>1, CallBackInv
    <3>3. AnswerIsForQuery'
      BY <1>0, <2>1, <3>1 DEF CoreInv, AnswerIsForQuery, DataType, CallBack
    <3> QED
      BY <1>0, <1>1, <1>3, <1>4, <3>1, <3>2, <3>3 DEF DataType, CoreInv
  <2>3. CASE /\ request[r].type = "A" /\ CallBack(r, "SUCCESS")
             /\ answered' = [answered EXCEPT ![q] = p.name]
    <3>1. "SUCCESS" \in Result
      BY DEF Result
    <3>2. /\ request_list' \in Seq(Request)
          /\ request' \in [Request -> RequestType]
          /\ outcome' \in [Query -> {"none", "pending", "deleted", "dropped"} \cup Result]
          /\ sent' = sent /\ retrycnt' = retrycnt
          /\ Injective(request_list)' /\ RequestInv' /\ Owned' /\ IdsUnique'
      BY <1>0, <1>1, <1>2, <1>4, <2>3, <3>1, CallBackInv
    <3>3. AnswerIsForQuery'
      BY <1>0, <2>1, <2>3 DEF CoreInv, AnswerIsForQuery, DataType, CallBack
    <3>4. answered' \in [Query -> Name \cup {Null}]
      BY <1>0, <1>2, <2>3 DEF DataType, Packet
    <3> QED
      BY <1>0, <1>1, <1>3, <1>4, <3>2, <3>3, <3>4 DEF DataType, CoreInv
  <2>4. CASE FollowPtr(r)
    <3>1. /\ request_list' \in Seq(Request)
          /\ request' \in [Request -> RequestType]
          /\ UNCHANGED <<outcome, answered>>
          /\ sent' \subseteq Packet /\ retrycnt' \in Nat
          /\ Injective(request_list)' /\ RequestInv' /\ Owned' /\ IdsUnique'
      BY <1>0, <1>1, <1>2, <1>4, <2>4, FollowPtrInv
    <3>2. AnswerIsForQuery'
      BY <1>0, <3>1 DEF CoreInv, AnswerIsForQuery
    <3> QED
      BY <1>0, <1>1, <1>3, <1>4, <3>1, <3>2 DEF DataType, CoreInv
  <2>5. {"NXDOMAIN", "INVALID"} \subseteq Result \ {"SUCCESS"}
    BY DEF Result
  <2> QED
    BY <2>0, <2>2, <2>3, <2>4, <2>5 DEF Process
<1> QED
  BY <1>5, <1>6

\* the callback of a lookup that timed out: its request is no longer active
LEMMA TimeoutCallbackInv ==
  ASSUME IInv, TimeoutCallback
  PROVE  DataType' /\ PassType' /\ CoreInv' /\ PassInv'
<1>0. DataType /\ PassType /\ CoreInv /\ PassInv
  BY TypeParts DEF IInv
<1> DEFINE q == request[ptr].query
<1>1. /\ passing /\ ptr # Null /\ ~in_callback /\ LastTry(ptr)
      /\ request' = [request EXCEPT ![ptr].retries = @ - 1]
      /\ outcome' = [outcome EXCEPT ![q] = "TIMEOUT"]
      /\ in_callback'
      /\ UNCHANGED <<now, timer, request_list, svars, answered, passing, ptr, next_ptr, next_time>>
  BY DEF TimeoutCallback, AtRequest
<1>2. ptr \in Listed /\ ptr \in Request /\ Listed \subseteq Request /\ Listed' = Listed
  <2>1. Listed' = Listed
    BY <1>1 DEF Listed
  <2> QED
    BY <1>0, <1>1, <2>1, ListedType DEF PassInv
<1>3. /\ q \in Query /\ request[ptr] \in RequestType /\ request[ptr].retries >= 1
      /\ request[ptr].retries \in 0 .. Retries /\ request[ptr].sends <= Retries
  BY <1>0, <1>1, <1>2 DEF CoreInv, RequestInv, InCallback, DataType, RequestType
<1>4. /\ request' \in [Request -> RequestType]
      /\ \A x \in Request : /\ request'[x].query = request[x].query
                            /\ request'[x].type = request[x].type
                            /\ request'[x].queryname = request[x].queryname
                            /\ request'[x].sends = request[x].sends
                            /\ request'[x].id = request[x].id
                            /\ x # ptr => request'[x].retries = request[x].retries
  <2>1. \A x \in Request \ {ptr} : request'[x] = request[x] /\ request[x] \in RequestType
    BY <1>0, <1>1, <1>2 DEF DataType
  <2>2. request'[ptr] = [request[ptr] EXCEPT !.retries = request[ptr].retries - 1]
    BY <1>0, <1>1, <1>2 DEF DataType
  <2>3. request[ptr].retries - 1 \in 0 .. Retries
    BY <1>3, Constants
  <2>4. /\ request'[ptr] \in RequestType
        /\ request'[ptr].query = request[ptr].query
        /\ request'[ptr].type = request[ptr].type
        /\ request'[ptr].queryname = request[ptr].queryname
        /\ request'[ptr].sends = request[ptr].sends
        /\ request'[ptr].id = request[ptr].id
    BY <1>3, <2>2, <2>3 DEF RequestType
  <2>5. request' \in [Request -> RequestType]
    BY <1>0, <1>1, <2>1, <2>4 DEF DataType
  <2> QED
    BY <2>1, <2>4, <2>5
<1>5. DataType'
  <2>1. outcome' \in [Query -> {"none", "pending", "deleted", "dropped"} \cup Result]
    BY <1>0, <1>1, <1>3 DEF DataType, Result
  <2> QED
    BY <1>0, <1>1, <1>4, <2>1 DEF DataType, svars
<1>6. PassType' /\ PassInv'
  BY <1>0, <1>1, <1>2 DEF PassType, PassInv
<1> HIDE DEF q
<1>7. Active = Listed /\ Active' = Listed \ {ptr}
  BY <1>1, <1>2 DEF Active, InCallback
<1>8. RequestInv'
  BY <1>0, <1>1, <1>2, <1>4 DEF CoreInv, RequestInv, InCallback
<1>9. Owned'
  <2>1. \A k \in Query : outcome'[k] = IF k = q THEN "TIMEOUT" ELSE outcome[k]
    BY <1>0, <1>1, <1>3 DEF DataType
  <2>2. \A x \in Listed \ {ptr} : request[x].query # q /\ request[x].query \in Query
    BY <1>0, <1>2, <1>7 DEF CoreInv, Owned, RequestInv, q
  <2>3. \A x \in Active' : outcome'[request'[x].query] = "pending"
    BY <1>0, <1>2, <1>4, <1>7, <2>1, <2>2 DEF CoreInv, Owned
  <2>4. \A a, b \in Active' : request'[a].query = request'[b].query => a = b
    BY <1>0, <1>2, <1>4, <1>7 DEF CoreInv, Owned
  <2>5. ASSUME NEW k \in Query, outcome'[k] = "pending"
        PROVE  \E x \in Active' : request'[x].query = k
    <3>1. k # q /\ outcome[k] = "pending"
      BY <2>1, <2>5
    <3>2. PICK x \in Listed : request[x].query = k
      BY <1>0, <1>7, <3>1 DEF CoreInv, Owned
    <3>3. x # ptr
      BY <3>1, <3>2 DEF q
    <3> QED
      BY <1>2, <1>4, <1>7, <3>2, <3>3
  <2> QED
    BY <2>3, <2>4, <2>5 DEF Owned
<1>10. IdsUnique'
  BY <1>0, <1>2, <1>4 DEF CoreInv, IdsUnique
<1>11. AnswerIsForQuery'
  BY <1>0, <1>1, <1>3 DEF CoreInv, AnswerIsForQuery, DataType
<1>12. Injective(request_list)'
  BY <1>0, <1>1 DEF CoreInv, Injective
<1> QED
  BY <1>5, <1>6, <1>8, <1>9, <1>10, <1>11, <1>12 DEF CoreInv

LEMMA TimeoutRemoveInv ==
  ASSUME IInv, TimeoutRemove
  PROVE  DataType' /\ PassType' /\ CoreInv' /\ PassInv'
<1>0. DataType /\ PassType /\ CoreInv /\ PassInv
  BY TypeParts DEF IInv
<1>1. /\ in_callback /\ ~in_callback' /\ request_list' = Unlink(request_list, ptr)
      /\ request' = [request EXCEPT ![ptr] = FreedRequest] /\ Advance
      /\ UNCHANGED <<now, timer, svars, outcome, answered, passing, next_time>>
  BY DEF TimeoutRemove, Free
<1>2. /\ passing /\ ptr \in Listed /\ Listed \subseteq Request
      /\ next_ptr \in Listed \cup {Null} /\ ptr # next_ptr
  BY <1>0, <1>1, ListedType DEF PassInv
<1>3. /\ request_list' \in Seq(Request) /\ Injective(request_list)'
      /\ Listed' = Listed \ {ptr}
  BY <1>0, <1>1, <1>2, UnlinkRequest DEF DataType, CoreInv, Listed, Injective
<1>4. PassInv' /\ ptr' \in Request \cup {Null} /\ next_ptr' \in Request \cup {Null}
  BY <1>1, <1>2, <1>3, AdvanceInv
<1>5. PassType'
  BY <1>0, <1>1, <1>4 DEF PassType
<1>6. DataType'
  <2>1. request' \in [Request -> RequestType]
    BY <1>0, <1>1, FreedRequestType DEF DataType
  <2> QED
    BY <1>0, <1>1, <1>3, <2>1 DEF DataType, svars
<1>7. \A x \in Listed' : x \in Listed /\ x # ptr /\ request'[x] = request[x]
  BY <1>0, <1>1, <1>2, <1>3 DEF DataType
<1>8. Active = Listed \ {ptr} /\ Active' = Listed'
  BY <1>1 DEF Active, InCallback
<1>9. RequestInv'
  BY <1>0, <1>1, <1>7 DEF CoreInv, RequestInv, InCallback
<1>10. Owned'
  BY <1>0, <1>1, <1>3, <1>7, <1>8 DEF CoreInv, Owned
<1>11. IdsUnique'
  BY <1>0, <1>7 DEF CoreInv, IdsUnique
<1>12. AnswerIsForQuery'
  BY <1>0, <1>1 DEF CoreInv, AnswerIsForQuery
<1> QED
  BY <1>3, <1>4, <1>5, <1>6, <1>9, <1>10, <1>11, <1>12 DEF CoreInv

LEMMA ResendInv ==
  ASSUME IInv, Resend
  PROVE  DataType' /\ PassType' /\ CoreInv' /\ PassInv'
<1>0. DataType /\ PassType /\ CoreInv /\ PassInv
  BY TypeParts DEF IInv
<1> DEFINE req == [request EXCEPT ![ptr].retries = @ - 1,
                                  ![ptr].sentat = now,
                                  ![ptr].timeout = @ + @]
<1>1. /\ passing /\ ptr # Null /\ ~in_callback /\ ~LastTry(ptr) /\ Advance
      /\ timeout_count' = [timeout_count EXCEPT ![request[ptr].lastns] = @ + 1]
      /\ next_time' = Sooner(Expires(ptr))
      /\ UNCHANGED <<now, timer, up, request_list, outcome, answered, passing, in_callback>>
  BY DEF Resend, AtRequest
<1>2. PICK res \in query_name(ptr, req, request_list) :
        request' = res.request /\ sent' = res.sent /\ retrycnt' = res.retrycnt
  BY DEF Resend
<1>3. /\ ptr \in Listed /\ ptr \in Request /\ Listed \subseteq Request /\ Listed' = Listed
      /\ next_ptr \in Listed \cup {Null} /\ ToSet(request_list) = Listed
  <2>1. Listed' = Listed
    BY <1>1 DEF Listed
  <2> QED
    BY <1>0, <1>1, <2>1, ListedType DEF PassInv
<1>4. /\ request[ptr] \in RequestType /\ request[ptr].retries > 1
      /\ request[ptr].retries \in 0 .. Retries
      /\ request[ptr].sends <= 1 + Retries - request[ptr].retries
      /\ request[ptr].query \in Query /\ request[ptr].type \in {"A", "PTR"}
      /\ request[ptr].queryname = <<request[ptr].type, request[ptr].query>>
      /\ request[ptr].queryname \in Name
  <2>1. request[ptr] \in RequestType
    BY <1>0, <1>3 DEF DataType
  <2>2. request[ptr].retries \in 0 .. Retries /\ request[ptr].type \in {"A", "PTR"}
    BY <2>1 DEF RequestType
  <2>3. request[ptr].retries > 1
    BY <1>1, <2>2, Constants DEF LastTry
  <2>4. /\ request[ptr].sends <= 1 + Retries - request[ptr].retries
        /\ request[ptr].query \in Query
        /\ request[ptr].queryname = <<request[ptr].type, request[ptr].query>>
    BY <1>0, <1>1, <1>3 DEF CoreInv, RequestInv, InCallback
  <2>5. request[ptr].queryname \in Name
    BY <2>2, <2>4 DEF Name
  <2> QED
    BY <2>1, <2>2, <2>3, <2>4, <2>5
<1>5. /\ req \in [Request -> RequestType]
      /\ \A x \in Request \ {ptr} : req[x] = request[x]
      /\ req[ptr].query = request[ptr].query /\ req[ptr].type = request[ptr].type
      /\ req[ptr].queryname = request[ptr].queryname
      /\ req[ptr].retries = request[ptr].retries - 1
      /\ req[ptr].sends = request[ptr].sends /\ req[ptr].id = request[ptr].id
  <2>1. \A x \in Request \ {ptr} : req[x] = request[x]
    BY <1>0, <1>3 DEF DataType
  <2>2. req[ptr] = [request[ptr] EXCEPT !.retries = request[ptr].retries - 1, !.sentat = now,
                      !.timeout = request[ptr].timeout + request[ptr].timeout]
    BY <1>0, <1>3 DEF DataType
  <2>3. /\ request[ptr].retries - 1 \in 0 .. Retries /\ now \in Nat
        /\ request[ptr].timeout + request[ptr].timeout \in Nat
    BY <1>0, <1>4, Constants DEF PassType, RequestType
  <2>4. /\ req[ptr] \in RequestType
        /\ req[ptr].query = request[ptr].query /\ req[ptr].type = request[ptr].type
        /\ req[ptr].queryname = request[ptr].queryname
        /\ req[ptr].retries = request[ptr].retries - 1
        /\ req[ptr].sends = request[ptr].sends /\ req[ptr].id = request[ptr].id
    <3>1. PICK a \in 0 .. Retries, b \in Nat, c \in Nat :
            /\ a = request[ptr].retries - 1
            /\ req[ptr] = [request[ptr] EXCEPT !.retries = a, !.sentat = b, !.timeout = c]
      BY <2>2, <2>3
    <3> DEFINE old == request[ptr]
               new == req[ptr]
    <3>2. old \in RequestType /\ new = [old EXCEPT !.retries = a, !.sentat = b, !.timeout = c]
      BY <1>4, <3>1
    <3> HIDE DEF old, new
    <3>3. /\ new \in RequestType /\ new.retries = a
          /\ new.query = old.query /\ new.type = old.type /\ new.queryname = old.queryname
          /\ new.sends = old.sends /\ new.id = old.id
      BY <3>2 DEF RequestType
    <3> QED
      BY <3>1, <3>3 DEF old, new
  <2>5. req \in [Request -> RequestType]
    BY <1>0, <2>1, <2>4 DEF DataType
  <2> QED
    BY <2>1, <2>4, <2>5
<1> HIDE DEF req
<1>6. /\ res.request \in [Request -> RequestType]
      /\ \A x \in Request \ {ptr} : res.request[x] = req[x]
      /\ res.request[ptr].query = req[ptr].query
      /\ res.request[ptr].type = req[ptr].type
      /\ res.request[ptr].queryname = req[ptr].queryname
      /\ res.request[ptr].retries = req[ptr].retries
      /\ \/ res.request[ptr] = req[ptr]
         \/ /\ res.request[ptr].sends = req[ptr].sends + 1
            /\ \A x \in ToSet(request_list) : req[x].id # res.request[ptr].id
      /\ res.sent \subseteq Packet
      /\ res.retrycnt \in Nat
  BY <1>0, <1>3, <1>4, <1>5, QueryName
<1>7. /\ \A x \in Listed : x # ptr => request'[x] = request[x]
      /\ \A x \in Listed : request'[x].query = request[x].query
      /\ request'[ptr].queryname = <<request'[ptr].type, request'[ptr].query>>
      /\ request'[ptr].retries = request[ptr].retries - 1
      /\ request[ptr].sends \in Nat
      /\ \/ request'[ptr].sends = request[ptr].sends /\ request'[ptr].id = request[ptr].id
         \/ /\ request'[ptr].sends = request[ptr].sends + 1
            /\ \A x \in Listed : x # ptr => request[x].id # request'[ptr].id
  <2>1. request[ptr].sends \in Nat
    BY <1>4 DEF RequestType
  <2>2. \A x \in Listed : x # ptr => request'[x] = request[x] /\ req[x] = request[x]
    BY <1>2, <1>3, <1>5, <1>6
  <2> QED
    BY <1>2, <1>3, <1>4, <1>5, <1>6, <2>1, <2>2
<1>8. DataType'
  <2>1. timeout_count' \in [Ns -> Nat]
    BY <1>0, <1>1, <1>4 DEF DataType, RequestType
  <2> QED
    BY <1>0, <1>1, <1>2, <1>6, <2>1 DEF DataType
<1>9. Injective(request_list)' /\ request_list' \in Seq(Request)
  BY <1>0, <1>1 DEF CoreInv, Injective, DataType
<1>10. PassInv' /\ ptr' \in Request \cup {Null} /\ next_ptr' \in Request \cup {Null}
  BY <1>1, <1>3, <1>9, AdvanceInv
<1>11. PassType'
  BY <1>0, <1>1, <1>3, <1>10, ExpiresType DEF PassType
<1>12. Active = Listed /\ Active' = Listed /\ \A x : ~InCallback(x) /\ ~InCallback(x)'
  BY <1>1, <1>3 DEF Active, InCallback
<1>13. RequestInv'
  <2> SUFFICES ASSUME NEW x \in Listed
               PROVE  /\ request'[x].query \in Query
                      /\ request'[x].queryname = <<request'[x].type, request'[x].query>>
                      /\ request'[x].sends <= Retries
                      /\ request'[x].retries >= 1
                      /\ request'[x].sends <= 1 + Retries - request'[x].retries
    BY <1>3 DEF RequestInv
  <2>1. CASE x = ptr
    BY <1>3, <1>4, <1>7, <2>1, Constants
  <2>2. CASE x # ptr
    BY <1>0, <1>7, <1>12, <2>2 DEF CoreInv, RequestInv
  <2> QED
    BY <2>1, <2>2
<1>14. Owned'
  BY <1>0, <1>1, <1>7, <1>12 DEF CoreInv, Owned
<1>15. IdsUnique'
  <2> SUFFICES ASSUME NEW a \in Listed, NEW b \in Listed, request'[a].sends > 0,
                      request'[b].sends > 0, request'[a].id = request'[b].id
               PROVE  a = b
    BY <1>3 DEF IdsUnique
  <2> QED
    BY <1>0, <1>3, <1>7 DEF CoreInv, IdsUnique
<1>16. AnswerIsForQuery'
  BY <1>0, <1>1 DEF CoreInv, AnswerIsForQuery
<1> QED
  BY <1>8, <1>9, <1>10, <1>11, <1>13, <1>14, <1>15, <1>16 DEF CoreInv

-----------------------------------------------------------------------------
(* The invariant and what follows from it.                                 *)

LEMMA InitIInv == Init => IInv
<1> SUFFICES ASSUME Init PROVE IInv
  OBVIOUS
<1>1. ToSet(<< >>) = {} /\ Listed = {}
  BY DEF ToSet, Init, Listed
<1>2. DataType
  <2>1. request_list \in Seq(Request)
    BY EmptySeq DEF Init
  <2>2. request \in [Request -> RequestType]
    BY FreedRequestType DEF Init
  <2>3. outcome \in [Query -> {"none", "pending", "deleted", "dropped"} \cup Result]
    BY DEF Init
  <2>4. answered \in [Query -> Name \cup {Null}]
    BY DEF Init
  <2>5. timeout_count \in [Ns -> Nat] /\ retrycnt \in Nat /\ up \subseteq Ns
        /\ sent \subseteq Packet
    BY DEF Init
  <2> QED
    BY <2>1, <2>2, <2>3, <2>4, <2>5 DEF DataType
<1>3. PassType /\ PassInv
  BY DEF Init, PassType, PassInv
<1>4. passing \in BOOLEAN /\ in_callback \in BOOLEAN
  BY Zenon DEF Init
<1>5. CoreInv
  <2>1. Active = {} /\ \A q \in Query : outcome[q] = "none"
    BY <1>1 DEF Active, Init
  <2>2. Injective(request_list)
    BY DEF Init, Injective
  <2> QED
    BY <1>1, <2>1, <2>2 DEF CoreInv, RequestInv, Owned, IdsUnique, AnswerIsForQuery
<1> QED
  BY <1>2, <1>3, <1>4, <1>5, TypeParts, Zenon DEF IInv

LEMMA NextIInv == IInv /\ [Next]_vars => IInv'
<1> SUFFICES ASSUME IInv, [Next]_vars PROVE IInv'
  OBVIOUS
<1>1. DataType' /\ PassType' /\ CoreInv' /\ PassInv'
  <2>1. CASE \E q \in Query : Lookup(q, "A") \/ Lookup(q, "PTR")
    BY <2>1, LookupInv
  <2>2. CASE \E q \in Query : mowgli_dns_evloop_delete_queries(q)
    BY <2>2, DeleteInv
  <2>3. CASE mowgli_dns_evloop_restart
    BY <2>3, RestartInv
  <2>4. CASE \E p \in sent, reply \in Reply : res_read_single_reply(p, reply)
    BY <2>4, ReplyInv
  <2>5. CASE timeout_resolver \/ NotExpired \/ Rescheduled \/ Tick \/ Network
    BY <2>5, QuietStep
  <2>6. CASE TimeoutCallback
    BY <2>6, TimeoutCallbackInv
  <2>7. CASE TimeoutRemove
    BY <2>7, TimeoutRemoveInv
  <2>8. CASE Resend
    BY <2>8, ResendInv
  <2>9. CASE UNCHANGED vars
    <3>1. DataType /\ PassType /\ CoreInv /\ PassInv
      BY TypeParts DEF IInv
    <3>2. CoreInv' /\ Listed' = Listed
      BY <2>9, <3>1, CoreFrame DEF vars, passvars
    <3> QED
      BY <2>9, <3>1, <3>2 DEF vars, svars, passvars, DataType, PassType, PassInv
  <2> QED
    BY <2>1, <2>2, <2>3, <2>4, <2>5, <2>6, <2>7, <2>8, <2>9 DEF Next, Pass
<1>2. passing' \in BOOLEAN /\ in_callback' \in BOOLEAN
  <2>1. passing \in BOOLEAN /\ in_callback \in BOOLEAN
    BY TypeParts, Zenon DEF IInv
  <2>2. passing' \in {passing, TRUE, FALSE} /\ in_callback' \in {in_callback, TRUE, FALSE}
    BY DEF Next, Pass, Lookup, mowgli_dns_evloop_delete_queries, mowgli_dns_evloop_restart,
           res_read_single_reply, timeout_resolver, NotExpired, TimeoutCallback, TimeoutRemove,
           Resend, Rescheduled, Tick, Network, vars, passvars
  <2> QED
    BY <2>1, <2>2, Zenon
<1>3. TypeOK'
  BY <1>1, <1>2, Zenon DEF TypeOK, DataType, PassType, RequestType
<1> QED
  BY <1>1, <1>3 DEF IInv

LEMMA ResolverInvariant == Spec => []IInv
  BY InitIInv, NextIInv, PTL DEF Spec

\* Types: in particular request->retries never goes below 0, the name of a
\* packet is a name, and request->lastns is a server.
THEOREM ResolverTypeCorrect == Spec => []TypeOK
<1>1. IInv => TypeOK
  BY DEF IInv
<1> QED
  BY <1>1, ResolverInvariant, PTL

\* Every lookup that waits has exactly one request, one that is over has
\* none, and no request is sent more than `retries' times: through replies,
\* timeouts, deletions, restarts and the second step of a PTR lookup.
THEOREM RequestsMatchQueries == Spec => []OneRequestPerQuery
<1>1. IInv => OneRequestPerQuery
  <2> SUFFICES ASSUME IInv PROVE OneRequestPerQuery
    OBVIOUS
  <2>1. CoreInv
    BY DEF IInv
  <2>2. ASSUME NEW q \in Query
        PROVE  LET mine == {r \in Listed : request[r].query = q} \
                             (IF in_callback THEN {ptr} ELSE {})
               IN  IF outcome[q] = "pending" THEN \E r \in mine : mine = {r} ELSE mine = {}
    <3> DEFINE mine == {r \in Listed : request[r].query = q} \
                         (IF in_callback THEN {ptr} ELSE {})
    <3>1. mine = {r \in Active : request[r].query = q}
      BY DEF Active, InCallback
    <3>2. CASE outcome[q] = "pending"
      <4>1. PICK r \in Active : request[r].query = q
        BY <2>1, <3>2 DEF CoreInv, Owned
      <4>2. mine = {r}
        BY <2>1, <3>1, <4>1 DEF CoreInv, Owned
      <4> QED
        BY <3>2, <4>2
    <3>3. CASE outcome[q] # "pending"
      <4>1. mine = {}
        BY <2>1, <3>1, <3>3 DEF CoreInv, Owned
      <4> QED
        BY <3>3, <4>1
    <3> QED
      BY <3>2, <3>3
  <2> QED
    BY <2>1, <2>2 DEF OneRequestPerQuery, CoreInv, Injective, RequestInv
<1> QED
  BY <1>1, ResolverInvariant, PTL

\* find_id finds at most one of the requests that were sent: ids are unique
\* among them, whatever was resent, deleted or answered.
THEOREM IdentifiersUnique == Spec => []IdsUnique
<1>1. IInv => IdsUnique
  BY DEF IInv, CoreInv
<1> QED
  BY <1>1, ResolverInvariant, PTL

\* A late or duplicated reply never makes a lookup succeed with the answer
\* to another one.
THEOREM AnswersMatchQueries == Spec => []AnswerIsForQuery
<1>1. IInv => AnswerIsForQuery
  BY DEF IInv, CoreInv
<1> QED
  BY <1>1, ResolverInvariant, PTL

-----------------------------------------------------------------------------
(* A request is sent whenever that is possible.                            *)

\* some packet of the set asks what request r of `req' asks, with its id
AskedIn(packets, req, r) ==
  \E p \in packets : p.id = req[r].id /\ p.name = req[r].queryname

LEMMA LookupSends ==
  ASSUME IInv, NEW q \in Query, NEW type \in {"A", "PTR"}, Lookup(q, type), up # {},
         NEW x \in Request, request'[x].sends > request[x].sends
  PROVE  AskedIn(sent', request', x)
<1>0. DataType /\ PassType
  BY TypeParts DEF IInv
<1>1. PICK r \in Request \ Listed :
        /\ request_list' = Append(request_list, r)
        /\ LET req == [request EXCEPT ![r] = NewRequest(q, type)]
           IN  \E res \in query_name(r, req, Append(request_list, r)) :
                 /\ request' = res.request
                 /\ sent' = res.sent
                 /\ retrycnt' = res.retrycnt
  BY DEF Lookup
<1> DEFINE req == [request EXCEPT ![r] = NewRequest(q, type)]
           list == Append(request_list, r)
<1>2. PICK res \in query_name(r, req, list) :
        request' = res.request /\ sent' = res.sent /\ retrycnt' = res.retrycnt
  BY <1>1
<1>3. r \in ToSet(list)
  BY <1>0, AppendSet DEF DataType
<1>4. /\ req \in [Request -> RequestType] /\ req[r] = NewRequest(q, type)
      /\ \A y \in Request \ {r} : req[y] = request[y]
  BY <1>0, NewRequestType DEF DataType
<1>5. req[r].queryname \in Name /\ req[r].sends = 0 /\ request[r].sends \in Nat
      /\ request[x].sends \in Nat
  BY <1>0, <1>4 DEF NewRequest, Name, DataType, RequestType
<1> HIDE DEF req, list
<1>6. /\ \A y \in Request \ {r} : res.request[y] = req[y]
      /\ \/ res.request[r] = req[r]
         \/ up # {} => \E p \in res.sent : /\ p.id = res.request[r].id
                                           /\ p.name = res.request[r].queryname
  BY <1>0, <1>2, <1>3, <1>4, <1>5, QueryName
<1>7. x = r /\ res.request[r] # req[r]
  BY <1>2, <1>4, <1>5, <1>6
<1> QED
  BY <1>2, <1>6, <1>7 DEF AskedIn

LEMMA FollowPtrSends ==
  ASSUME DataType, PassType, CoreInv, NEW r \in Listed, FollowPtr(r), up # {},
         NEW x \in Request, request'[x].sends > request[x].sends
  PROVE  AskedIn(sent', request', x)
<1> DEFINE q == request[r].query
<1>0. Listed \subseteq Request /\ q \in Query
  BY ListedType DEF CoreInv, RequestInv
<1>1. PICK r2 \in Request \ Listed :
        LET list == Append(request_list, r2)
            req  == [request EXCEPT ![r2] = NewRequest(q, "A")]
        IN  \E res \in query_name(r2, req, list) :
              /\ request' = Free(res.request, r)
              /\ sent' = res.sent
              /\ retrycnt' = res.retrycnt
              /\ request_list' = Unlink(list, r)
              /\ UNCHANGED <<outcome, answered>>
  BY DEF FollowPtr
<1> DEFINE req == [request EXCEPT ![r2] = NewRequest(q, "A")]
           list == Append(request_list, r2)
<1>2. PICK res \in query_name(r2, req, list) :
        request' = [res.request EXCEPT ![r] = FreedRequest] /\ sent' = res.sent
  BY <1>1 DEF Free
<1>3. r2 \in ToSet(list)
  BY AppendSet DEF DataType
<1>4. /\ req \in [Request -> RequestType] /\ req[r2] = NewRequest(q, "A")
      /\ \A y \in Request \ {r2} : req[y] = request[y]
  BY <1>0, NewRequestType DEF DataType
<1>5. req[r2].queryname \in Name /\ req[r2].sends = 0 /\ request[r2].sends \in Nat
      /\ request[x].sends \in Nat
  BY <1>0, <1>4 DEF NewRequest, Name, DataType, RequestType
<1> HIDE DEF req, list, q
<1>6. /\ \A y \in Request \ {r2} : res.request[y] = req[y]
      /\ res.request \in [Request -> RequestType]
      /\ \/ res.request[r2] = req[r2]
         \/ up # {} => \E p \in res.sent : /\ p.id = res.request[r2].id
                                           /\ p.name = res.request[r2].queryname
  BY <1>2, <1>3, <1>4, <1>5, QueryName
<1>7. x # r
  BY <1>0, <1>2, <1>5, <1>6 DEF FreedRequest
<1>8. request'[x] = res.request[x]
  BY <1>2, <1>6, <1>7
<1>9. x = r2 /\ res.request[r2] # req[r2]
  BY <1>4, <1>5, <1>6, <1>8
<1> QED
  BY <1>2, <1>6, <1>8, <1>9 DEF AskedIn

LEMMA ResendSends ==
  ASSUME IInv, Resend, up # {},
         NEW x \in Request, request'[x].sends > request[x].sends
  PROVE  AskedIn(sent', request', x)
<1>0. DataType /\ PassType /\ CoreInv /\ PassInv
  BY TypeParts DEF IInv
<1> DEFINE req == [request EXCEPT ![ptr].retries = @ - 1,
                                  ![ptr].sentat = now,
                                  ![ptr].timeout = @ + @]
<1>1. passing /\ ptr # Null /\ ~in_callback /\ ~LastTry(ptr)
  BY DEF Resend, AtRequest
<1>2. PICK res \in query_name(ptr, req, request_list) :
        request' = res.request /\ sent' = res.sent
  BY DEF Resend
<1>3. ptr \in Listed /\ ptr \in Request /\ ToSet(request_list) = Listed
  BY <1>0, <1>1, ListedType DEF PassInv
<1>4. request[ptr] \in RequestType
  BY <1>0, <1>3 DEF DataType
<1>5. /\ request[ptr].retries - 1 \in 0 .. Retries /\ now \in Nat
      /\ request[ptr].timeout + request[ptr].timeout \in Nat
  BY <1>0, <1>1, <1>4, Constants DEF PassType, RequestType, LastTry
<1>6. request[ptr].queryname \in Name
  <2>1. request[ptr].type \in {"A", "PTR"}
    BY <1>4 DEF RequestType
  <2>2. /\ request[ptr].query \in Query
        /\ request[ptr].queryname = <<request[ptr].type, request[ptr].query>>
    BY <1>0, <1>3 DEF CoreInv, RequestInv
  <2> QED
    BY <2>1, <2>2 DEF Name
<1>7. req[ptr] = [request[ptr] EXCEPT !.retries = request[ptr].retries - 1, !.sentat = now,
                    !.timeout = request[ptr].timeout + request[ptr].timeout]
      /\ \A y \in Request \ {ptr} : req[y] = request[y]
  BY <1>0, <1>3 DEF DataType
<1>8. /\ req[ptr] \in RequestType /\ req[ptr].queryname = request[ptr].queryname
      /\ req[ptr].sends = request[ptr].sends
  <2>1. PICK a \in 0 .. Retries, b \in Nat, c \in Nat :
          req[ptr] = [request[ptr] EXCEPT !.retries = a, !.sentat = b, !.timeout = c]
    BY <1>5, <1>7
  <2> DEFINE old == request[ptr]
             new == req[ptr]
  <2>2. old \in RequestType /\ new = [old EXCEPT !.retries = a, !.sentat = b, !.timeout = c]
    BY <1>4, <2>1
  <2> HIDE DEF old, new
  <2>3. new \in RequestType /\ new.queryname = old.queryname /\ new.sends = old.sends
    BY <2>2 DEF RequestType
  <2> QED
    BY <2>3 DEF old, new
<1>9. req \in [Request -> RequestType] /\ request[x].sends \in Nat
  BY <1>0, <1>7, <1>8 DEF DataType, RequestType
<1> HIDE DEF req
<1>10. /\ \A y \in Request \ {ptr} : res.request[y] = req[y]
       /\ \/ res.request[ptr] = req[ptr]
          \/ up # {} => \E p \in res.sent : /\ p.id = res.request[ptr].id
                                            /\ p.name = res.request[ptr].queryname
  BY <1>0, <1>2, <1>3, <1>6, <1>8, <1>9, QueryName
<1>11. x = ptr /\ res.request[ptr] # req[ptr]
  <2>1. \A k \in Nat : ~(k > k)
    OBVIOUS
  <2>2. request'[x] # request[x] /\ request'[x].sends # request[x].sends
    BY <1>9, <2>1
  <2>3. x = ptr
    BY <1>2, <1>7, <1>10, <2>2
  <2>4. res.request[ptr].sends # req[ptr].sends
    BY <1>2, <1>8, <2>2, <2>3
  <2> QED
    BY <2>3, <2>4
<1> QED
  BY <1>2, <1>10, <1>11 DEF AskedIn

LEMMA StepSends ==
  ASSUME IInv, Next, up # {}, NEW x \in Request, request'[x].sends > request[x].sends
  PROVE  AskedIn(sent', request', x)
<1>0. DataType /\ PassType /\ CoreInv /\ PassInv
  BY TypeParts DEF IInv
<1>1. request[x].sends \in Nat
  BY <1>0 DEF DataType, RequestType
<1>2. CASE \E q \in Query : Lookup(q, "A") \/ Lookup(q, "PTR")
  BY <1>2, LookupSends
<1>3. CASE Resend
  BY <1>3, ResendSends
<1>4. CASE \E p \in sent, reply \in Reply : res_read_single_reply(p, reply)
  <2>1. PICK p \in sent, reply \in Reply : res_read_single_reply(p, reply)
    BY <1>4
  <2> DEFINE r == find_id(p.id)
  <2>2. r \in Listed
    BY <1>0, <2>1, FindId DEF res_read_single_reply
  <2>3. \/ UNCHANGED request
        \/ request' = [request EXCEPT ![r] = FreedRequest]
        \/ FollowPtr(r)
    BY <2>1 DEF res_read_single_reply, Process, CallBack, Free
  <2> HIDE DEF r
  <2>4. ~(UNCHANGED request)
    BY <1>1
  <2>5. request' # [request EXCEPT ![r] = FreedRequest]
    BY <1>0, <1>1 DEF FreedRequest, DataType
  <2> QED
    BY <1>0, <2>2, <2>3, <2>4, <2>5, FollowPtrSends
<1>5. CASE \E q \in Query : mowgli_dns_evloop_delete_queries(q)
  BY <1>1, <1>5 DEF mowgli_dns_evloop_delete_queries, FreedRequest
<1>6. CASE mowgli_dns_evloop_restart
  BY <1>1, <1>6 DEF mowgli_dns_evloop_restart, FreedRequest
<1>7. CASE TimeoutCallback \/ TimeoutRemove
  <2>1. CASE TimeoutCallback
    <3>1. request' = [request EXCEPT ![ptr].retries = @ - 1]
      BY <2>1 DEF TimeoutCallback
    <3>2. request'[x].sends = request[x].sends
      BY <1>0, <3>1 DEF DataType, RequestType
    <3> QED
      BY <1>1, <3>2
  <2>2. CASE TimeoutRemove
    <3>1. request' = [request EXCEPT ![ptr] = FreedRequest]
      BY <2>2 DEF TimeoutRemove, Free
    <3>2. request'[x] = request[x] \/ request'[x] = FreedRequest
      BY <1>0, <3>1 DEF DataType
    <3> QED
      BY <1>1, <3>2 DEF FreedRequest
  <2> QED
    BY <1>7, <2>1, <2>2
<1>8. CASE timeout_resolver \/ NotExpired \/ Rescheduled \/ Tick \/ Network
  BY <1>1, <1>8 DEF timeout_resolver, NotExpired, Rescheduled, Tick, Network
<1> QED
  BY <1>2, <1>3, <1>4, <1>5, <1>6, <1>7, <1>8 DEF Next, Pass

\* Whatever the timeout counts of the servers and state->retrycnt are, a
\* request that is counted as sent went to a server if sendto works for any.
THEOREM RequestsAreSent == Spec => SentIfPossible
<1>1. IInv /\ [Next]_vars =>
        [\A r \in Request :
           request'[r].sends > request[r].sends /\ up # {} =>
             \E p \in sent' : p.id = request'[r].id /\ p.name = request'[r].queryname]_vars
  BY StepSends DEF AskedIn
<1> QED
  BY <1>1, ResolverInvariant, PTL DEF Spec, SentIfPossible
=============================================================================
