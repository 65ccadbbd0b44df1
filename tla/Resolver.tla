------------------------------ MODULE Resolver ------------------------------
(***************************************************************************)
(* dns/evloop_res.c: the asynchronous resolver.  Clients start lookups;    *)
(* each is a request on request_list, sent over UDP to a name server and   *)
(* resent by the timer `timeout_resolver'.  Datagrams are lost, duplicated *)
(* and reordered: any packet ever sent may be answered, at any time, any   *)
(* number of times or never.                                               *)
(*                                                                         *)
(* A query (mowgli_dns_query_t) is used for one lookup.  <<"A", q>> is the *)
(* host name it is about, <<"PTR", q>> the in-addr.arpa name of its        *)
(* address.  Client code runs between events and inside the callback of a  *)
(* query; there it starts lookups but deletes no queries.  A lookup made   *)
(* in the callback of a reply is one right after that reply: the request   *)
(* about to be removed only keeps its id from being used.                  *)
(***************************************************************************)
EXTENDS Integers, Lists

CONSTANTS
  Query, Request, Null,
  Id, Zero,        \* the 16-bit identifiers; 0 is also that of a request never sent
  NsCount,         \* number of name servers
  Retries,         \* request->retries of a new request (3)
  InitialTimeout,  \* request->timeout of a new request (4 s)
  AR_TTL,          \* MOWGLI_DNS_AR_TTL (600 s)
  MaxTime,         \* bound: the clock stops here
  LastLookup,      \* bound: no lookup starts after this time
  MayFail,         \* sendto and res_mkquery may fail
  MayRestart       \* mowgli_dns_evloop_restart is called

ASSUME ResolverAssumption ==
  /\ Null \notin Request
  /\ Zero \in Id
  /\ {NsCount, Retries, InitialTimeout, AR_TTL} \subseteq Nat \ {0}
  /\ {MaxTime, LastLookup} \subseteq Nat
  /\ {MayFail, MayRestart} \subseteq BOOLEAN

VARIABLES
  now,            \* mowgli_eventloop_get_time
  timer,          \* when timeout_resolver runs next
  request_list,
  request,        \* the mowgli_dns_reslist_t structures
  timeout_count,  \* state->timeout_count, per server
  retrycnt,       \* state->retrycnt
  up,             \* the servers sendto works for
  sent,           \* every packet sent: [id, name, ns]
  outcome,        \* per query: what the client knows of it
  answered,       \* per query: the name the answer was about
  passing,        \* timeout_query_list is running
  ptr, next_ptr, next_time, \* its local variables
  in_callback     \* it is in the callback of the query of ptr

svars == <<timeout_count, retrycnt, up, sent>>
passvars == <<passing, ptr, next_ptr, next_time, in_callback>>
vars == <<now, timer, request_list, request, svars, outcome, answered, passvars>>

Ns == 0 .. NsCount - 1
Name == {"A", "PTR"} \X Query
Packet == [id : Id, name : Name, ns : Ns]

\* the result codes callbacks get
Result == {"SUCCESS", "NXDOMAIN", "INVALID", "TIMEOUT"}

FreedRequest ==
  [query |-> Null, type |-> "A", queryname |-> Null, id |-> Zero, retries |-> 0,
   sends |-> 0, sentat |-> 0, timeout |-> 0, lastns |-> 0]

Listed == ToSet(request_list)

Init ==
  /\ now = 0
  /\ timer = 1
  /\ request_list = << >>
  /\ request = [r \in Request |-> FreedRequest]
  /\ timeout_count = [ns \in Ns |-> 0]
  /\ retrycnt = 0
  /\ up = Ns
  /\ sent = {}
  /\ outcome = [q \in Query |-> "none"]
  /\ answered = [q \in Query |-> Null]
  /\ passing = FALSE /\ in_callback = FALSE
  /\ ptr = Null /\ next_ptr = Null /\ next_time = 0

Idle == ~passing

-----------------------------------------------------------------------------
(* Sending.                                                                *)

retryfreq(timeouts) == 3 ^ (IF timeouts < 5 THEN timeouts ELSE 5)

\* the loops of send_res_msg try the servers in a cycle from rcount - 1 on:
\* the one of S they come to first
FirstOf(rcount, S) ==
  CHOOSE ns \in S : \A m \in S : (ns - rcount + 1) % NsCount <= (m - rcount + 1) % NsCount

Mutant_SendResMsg(rcount) ==
  LET first == {ns \in up : timeout_count[ns] = 0}
  IN  IF first # {} THEN FirstOf(rcount, first) ELSE -1

(* send_res_msg: servers that seem to work (or are due for another try)    *)
(* first, then the broken ones; -1 when sendto fails for all.              *)
send_res_msg(rcount) ==
  LET first  == {ns \in up : \/ timeout_count[ns] = 0
                             \/ (retrycnt + 1) % retryfreq(timeout_count[ns]) = 0}
      second == {ns \in up : timeout_count[ns] # 0}
  IN  IF first # {} THEN FirstOf(rcount, first)
      ELSE IF second # {} THEN FirstOf(rcount, second)
      ELSE -1

Mutant_FreshIds(list, req) == Id

\* a new request's id, checked with find_id over the requests on `list'
FreshIds(list, req) == Id \ {req[r].id : r \in ToSet(list)}

(* query_name of request r, which `req' describes and `list' already holds: *)
(* a new id, and one more send.  When res_mkquery fails nothing is sent.   *)
(* The results it can have:                                                *)
query_name(r, req, list) ==
  LET sends == req[r].sends + 1
      Outcome(id, ns) ==
        [request  |-> [req EXCEPT ![r].id = id, ![r].sends = sends,
                                  ![r].lastns = IF ns # -1 THEN ns ELSE @],
         sent     |-> IF ns = -1 THEN sent
                      ELSE sent \cup {[id |-> id, name |-> req[r].queryname, ns |-> ns]},
         retrycnt |-> retrycnt + 1]
  IN  {Outcome(id, send_res_msg(sends)) : id \in FreshIds(list, req)}
      \cup IF MayFail THEN {[request |-> req, sent |-> sent, retrycnt |-> retrycnt]} ELSE {}

\* make_request
NewRequest(q, type) ==
  [query |-> q, type |-> type, queryname |-> <<type, q>>, id |-> Zero, retries |-> Retries,
   sends |-> 0, sentat |-> now, timeout |-> InitialTimeout, lastns |-> 0]

\* rem_request
Free(req, r) == [req EXCEPT ![r] = FreedRequest]

-----------------------------------------------------------------------------
(* The client.                                                             *)

MayCall == Idle \/ in_callback

\* mowgli_dns_evloop_gethost_byname (type A) and _byaddr (type PTR)
Lookup(q, type) ==
  /\ MayCall
  /\ outcome[q] = "none"
  /\ now <= LastLookup
  /\ outcome' = [outcome EXCEPT ![q] = "pending"]
  /\ \E r \in Request \ Listed :
       /\ request_list' = Append(request_list, r)
       /\ LET req == [request EXCEPT ![r] = NewRequest(q, type)]
          IN  \E res \in query_name(r, req, Append(request_list, r)) :
                /\ request' = res.request
                /\ sent' = res.sent
                /\ retrycnt' = res.retrycnt
  /\ UNCHANGED <<now, timer, timeout_count, up, answered, passvars>>

mowgli_dns_evloop_delete_queries(q) ==
  /\ Idle
  /\ outcome[q] = "pending"
  /\ LET mine == {r \in Listed : request[r].query = q}
     IN  /\ request_list' = Kept(request_list, Request \ mine)
         /\ request' = [r \in Request |-> IF r \in mine THEN FreedRequest ELSE request[r]]
  /\ outcome' = [outcome EXCEPT ![q] = "deleted"]
  /\ UNCHANGED <<now, timer, svars, answered, passvars>>

(* mowgli_dns_evloop_restart: the state is freed with its request_list and *)
(* created anew; no callback is made for what was outstanding.             *)
mowgli_dns_evloop_restart ==
  /\ Idle
  /\ MayRestart
  /\ request_list' = << >>
  /\ request' = [r \in Request |-> FreedRequest]
  /\ timeout_count' = [ns \in Ns |-> 0]
  /\ retrycnt' = 0
  /\ timer' = now + 1
  /\ outcome' = [q \in Query |-> IF outcome[q] = "pending" THEN "dropped" ELSE outcome[q]]
  /\ UNCHANGED <<now, up, sent, answered, passvars>>

-----------------------------------------------------------------------------
(* res_read_single_reply.                                                  *)

\* the first request of the list with this id
find_id(id) ==
  LET matching == {i \in DOMAIN request_list : request[request_list[i]].id = id}
  IN  IF matching = {} THEN Null ELSE request_list[Min(matching)]

Mutant_CheckQuestion(r, p) == TRUE

check_question(r, p) == request[r].queryname = p.name

Mutant_CallBackKeeps(r, result) ==
  /\ outcome' = [outcome EXCEPT ![request[r].query] = result]
  /\ UNCHANGED <<request_list, request, sent, retrycnt>>

\* the query's callback, then rem_request
CallBack(r, result) ==
  /\ outcome' = [outcome EXCEPT ![request[r].query] = result]
  /\ request_list' = Unlink(request_list, r)
  /\ request' = Free(request, r)
  /\ UNCHANGED <<sent, retrycnt>>

(* The name an address resolves to is looked up in turn, as a new request  *)
(* of the same query, before the old one is removed.                       *)
FollowPtr(r) ==
  \E r2 \in Request \ Listed :
    LET q    == request[r].query
        list == Append(request_list, r2)
        req  == [request EXCEPT ![r2] = NewRequest(q, "A")]
    IN  \E res \in query_name(r2, req, list) :
          /\ request' = Free(res.request, r)
          /\ sent' = res.sent
          /\ retrycnt' = res.retrycnt
          /\ request_list' = Unlink(list, r)
          /\ UNCHANGED <<outcome, answered>>

(* proc_answer: the answers of a reply, by what each record is, read until *)
(* one decides.  A CNAME is passed over ("real answer will follow") and    *)
(* when nothing follows it the result is still 1.  The data of a record of *)
(* a type it does not know is not passed over: what is read next can be    *)
(* anything.  The result is the set of values that may be returned.        *)
proc_answer(type, answers) ==
  LET rest == SelectSeq(answers, LAMBDA rec : rec # "CNAME")
  IN  CASE rest = << >>           -> {TRUE}
        [] Head(rest) = "unknown" -> BOOLEAN
        [] OTHER                  -> {Head(rest) = type}

(* A reply: its response code and its answers, which are not looked at     *)
(* after an error.  "A" and "PTR" are records that decode, "broken" one    *)
(* that does not.                                                          *)
Reply ==
  [rcode : {"NXDOMAIN", "SERVFAIL"}, answers : {<< >>}] \cup
  [rcode : {"NO_ERRORS"},
   answers : {<< >>, <<"A">>, <<"PTR">>, <<"CNAME">>, <<"CNAME", "A">>,
              <<"unknown", "A">>, <<"CNAME", "broken">>}]

\* res_ourserver: a reply from server ns shows that it works
res_ourserver(ns) == timeout_count' = [timeout_count EXCEPT ![ns] = 0]

Process(r, p, reply) ==
  \/ /\ reply.rcode # "NO_ERRORS" \/ reply.answers = << >>
     /\ CallBack(r, IF reply.rcode = "NXDOMAIN" THEN "NXDOMAIN" ELSE "INVALID")
     /\ UNCHANGED answered
  \/ /\ reply.rcode = "NO_ERRORS" /\ reply.answers # << >>
     /\ \E decoded \in proc_answer(request[r].type, reply.answers) :
          \/ /\ ~decoded
             /\ CallBack(r, "INVALID")
             /\ UNCHANGED answered
          \/ /\ decoded
             /\ request[r].type = "A"
             /\ CallBack(r, "SUCCESS")
             /\ answered' = [answered EXCEPT ![request[r].query] = p.name]
          \/ /\ decoded
             /\ request[r].type = "PTR"
             /\ FollowPtr(r)

\* a reply to packet p, which some server got
res_read_single_reply(p, reply) ==
  /\ Idle
  /\ find_id(p.id) # Null
  /\ res_ourserver(p.ns)
  /\ LET r == find_id(p.id)
     IN  IF check_question(r, p)
         THEN Process(r, p, reply)
         ELSE UNCHANGED <<request_list, request, sent, retrycnt, outcome, answered>>
  /\ UNCHANGED <<now, timer, up, passvars>>

-----------------------------------------------------------------------------
(* timeout_resolver and timeout_query_list.                                *)

Expires(r) == request[r].sentat + request[r].timeout

Advance ==
  /\ ptr' = next_ptr
  /\ next_ptr' = NextNode(request_list', next_ptr, Null)

\* next_time after request ptr, which is left on the list
Sooner(t) == IF next_time = 0 \/ t < next_time THEN t ELSE next_time

timeout_resolver ==
  /\ Idle
  /\ timer <= now
  /\ passing' = TRUE
  /\ next_time' = 0
  /\ ptr' = HeadNode(request_list, Null)
  /\ next_ptr' = NextNode(request_list, ptr', Null)
  /\ UNCHANGED <<now, timer, request_list, request, svars, outcome, answered, in_callback>>

AtRequest == passing /\ ptr # Null /\ ~in_callback

NotExpired ==
  /\ AtRequest
  /\ now < Expires(ptr)
  /\ next_time' = Sooner(Expires(ptr))
  /\ UNCHANGED <<now, timer, request_list, request, svars, outcome, answered, passing, in_callback>>
  /\ Advance

LastTry(r) == request[r].retries - 1 <= 0

\* the callback is made before the request is removed
TimeoutCallback ==
  /\ AtRequest
  /\ now >= Expires(ptr)
  /\ LastTry(ptr)
  /\ request' = [request EXCEPT ![ptr].retries = @ - 1]
  /\ outcome' = [outcome EXCEPT ![request[ptr].query] = "TIMEOUT"]
  /\ in_callback' = TRUE
  /\ UNCHANGED <<now, timer, request_list, svars, answered, passing, ptr, next_ptr, next_time>>

TimeoutRemove ==
  /\ in_callback
  /\ in_callback' = FALSE
  /\ request_list' = Unlink(request_list, ptr)
  /\ request' = Free(request, ptr)
  /\ UNCHANGED <<now, timer, svars, outcome, answered, passing, next_time>>
  /\ Advance

Resend ==
  /\ AtRequest
  /\ now >= Expires(ptr)
  /\ ~LastTry(ptr)
  /\ timeout_count' = [timeout_count EXCEPT ![request[ptr].lastns] = @ + 1]
  /\ LET req == [request EXCEPT ![ptr].retries = @ - 1,
                                ![ptr].sentat = now,
                                ![ptr].timeout = @ + @]
     IN  \E res \in query_name(ptr, req, request_list) :
           /\ request' = res.request
           /\ sent' = res.sent
           /\ retrycnt' = res.retrycnt
  /\ next_time' = Sooner(Expires(ptr))
  /\ UNCHANGED <<now, timer, up, request_list, outcome, answered, passing, in_callback>>
  /\ Advance

Mutant_NextCheck == MaxTime + 1

\* what timeout_query_list returns
NextCheck == IF next_time > now THEN next_time ELSE now + AR_TTL

\* the pass is over: the timer is set anew
Rescheduled ==
  /\ passing
  /\ ptr = Null
  /\ passing' = FALSE
  /\ next_time' = 0
  /\ timer' = NextCheck
  /\ UNCHANGED <<now, request_list, request, svars, outcome, answered, ptr, next_ptr, in_callback>>

\* the event loop runs a timer that is due before it lets time pass
Tick ==
  /\ Idle
  /\ timer > now
  /\ now < MaxTime
  /\ now' = now + 1
  /\ UNCHANGED <<timer, request_list, request, svars, outcome, answered, passvars>>

\* servers become reachable and unreachable
Network ==
  /\ MayFail
  /\ Idle
  /\ up' \in (SUBSET Ns) \ {up}
  /\ UNCHANGED <<now, timer, request_list, request, timeout_count, retrycnt, sent,
                 outcome, answered, passvars>>

Pass == timeout_resolver \/ NotExpired \/ TimeoutCallback \/ TimeoutRemove \/ Resend \/ Rescheduled

Next ==
  \/ \E q \in Query : Lookup(q, "A") \/ Lookup(q, "PTR")
  \/ \E q \in Query : mowgli_dns_evloop_delete_queries(q)
  \/ mowgli_dns_evloop_restart
  \/ \E p \in sent, reply \in Reply : res_read_single_reply(p, reply)
  \/ Pass
  \/ Network
  \/ Tick

Spec == Init /\ [][Next]_vars

(* The loop runs its timer and the clock advances; no reply is promised.   *)
FairSpec == Spec /\ WF_vars(Pass) /\ SF_vars(Tick)

-----------------------------------------------------------------------------
(* Properties.                                                             *)

\* The state of the resolver keeps its types; request counters stay within
\* their bounds.
TypeOK ==
  /\ now \in Nat /\ timer \in Nat
  /\ request_list \in Seq(Request)
  /\ request \in [Request ->
       [query : Query \cup {Null}, type : {"A", "PTR"}, queryname : Name \cup {Null},
        id : Id, retries : 0 .. Retries, sends : Nat, sentat : Nat,
        timeout : Nat, lastns : Ns]]
  /\ timeout_count \in [Ns -> Nat]
  /\ retrycnt \in Nat
  /\ up \subseteq Ns
  /\ sent \subseteq Packet
  /\ outcome \in [Query -> {"none", "pending", "deleted", "dropped"} \cup Result]
  /\ answered \in [Query -> Name \cup {Null}]
  /\ passing \in BOOLEAN /\ in_callback \in BOOLEAN
  /\ ptr \in Request \cup {Null} /\ next_ptr \in Request \cup {Null}
  /\ next_time \in Nat

\* A lookup that is pending has exactly one request, whatever replies,
\* timeouts and PTR steps happened, and one that is over has none (but for
\* the request of the callback in progress): so no query is called back
\* twice, and none is forgotten.  No request is sent more often than its
\* retries allow.
OneRequestPerQuery ==
  /\ \A q \in Query :
       LET mine == {r \in Listed : request[r].query = q} \ (IF in_callback THEN {ptr} ELSE {})
       IN  IF outcome[q] = "pending" THEN \E r \in mine : mine = {r} ELSE mine = {}
  /\ \A i, j \in DOMAIN request_list : request_list[i] = request_list[j] => i = j
  /\ \A r \in Listed : request[r].sends <= Retries

\* "generate an unique id": requests that are waiting for a reply have
\* different ids, resent ones included.
IdsUnique ==
  \A r1, r2 \in Listed : request[r1].sends > 0 /\ request[r2].sends > 0
                         /\ request[r1].id = request[r2].id => r1 = r2

\* A late reply is never taken for the answer to another lookup ("guard
\* against late replies from previous queries with the same id"): a query
\* only succeeds with an answer about the name it asked for.
AnswerIsForQuery == \A q \in Query : outcome[q] = "SUCCESS" => answered[q] = <<"A", q>>

\* Whatever the timeout counts of the servers, a request is handed to one
\* of them whenever sendto works for one ("No known working nameservers, try
\* some broken one").
SentIfPossible ==
  [][\A r \in Request :
       request'[r].sends > request[r].sends /\ up # {} =>
         \E p \in sent' : p.id = request'[r].id /\ p.name = request'[r].queryname]_vars

\* Every lookup ends, even if no reply ever comes.
LookupsEnd == \A q \in Query : (outcome[q] = "pending") ~> (outcome[q] # "pending")

\* A request is resent, or given up, when its timeout is over ("start at 4
\* and exponential inc."): between events none is overdue by more than the
\* first timeout.
TimeoutsHonoured == Idle => \A r \in Listed : now <= Expires(r) + InitialTimeout
=============================================================================
