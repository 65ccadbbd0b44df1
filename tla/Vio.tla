--------------------------------- MODULE Vio ---------------------------------
(***************************************************************************)
(* vio/vio.c, vio/vio_sockets.c and vio/vio_openssl.c: virtual I/O objects *)
(* over sockets, with the default operations and with the OpenSSL ones,    *)
(* and who owns the descriptors, the SSL connections and their contexts.   *)
(*                                                                         *)
(* The system calls and OpenSSL are external: every call ends in one of    *)
(* the outcomes the code tells apart.  socket() and accept() return the    *)
(* lowest descriptor that is free, so that a number is soon used again.    *)
(* An SSL_CTX counts references: SSL_CTX_new and each SSL_new on it take   *)
(* one, SSL_free and SSL_CTX_free drop one.  sendto and recvfrom have the  *)
(* bodies of write and read.  What steers nothing here is left out: the    *)
(* addresses, the error record (it chooses what is logged), ISCLIENT,      *)
(* which nothing reads, the flags NEEDREAD and NEEDWRITE and the interest  *)
(* registered with the event loop, which module Linebuf has for the        *)
(* default operations.  So an operation that only fails, as bind or seek,  *)
(* is no step of this module.                                              *)
(*                                                                         *)
(* What the client keeps to: it uses a descriptor only between the         *)
(* socket() or accept() that gave it and the close() that took it; it      *)
(* gives a VIO object a descriptor only when it has none and is detached   *)
(* (the descriptor and the pollable share a union); setssl comes before    *)
(* the object gets its descriptor, once per connection, and accept on a    *)
(* listening object into one that has no connection.                       *)
(***************************************************************************)
EXTENDS Integers, FiniteSets

CONSTANTS
  VObj,     \* the VIO objects
  VFd,      \* bound: the descriptors the process may open (a set of numbers)
  VConn,    \* bound: elements of ssl_heap (a set of numbers)
  VCtx      \* bound: the SSL contexts made (a set of numbers)

ASSUME VioAssumption == VFd \cup VConn \cup VCtx \subseteq Nat \ {0}

VARIABLES
  vio,      \* struct _mowgli_vio, or Freed
  fds,      \* the open descriptors of the process
  owned,    \* the objects whose descriptor the client has not closed
  conns,    \* the mowgli_ssl_connection_t in use: handle (by the context it
            \* was made from), context, and the object it was made for
  ctxrefs,     \* reference counts of the contexts made so far
  shared    \* per context, the connections closed while others shared it

vioVars == <<vio, fds, owned, conns, ctxrefs, shared>>

Freed == [live |-> FALSE]

\* mowgli_vio_init on a zeroed element of vio_heap
mowgli_vio_init ==
  [live |-> TRUE, fd |-> 0, loop |-> FALSE, flags |-> {}, ssl |-> FALSE, conn |-> 0]

VioInit ==
  /\ vio = [v \in VObj |-> Freed]
  /\ fds = {} /\ owned = {}
  /\ conns = << >> /\ ctxrefs = << >> /\ shared = << >>

Live(v) == vio[v].live

Lowest(S) == CHOOSE x \in S : \A y \in S : x <= y

NextFd == Lowest(VFd \ fds)
NextConn == Lowest(VConn \ DOMAIN conns)
NextCtx == Cardinality(DOMAIN ctxrefs) + 1

\* v has an SSL connection, which privdata points to; after close it does
\* not, although privdata may point to the connection of another object
Connected(v) == vio[v].conn \in DOMAIN conns /\ conns[vio[v].conn].vio = v

\* the function f with x |-> y added, and f without x
With(f, x, y) == [z \in DOMAIN f \cup {x} |-> IF z = x THEN y ELSE f[z]]
Without(f, x) == [z \in DOMAIN f \ {x} |-> f[z]]

-----------------------------------------------------------------------------
(* Flags (vio.h).                                                          *)

Setflag(r, flag) == [r EXCEPT !.flags = @ \cup {flag}]
Clearflag(r, flag) == [r EXCEPT !.flags = @ \ {flag}]

Mutant_SetClosed(r) == r

MOWGLI_VIO_SET_CLOSED(r) ==
  [r EXCEPT !.flags = (@ \ {"CONNECTING", "SSLCONNECTING"}) \cup {"CLOSED"}]

Closed(v) == "CLOSED" \in vio[v].flags

\* v becomes r and nothing else changes
Becomes(v, r) ==
  /\ vio' = [vio EXCEPT ![v] = r]
  /\ UNCHANGED <<fds, owned, conns, ctxrefs, shared>>

Usable(v) == Live(v) /\ v \in owned

-----------------------------------------------------------------------------
(* vio.c.                                                                  *)

mowgli_vio_create(v) ==
  /\ ~Live(v)
  /\ Becomes(v, mowgli_vio_init)

mowgli_vio_eventloop_attach(v) ==
  /\ Live(v)
  /\ ~vio[v].loop
  /\ Becomes(v, [vio[v] EXCEPT !.loop = TRUE])

\* without a descriptor detach returns early and the object stays attached
Detached(r) == [r EXCEPT !.loop = r.loop /\ r.fd = 0]

mowgli_vio_eventloop_detach(v) ==
  /\ Live(v)
  /\ vio[v].loop
  /\ Becomes(v, Detached(vio[v]))

-----------------------------------------------------------------------------
(* Descriptors.                                                            *)

\* a client may ask for a descriptor for v
Vacant(v) ==
  /\ Live(v)
  /\ v \notin owned
  /\ ~vio[v].loop

mowgli_vio_default_socket(v, stream) ==
  /\ Vacant(v)
  /\ vio[v].ssl => Connected(v)
  /\ VFd \ fds # {}
  /\ LET r == [vio[v] EXCEPT !.fd = NextFd]
     IN  vio' = [vio EXCEPT ![v] = IF stream THEN [r EXCEPT !.flags = @ \ {"CONNECTING", "CLOSED"}]
                                             ELSE r]
  /\ fds' = fds \cup {NextFd}
  /\ owned' = owned \cup {v}
  /\ UNCHANGED <<conns, ctxrefs, shared>>

mowgli_vio_default_listen(v) ==
  /\ Usable(v) /\ ~vio[v].ssl
  /\ Becomes(v, [vio[v] EXCEPT !.flags = (@ \ {"CLOSED"}) \cup {"SERVER"}])

\* EINPROGRESS: nothing but error.op is set
mowgli_vio_default_connect(v) ==
  /\ Usable(v) /\ ~vio[v].ssl
  /\ Becomes(v, [vio[v] EXCEPT !.flags = (@ \ {"SERVER", "CLOSED"}) \cup {"CONNECTING"}])

\* the listening object v and the object w a client may accept into
Accepts(v, w) ==
  /\ Usable(v) /\ "SERVER" \in vio[v].flags
  /\ w # v /\ Vacant(w)
  /\ ~Connected(w)
  /\ VFd \ fds # {}

\* CLOSED is not reset
mowgli_vio_default_accept(v, w) ==
  /\ Accepts(v, w) /\ ~vio[v].ssl /\ ~vio[w].ssl
  /\ vio' = [vio EXCEPT ![w] = [vio[w] EXCEPT !.fd = NextFd, !.flags = @ \ {"SERVER"}]]
  /\ fds' = fds \cup {NextFd}
  /\ owned' = owned \cup {w}
  /\ UNCHANGED <<conns, ctxrefs, shared>>

-----------------------------------------------------------------------------
(* Reading and writing.                                                    *)

mowgli_vio_default_read(r, hangup) ==
  IF hangup THEN MOWGLI_VIO_SET_CLOSED(r) ELSE Clearflag(r, "CONNECTING")

mowgli_vio_default_write(r) == Clearflag(r, "CONNECTING")

DefaultRead(v) ==
  /\ Usable(v) /\ ~vio[v].ssl
  /\ \E hangup \in BOOLEAN : Becomes(v, mowgli_vio_default_read(vio[v], hangup))

DefaultWrite(v) ==
  /\ Usable(v) /\ ~vio[v].ssl
  /\ Becomes(v, mowgli_vio_default_write(vio[v]))

-----------------------------------------------------------------------------
(* OpenSSL.                                                                *)

NewConnection(v) == [handle |-> 0, context |-> 0, vio |-> v]

\* the connection is new, the operations become the OpenSSL ones
mowgli_vio_openssl_setssl(v) ==
  /\ Live(v)
  /\ ~Connected(v)
  /\ VConn \ DOMAIN conns # {}
  /\ vio' = [vio EXCEPT ![v] = [vio[v] EXCEPT !.ssl = TRUE, !.conn = NextConn]]
  /\ conns' = With(conns, NextConn, NewConnection(v))
  /\ UNCHANGED <<fds, owned, ctxrefs, shared>>

\* what SSL_CTX_new and SSL_new leave in connection k: whatever was there
\* before is overwritten, not freed
Fresh(k, outcome) ==
  CASE outcome = "noctx" ->
         /\ conns' = [conns EXCEPT ![k].context = 0]
         /\ UNCHANGED ctxrefs
    [] outcome = "nossl" ->
         /\ conns' = [conns EXCEPT ![k].handle = 0, ![k].context = NextCtx]
         /\ ctxrefs' = With(ctxrefs, NextCtx, 1)
    [] OTHER ->
         /\ conns' = [conns EXCEPT ![k].handle = NextCtx, ![k].context = NextCtx]
         /\ ctxrefs' = With(ctxrefs, NextCtx, 2)

Made(outcome) == shared' = IF outcome = "noctx" THEN shared ELSE With(shared, NextCtx, 0)

\* r after the handshake; SSL_connect may want to read or to write
Shaken(r, outcome) ==
  CASE outcome \in {"want", "done"} -> Clearflag(r, "SSLCONNECTING")
    [] outcome = "wantconnect" -> Setflag(r, "CONNECTING")
    [] OTHER -> r

mowgli_vio_openssl_client_handshake(v, r) ==
  /\ NextCtx \in VCtx
  /\ \E outcome \in {"noctx", "nossl", "fail", "want", "wantconnect", "done"} :
       /\ Fresh(r.conn, outcome)
       /\ Made(outcome)
       /\ vio' = [vio EXCEPT ![v] = Shaken(r, outcome)]
  /\ UNCHANGED <<fds, owned>>

Secured(v) == Usable(v) /\ vio[v].ssl

\* EINPROGRESS leaves the handshake to the next read or write
mowgli_vio_openssl_default_connect(v) ==
  /\ Secured(v)
  /\ \/ Becomes(v, Setflag(Setflag(vio[v], "CONNECTING"), "SSLCONNECTING"))
     \/ mowgli_vio_openssl_client_handshake(v,
          [vio[v] EXCEPT !.flags = @ \ {"SERVER", "CONNECTING"}])

\* "fail": the certificate, the key, listen() or SSL_set_fd
mowgli_vio_openssl_default_listen(v) ==
  /\ Secured(v)
  /\ NextCtx \in VCtx
  /\ \E outcome \in {"noctx", "nossl", "fail", "done"} :
       /\ Fresh(vio[v].conn, outcome)
       /\ Made(outcome)
       /\ vio' = [vio EXCEPT ![v] = IF outcome = "done" THEN Setflag(@, "SERVER") ELSE @]
  /\ UNCHANGED <<fds, owned>>

\* newconnection: a handle of its own, the context of the listening object
SharedContext(w, c) == [handle |-> c, context |-> c, vio |-> w]

\* a handshake that SSL_accept does not finish leaves the flags alone
Accepted(r, done) ==
  IF done THEN [r EXCEPT !.flags = @ \ {"SERVER"}] ELSE r

mowgli_vio_openssl_default_accept(v, w) ==
  /\ Accepts(v, w) /\ vio[v].ssl
  /\ VConn \ DOMAIN conns # {}
  /\ LET c == conns[vio[v].conn].context
         r == [vio[w] EXCEPT !.fd = NextFd, !.ssl = TRUE, !.conn = NextConn]
     IN  /\ c # 0 /\ ctxrefs[c] > 0
         /\ \E done \in BOOLEAN : vio' = [vio EXCEPT ![w] = Accepted(r, done)]
         /\ conns' = With(conns, NextConn, SharedContext(w, c))
         /\ ctxrefs' = [ctxrefs EXCEPT ![c] = @ + 1]
  /\ fds' = fds \cup {NextFd}
  /\ owned' = owned \cup {w}
  /\ UNCHANGED shared

\* read and write alike; SSL_read and SSL_write change nothing but for a
\* hang-up
mowgli_openssl_read_or_write(v) ==
  /\ Secured(v)
  /\ LET r == Clearflag(vio[v], "CONNECTING")
     IN  IF "SSLCONNECTING" \in r.flags
         THEN mowgli_vio_openssl_client_handshake(v, r)
         ELSE \E hangup \in BOOLEAN :
                /\ hangup => conns[r.conn].handle # 0
                /\ Becomes(v, IF hangup THEN MOWGLI_VIO_SET_CLOSED(r) ELSE r)

-----------------------------------------------------------------------------
(* Closing.                                                                *)

\* SSL_free and SSL_CTX_free of connection k
Released(k) ==
  LET drop(c) == (IF c = conns[k].handle THEN 1 ELSE 0) + (IF c = conns[k].context THEN 1 ELSE 0)
  IN  [c \in DOMAIN ctxrefs |-> ctxrefs[c] - drop(c)]

\* the context of k is another connection's too, since an accept
Borrowed(k) ==
  \E j \in DOMAIN conns \ {k} : conns[j].context = conns[k].context /\ conns[k].context # 0

\* mowgli_vio_close on v, which is r and is freed next if `free'; without a
\* descriptor the default close does nothing, without a handle the OpenSSL
\* one does nothing
Close(v, r, free) ==
  LET done == /\ vio' = [vio EXCEPT ![v] = IF free THEN Freed ELSE MOWGLI_VIO_SET_CLOSED(r)]
              /\ fds' = fds \ {r.fd}
              /\ owned' = owned \ {v}
      refused == /\ vio' = [vio EXCEPT ![v] = IF free THEN Freed ELSE r]
                 /\ UNCHANGED fds
                 /\ owned' = IF free THEN owned \ {v} ELSE owned
  IN  IF r.ssl
      THEN IF conns[r.conn].handle = 0
           THEN refused /\ UNCHANGED <<conns, ctxrefs, shared>>
           ELSE /\ done
                /\ ctxrefs' = Released(r.conn)
                /\ shared' = IF Borrowed(r.conn)
                             THEN [shared EXCEPT ![conns[r.conn].context] = @ + 1]
                             ELSE shared
                /\ conns' = Without(conns, r.conn)
      ELSE /\ IF r.fd = 0 THEN refused ELSE done
           /\ UNCHANGED <<conns, ctxrefs, shared>>

mowgli_vio_close(v) ==
  /\ Usable(v)
  /\ Close(v, vio[v], FALSE)

Mutant_MustClose(r) == ~r.loop /\ "CLOSED" \notin r.flags /\ "CONNECTING" \notin r.flags

\* the test of mowgli_vio_destroy
MustClose(r) == "CLOSED" \notin r.flags

mowgli_vio_destroy(v) ==
  /\ Live(v)
  /\ LET r == Detached(vio[v])
     IN  IF MustClose(r)
         THEN Close(v, r, TRUE)
         ELSE /\ vio' = [vio EXCEPT ![v] = Freed]
              /\ owned' = owned \ {v}
              /\ UNCHANGED <<fds, conns, ctxrefs, shared>>

-----------------------------------------------------------------------------
VioNext ==
  \E v \in VObj :
    \/ mowgli_vio_create(v) \/ mowgli_vio_destroy(v) \/ mowgli_vio_close(v)
    \/ mowgli_vio_eventloop_attach(v) \/ mowgli_vio_eventloop_detach(v)
    \/ \E stream \in BOOLEAN : mowgli_vio_default_socket(v, stream)
    \/ mowgli_vio_default_listen(v) \/ mowgli_vio_default_connect(v)
    \/ DefaultRead(v) \/ DefaultWrite(v)
    \/ mowgli_vio_openssl_setssl(v)
    \/ mowgli_vio_openssl_default_listen(v) \/ mowgli_vio_openssl_default_connect(v)
    \/ mowgli_openssl_read_or_write(v)
    \/ \E w \in VObj : mowgli_vio_default_accept(v, w) \/ mowgli_vio_openssl_default_accept(v, w)

VioSpec == VioInit /\ [][VioNext]_vioVars

-----------------------------------------------------------------------------
(* Properties.                                                             *)

\* A descriptor belongs to one VIO object from the socket() or accept() that
\* opened it to its close(), although its number is used again: each object
\* in use has an open descriptor of its own, and an object that destroy
\* would still close (ISCLOSED is not set) is one the client has not closed,
\* so that destroy never closes the descriptor of another object.
DescriptorsOwned ==
  /\ \A v \in owned : Live(v) /\ vio[v].fd \in fds
  /\ \A v, w \in owned : vio[v].fd = vio[w].fd => v = w
  /\ \A v \in VObj : Live(v) /\ vio[v].fd # 0 /\ ~Closed(v) => v \in owned

\* An SSL object in use has a connection of its own, and the count of a
\* context covers the connections' pointer to it and every handle on it,
\* except that each close of one of several connections that share it leaves
\* it one short: accept copies the listening object's pointer without taking
\* the reference that close then drops.
ConnectionsOwned ==
  LET secured == {v \in owned : vio[v].ssl}
      handles(c) == Cardinality({k \in DOMAIN conns : conns[k].handle = c})
      maker(c) == IF \E k \in DOMAIN conns : conns[k].context = c THEN 1 ELSE 0
  IN  /\ \A v \in secured : Connected(v)
      /\ \A c \in DOMAIN ctxrefs : ctxrefs[c] + shared[c] >= handles(c) + maker(c)

\* What the socket layer and the OpenSSL layer hold, in every interleaving
\* of the calls on two objects: descriptors and connections have one owner.
VioOwnership == DescriptorsOwned /\ ConnectionsOwned

\* An open descriptor is lost only by destroying the object it belongs to,
\* and then only when a remote hang-up, or an accept into an object closed
\* before, left ISCLOSED set, or when the object has an SSL connection
\* without a handle.
VioLost ==
  [][\A v \in owned :
       /\ vio[v].fd \in fds'
       /\ \A w \in owned' : vio'[w].fd # vio[v].fd
       => /\ ~vio'[v].live
          /\ Closed(v) \/ (vio[v].ssl /\ conns[vio[v].conn].handle = 0)]_vioVars
=============================================================================
