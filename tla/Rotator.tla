------------------------------ MODULE Rotator ------------------------------
(***************************************************************************)
(* The IPv6 rotator (ipv6-rotator/src/main.rs): the source addresses it    *)
(* generates and one connection through its proxy.  Connections share      *)
(* nothing but the pool.  An address is a number of Width bits; a stream   *)
(* is a sequence of numbered chunks, and 0 is the head that a plain        *)
(* request forwards.  What is written to a socket counts as delivered.     *)
(***************************************************************************)
EXTENDS Integers, Sequences, SequencesExt, FiniteSets

CONSTANTS Width,      \* bits of an address, 128 in the code
          PoolSize,   \* --sources-size
          PrefixArgs, \* arguments of --prefix: base and length
          V6, V4,     \* addresses a target may resolve to
          MaxChunks,  \* bound on what either side sends
          BufferSize  \* chunks in the buffer of io::copy

NoAddress == "none"

ASSUME RotatorAssumption ==
    /\ Width \in Nat \ {0} /\ {PoolSize, MaxChunks} \subseteq Nat
    /\ BufferSize \in Nat \ {0}
    /\ V6 \cap V4 = {} /\ NoAddress \notin V6 \cup V4
    /\ PrefixArgs \subseteq [base : 0..(2^Width - 1), len : 0..Width]

Ways == {"up", "down"}   \* from the client to the target, and back

VARIABLES prefix,   \* --prefix
          sources,  \* source addresses, none before main() has made them
          conn,     \* the connection: where its handler is, its method, the
                    \* resolved addresses left to try, the one connected and
                    \* the source it is bound to
          sent,     \* chunks a sender has put on its way
          eof,      \* whether the sender has ended its stream
          unread,   \* chunks in the proxy's socket
          buf,      \* chunks in the buffer of a copy
          got,      \* chunks written to the receiver
          ended     \* the way whose copy ended the tunnel, and how

hostVars == <<prefix, sources>>
streamVars == <<sent, eof, unread, buf, got, ended>>
roVars == <<hostVars, conn, streamVars>>

-----------------------------------------------------------------------------
(* Addresses *)

Hosts(p) == 2^(Width - p.len)
Network(p) == p.base - (p.base % Hosts(p))

\* One address for a random number: the suffix zero becomes one, and is or-ed
\* to the network, which is odd only when it leaves no host bits.
PoolAddress(p, r) ==
    IF Network(p) % 2 = 1 THEN Network(p)
    ELSE Network(p) + (IF r % Hosts(p) = 0 THEN 1 ELSE r % Hosts(p))

GeneratePool(p) == {{PoolAddress(p, r[i]) : i \in 1..PoolSize} :
                        r \in [1..PoolSize -> 0..(2^Width - 1)]}

-----------------------------------------------------------------------------
(* main() and a connection, until it has its two sockets *)

RoInit ==
    /\ prefix \in PrefixArgs /\ sources = {}
    /\ conn = [at |-> "none", method |-> "none", left |-> <<>>,
               via |-> NoAddress, source |-> NoAddress]
    /\ sent = [w \in Ways |-> 0] /\ eof = [w \in Ways |-> FALSE]
    /\ unread = [w \in Ways |-> <<>>] /\ buf = [w \in Ways |-> <<>>]
    /\ got = [w \in Ways |-> <<>>] /\ ended = [way |-> "none", how |-> "none"]

\* main() generates the pool, and prints or adds it before it listens.
Listen == /\ sources = {} /\ sources' \in GeneratePool(prefix)
          /\ UNCHANGED <<prefix, conn, streamVars>>

Goto(at) == conn' = [conn EXCEPT !.at = at]
Sends(w) == CASE w = "up" -> conn.at # "none" [] w = "down" -> conn.via # NoAddress

\* The client connects; its head is on the way.
Accept ==
    /\ sources # {} /\ conn.at = "none" /\ Goto("head")
    /\ UNCHANGED <<hostVars, streamVars>>

\* Client and target send and end their streams as they like.
Send(w) ==
    /\ Sends(w) /\ ~eof[w] /\ sent[w] < MaxChunks
    /\ sent' = [sent EXCEPT ![w] = @ + 1]
    /\ unread' = [unread EXCEPT ![w] = Append(@, sent'[w])]
    /\ UNCHANGED <<hostVars, conn, eof, buf, got, ended>>

EndStream(w) ==
    /\ Sends(w) /\ ~eof[w] /\ eof' = [eof EXCEPT ![w] = TRUE]
    /\ UNCHANGED <<hostVars, conn, sent, unread, buf, got, ended>>

\* Mutant: a head read in one go takes what follows it.
ReadHeadBuffered ==
    /\ conn.at = "head"
    /\ \E method \in {"connect", "plain"} :
          conn' = [conn EXCEPT !.at = "lookup", !.method = method]
    /\ unread' = [unread EXCEPT !["up"] = <<>>]
    /\ UNCHANGED <<hostVars, sent, eof, buf, got, ended>>

\* read_http_head() reads byte by byte, so nothing behind the head is taken.
ReadHead ==
    /\ conn.at = "head"
    /\ \E method \in {"connect", "plain"} :
          conn' = [conn EXCEPT !.at = "lookup", !.method = method]
    /\ UNCHANGED <<hostVars, streamVars>>

\* The head is malformed, too large or cut off: 400 or nothing.
RefuseHead ==
    /\ conn.at = "head" /\ Goto("closed") /\ UNCHANGED <<hostVars, streamVars>>

\* What the resolver answers, in any order.
Answers == {q \in UNION {[1..n -> V6 \cup V4] : n \in 1..Cardinality(V6 \cup V4)} :
               \A i, j \in DOMAIN q : q[i] = q[j] => i = j}

\* sort_by_key() puts the IPv6 addresses first and is stable.
Position(q, a) == CHOOSE i \in DOMAIN q : q[i] = a
Ahead(q, a, b) == \/ a \in V6 /\ b \in V4
                  \/ (a \in V6 <=> b \in V6) /\ Position(q, a) < Position(q, b)

AsResolved(q) == {q}   \* mutant: not sorted
Sorted(q) == {s \in Answers :
                /\ ToSet(s) = ToSet(q)
                /\ \A i, j \in DOMAIN s : i < j => Ahead(q, s[i], s[j])}

\* connect_via_ipv6() resolves and picks a source.
Lookup ==
    /\ conn.at = "lookup"
    /\ \E q \in Answers, source \in sources : \E s \in Sorted(q) :
          conn' = [conn EXCEPT !.at = "connecting", !.left = s, !.source = source]
    /\ UNCHANGED <<hostVars, streamVars>>

\* No answer, or no address that accepts: 502.
GiveUp ==
    /\ \/ conn.at = "lookup"
       \/ conn.at = "connecting" /\ conn.left = <<>>
    /\ Goto("closed") /\ UNCHANGED <<hostVars, streamVars>>

ConnectFails ==
    /\ conn.at = "connecting" /\ conn.left # <<>>
    /\ conn' = [conn EXCEPT !.left = Tail(@)]
    /\ UNCHANGED <<hostVars, streamVars>>

\* Only a connection to an IPv6 address is bound to the source.
Connects ==
    /\ conn.at = "connecting" /\ conn.left # <<>>
    /\ LET to == Head(conn.left)
       IN  conn' = [conn EXCEPT !.at = "opening", !.via = to,
                                !.source = IF to \in V6 THEN @ ELSE NoAddress]
    /\ UNCHANGED <<hostVars, streamVars>>

\* CONNECT is answered with 200, the head of a plain request is forwarded.
Open ==
    /\ conn.at = "opening" /\ Goto("tunnel")
    /\ got' = IF conn.method = "plain" THEN [got EXCEPT !["up"] = Append(@, 0)] ELSE got
    /\ UNCHANGED <<hostVars, sent, eof, unread, buf, ended>>

OpenFails ==
    /\ conn.at = "opening" /\ Goto("closed") /\ UNCHANGED <<hostVars, streamVars>>

-----------------------------------------------------------------------------
(* The tunnel: two copies, and tokio::select! ends with the first *)

CopyReads(w) ==
    /\ conn.at = "tunnel" /\ unread[w] # <<>> /\ Len(buf[w]) < BufferSize
    /\ buf' = [buf EXCEPT ![w] = Append(@, Head(unread[w]))]
    /\ unread' = [unread EXCEPT ![w] = Tail(@)]
    /\ UNCHANGED <<hostVars, conn, sent, eof, got, ended>>

CopyWrites(w) ==
    /\ conn.at = "tunnel" /\ buf[w] # <<>>
    /\ got' = [got EXCEPT ![w] = Append(@, Head(buf[w]))]
    /\ buf' = [buf EXCEPT ![w] = Tail(@)]
    /\ UNCHANGED <<hostVars, conn, sent, eof, unread, ended>>

\* A copy is done when it has read the end and written everything; the other
\* is dropped with what it holds, and so are both sockets.
Done(w) == eof[w] /\ unread[w] = <<>> /\ buf[w] = <<>>

CopyEnds(w) ==
    /\ conn.at = "tunnel" /\ Done(w) /\ Goto("closed")
    /\ ended' = [way |-> w, how |-> "eof"]
    /\ UNCHANGED <<hostVars, sent, eof, unread, buf, got>>

CopyFails(w) ==
    /\ conn.at = "tunnel" /\ Goto("closed")
    /\ ended' = [way |-> w, how |-> "error"]
    /\ UNCHANGED <<hostVars, sent, eof, unread, buf, got>>

RoNext ==
    \/ Listen \/ Accept \/ ReadHead \/ RefuseHead \/ Lookup \/ GiveUp
    \/ Connects \/ ConnectFails \/ Open \/ OpenFails
    \/ \E w \in Ways : \/ Send(w) \/ EndStream(w) \/ CopyReads(w) \/ CopyWrites(w)
                       \/ CopyEnds(w) \/ CopyFails(w)

RoSpec == RoInit /\ [][RoNext]_roVars

-----------------------------------------------------------------------------
(* Properties. *)

\* What comes out of either end of a tunnel is what went in, from its start and
\* without a gap, and the copy that ended the tunnel had delivered all of its
\* stream: an answer is whole when the target closes behind it.
StreamsAreWhole ==
    \A w \in Ways :
        LET opened == w = "up" /\ conn.method = "plain" /\ got[w] # <<>>
            start == IF opened THEN 1 ELSE 0
        IN  /\ opened => got[w][1] = 0
            /\ \A i \in (start + 1)..Len(got[w]) : got[w][i] = i - start
            /\ ended = [way |-> w, how |-> "eof"] => Len(got[w]) = sent[w] + start

\* Requests leave from addresses of the prefix, the network's own excepted: a
\* target is reached over IPv4, and so from the host's own address, only when
\* each of the IPv6 addresses that its name resolved to had failed.
RotatedFirst ==
    /\ conn.via \in V6 =>
         /\ conn.source \in sources
         /\ prefix.len < Width =>
              LET host == conn.source - Network(prefix) IN 0 < host /\ host < Hosts(prefix)
    /\ conn.via \in V4 => \A i \in DOMAIN conn.left : conn.left[i] \in V4
=============================================================================
