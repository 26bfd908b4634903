-------------------------- MODULE PooledRequests --------------------------
(***************************************************************************)
(* The requests a peer makes to another one over the sockets of its        *)
(* ConnectionPool, and how the other peer answers them.                    *)
(*                                                                         *)
(* A connection has two ends: the PeerMessageSocket of the peer that       *)
(* opened it (client) and the one the other peer makes of the first data   *)
(* that arrives (server).  No message says which request it belongs to:    *)
(* an answer goes to whoever listens to the socket it comes from.  Here    *)
(* each message carries the request that caused it, which the code does    *)
(* not have and the properties read; and mixed records the connections on  *)
(* which a request was made too early after one that was given up.         *)
(*                                                                         *)
(* Closing a PeerMessageSocket only tells its pool; the connection itself  *)
(* is cut when the last reference to one of its ends goes.                 *)
(***************************************************************************)
EXTENDS Integers, FiniteSets, Sequences

CONSTANTS
  Requests,
  None,
  MaxIdle,        \* max_number_idle_socket
  NbHashes,       \* chunks of a file whose hashes are asked
  NbPieces,       \* pieces of a complete chunk
  PerBuffer,      \* pieces of a buffer of the uploader
  MaxSockets,     \* bound: connections opened
  MaxFailures,    \* bound: connections lost, or closed by their timer
  MaxGivenUp      \* bound: requests that time out or are dropped

Kinds == {"entries", "hashes", "chunk"}
Sockets == 1 .. MaxSockets
Ends == {"client", "server"}

ASSUME PoolAssumption ==
  /\ None \notin Requests
  /\ MaxIdle \in Nat /\ MaxSockets \in Nat
  /\ MaxFailures \in Nat /\ MaxGivenUp \in Nat
  /\ NbHashes \in Nat \ {0} /\ NbPieces \in Nat \ {0} /\ PerBuffer \in Nat \ {0}

VARIABLES
  sock,           \* sock[e][s]: the PeerMessageSocket of the end e
  inbox,          \* inbox[e][s]: the data sent to the end e and not read
  cut,            \* the connections the network or a parse error has cut
  req,            \* req[r]: the result object of the request r
  nbHash,         \* nbHash[e][s]: the hashes still to come
  browse,         \* browse[s]: entriesResultsToReceive of the server
  owed,           \* owed[s]: the nextHash signals the server waits for
  upload,         \* upload[s]: the ChunkUploader that holds the socket
  known,          \* known[r]: the known bytes of the chunk asked, in pieces
  heard,          \* heard[r]: the requests whose answers r was given
  mixed           \* history: see Start

service == <<browse, owed, upload, known>>
history == <<heard, mixed>>
vars == <<sock, inbox, cut, req, nbHash, service, history>>

NoSocket == [pooled |-> FALSE, active |-> FALSE, listening |-> FALSE,
             closing |-> FALSE, born |-> FALSE]
NewSocket == [NoSocket EXCEPT !.pooled = TRUE, !.active = TRUE,
                              !.listening = TRUE, !.born = TRUE]
NoUpload == [req |-> None, state |-> "none", sent |-> 0]

Init ==
  /\ sock = [e \in Ends |-> [s \in Sockets |-> NoSocket]]
  /\ inbox = [e \in Ends |-> [s \in Sockets |-> <<>>]]
  /\ cut = {}
  /\ \E kind \in [Requests -> Kinds] :
       req = [r \in Requests |-> [kind |-> kind[r], state |-> "new", socket |-> 0, left |-> 0]]
  /\ nbHash = [e \in Ends |-> [s \in Sockets |-> 0]]
  /\ browse = [s \in Sockets |-> None]
  /\ owed = [s \in Sockets |-> <<>>]
  /\ upload = [s \in Sockets |-> NoUpload]
  /\ known \in [Requests -> 0 .. NbPieces]
  /\ \A r \in Requests : req[r].kind # "chunk" => known[r] = NbPieces
  /\ heard = [r \in Requests |-> {}]
  /\ mixed = {}

(***************************************************************************)
(* Who keeps an end of the connection: the list of its pool, a result      *)
(* object that was not cleared, an uploader.                               *)
(***************************************************************************)
Running(r) == req[r].state \in {"asked", "stream"}
Holders(s) == {r \in Requests : Running(r) /\ req[r].socket = s}
Alive(e, s) ==
  \/ sock[e][s].pooled
  \/ e = "client" /\ Holders(s) # {}
  \/ e = "server" /\ upload[s].state # "none"
Open(s) ==
  /\ s \notin cut
  /\ Alive("client", s)
  /\ sock["server"][s].born => Alive("server", s)

-----------------------------------------------------------------------------
(* What the calls make of the sockets S of one end.                        *)

Closed(S, s) ==
  [S EXCEPT ![s].active = FALSE, ![s].listening = FALSE, ![s].closing = S[s].pooled]

SetActive(S, s) == [S EXCEPT ![s].active = TRUE]

(* The idle sockets after the first MaxIdle ones of the list are closed.   *)
BecomeIdle(S) ==
  LET Idle(t) == S[t].pooled /\ ~S[t].active
      TooMany(t) == Idle(t) /\ Cardinality({u \in 1 .. t : Idle(u)}) > MaxIdle
  IN  [t \in Sockets |-> IF TooMany(t) THEN Closed(S, t)[t] ELSE S[t]]

(* valid is what QTcpSocket::isValid says.                                 *)
Finished(S, s, close, valid) ==
  IF ~S[s].active THEN S
  ELSE IF close \/ ~valid THEN Closed(S, s)
  ELSE BecomeIdle([S EXCEPT ![s].active = FALSE, ![s].listening = TRUE])

(* A socket whose connection is gone may still say it is valid.            *)
Valid(s) == IF Open(s) THEN {TRUE} ELSE BOOLEAN

Message(type, r, n) == [type |-> type, req |-> r, n |-> n]

-----------------------------------------------------------------------------
(* The peer that asks.                                                     *)

Request(r) ==
  Message(CASE req[r].kind = "entries" -> "GET_ENTRIES"
            [] req[r].kind = "hashes" -> "GET_HASHES"
            [] req[r].kind = "chunk" -> "GET_CHUNKS", r, 0)

(* Mutant: a socket in use is taken for an idle one. *)
PooledSockets == {s \in Sockets : sock["client"][s].pooled}

IdleSockets == {s \in Sockets : sock["client"][s].pooled /\ ~sock["client"][s].active}
Unborn == {s \in Sockets : ~sock["client"][s].born}
First(Q) == CHOOSE s \in Q : \A t \in Q : s <= t

getASocket ==
  IF IdleSockets # {}
  THEN LET s == First(IdleSockets)
       IN  [socket |-> s, sockets |-> SetActive(sock["client"], s)]
  ELSE LET s == First(Unborn)
       IN  [socket |-> s, sockets |-> [sock["client"] EXCEPT ![s] = NewSocket]]

(* The owner waits no more, and something of the request is still to come. *)
GivenUp(r) == req[r].state \in {"timedout", "dropped"}
StillComing(r, s) ==
  \/ \E e \in Ends : \E k \in DOMAIN inbox[e][s] : inbox[e][s][k].req = r
  \/ browse[s] = r
  \/ \E k \in DOMAIN owed[s] : owed[s][k] = r
  \/ upload[s].state = "run" /\ upload[s].req = r

(* A request is made and started.  The guard bounds the connections.       *)
(* mixed takes the socket if a request given up on it is not over.         *)
Start(r) ==
  /\ req[r].state = "new"
  /\ IdleSockets \cup Unborn # {}
  /\ LET got == getASocket
         s == got.socket
         box == inbox["server"]
         sendable == got.sockets[s].listening /\ (s \in Unborn \/ Open(s))
     IN  /\ sock' = [sock EXCEPT !["client"] = got.sockets]
         /\ req' = [req EXCEPT ![r] = [req[r] EXCEPT !.state = "asked", !.socket = s,
                      !.left = IF req[r].kind = "hashes" THEN NbHashes ELSE 0]]
         /\ inbox' = IF sendable
                     THEN [inbox EXCEPT !["server"][s] = Append(@, Request(r))]
                     ELSE inbox
         /\ mixed' = IF \E q \in Requests :
                          req[q].socket = s /\ GivenUp(q) /\ StillComing(q, s)
                     THEN mixed \cup {s} ELSE mixed
  /\ UNCHANGED <<cut, nbHash, service, heard>>

(* A result made for a peer that another download asks, or has asked and   *)
(* left occupied: it is dropped before its start, its socket unused.       *)
Refuse(r) ==
  /\ req[r].state = "new" /\ req[r].kind # "chunk"
  /\ \E q \in Requests : req[q].kind = req[r].kind /\ req[q].state # "new"
  /\ IdleSockets \cup Unborn # {}
  /\ LET got == getASocket
         s == got.socket
     IN  \E valid \in IF s \in Unborn THEN BOOLEAN ELSE Valid(s) :
           sock' = [sock EXCEPT !["client"] = Finished(got.sockets, s, FALSE, valid)]
  /\ UNCHANGED <<inbox, cut, req, nbHash, service, history>>

(* Mutant: a result that has its answer is not disconnected. *)
StillTaking(s, type) ==
  {r \in Requests : /\ req[r].socket = s
                    /\ \/ req[r].kind = "entries" /\ type = "ENTRIES_RESULT"
                       \/ req[r].state = "asked" /\ req[r].kind = "hashes"
                          /\ type \in {"HASHES_RESULT", "HASH_RESULT"}
                       \/ req[r].state = "asked" /\ req[r].kind = "chunk"
                          /\ type = "CHUNKS_RESULT"}

(* The results connected to newMessage that take a message of this type.   *)
Taking(s, type) ==
  {r \in Holders(s) : /\ req[r].state = "asked"
                      /\ \/ req[r].kind = "entries" /\ type = "ENTRIES_RESULT"
                         \/ req[r].kind = "hashes" /\ type \in {"HASHES_RESULT", "HASH_RESULT"}
                         \/ req[r].kind = "chunk" /\ type = "CHUNKS_RESULT"}

(* The handler of the result is called, and clears it if it is complete.   *)
(* A chunk announced without a size makes it ask to close the socket.      *)
DontHave == -1

AfterMessage(r, m) ==
  CASE m.type = "ENTRIES_RESULT" -> [req[r] EXCEPT !.state = "ended"]
    [] m.type = "HASHES_RESULT" ->
         IF m.n = 0 THEN [req[r] EXCEPT !.state = "ended"] ELSE req[r]
    [] m.type = "HASH_RESULT" ->
         [req[r] EXCEPT !.left = @ - 1, !.state = IF req[r].left = 1 THEN "ended" ELSE @]
    [] m.type = "CHUNKS_RESULT" ->
         IF m.n \in {DontHave, 0} THEN [req[r] EXCEPT !.state = "ended"]
         ELSE [req[r] EXCEPT !.state = "stream", !.left = m.n]

(* PeerMessageSocket::onNewMessage at the end that asked.                  *)
LastOf(s, m) ==
  m.type = "ENTRIES_RESULT" \/ (m.type = "HASH_RESULT" /\ nbHash["client"][s] = 1)

(* What is not a message has no header of the peer: the socket is closed.  *)
ReadAnswer(s) ==
  /\ sock["client"][s].listening /\ Alive("client", s)
  /\ inbox["client"][s] # <<>>
  /\ LET m == Head(inbox["client"][s])
         takers == Taking(s, m.type)
         after == [r \in takers |-> AfterMessage(r, m)]
         read == SetActive(sock["client"], s)
     IN  /\ inbox' = [inbox EXCEPT !["client"][s] = Tail(@)]
         /\ IF m.type = "STREAM"
            THEN /\ sock' = [sock EXCEPT !["client"] = Closed(sock["client"], s)]
                 /\ cut' = cut \cup {s}
                 /\ UNCHANGED <<req, nbHash, heard>>
            ELSE \E valid \in Valid(s) :
                 LET noted == IF LastOf(s, m) THEN Finished(read, s, FALSE, valid) ELSE read
                     ended == {r \in takers : after[r].state = "ended"}
                     nosize == m.type = "CHUNKS_RESULT" /\ m.n = 0
                     done == IF ended # {} THEN Finished(noted, s, nosize, valid) ELSE noted
                     streams == \E r \in takers : after[r].state = "stream"
                 IN  /\ sock' = [sock EXCEPT !["client"] =
                                  IF streams THEN [done EXCEPT ![s].listening = FALSE] ELSE done]
                     /\ req' = [r \in Requests |-> IF r \in takers THEN after[r] ELSE req[r]]
                     /\ nbHash' = [nbHash EXCEPT !["client"][s] =
                                     IF m.type = "HASHES_RESULT" THEN m.n
                                     ELSE IF m.type = "HASH_RESULT" THEN @ - 1 ELSE @]
                     /\ heard' = [r \in Requests |->
                                    IF r \in takers THEN heard[r] \cup {m.req} ELSE heard[r]]
                     /\ cut' = cut
  /\ UNCHANGED <<service, mixed>>

(* The owner clears its result: the download is paused, removed, or has    *)
(* lost its source, or asks again.  The socket is not closed.              *)
Drop(r) ==
  /\ req[r].state = "asked"
  /\ Cardinality({q \in Requests : GivenUp(q)}) < MaxGivenUp
  /\ req' = [req EXCEPT ![r].state = "dropped"]
  /\ \E valid \in Valid(req[r].socket) :
       sock' = [sock EXCEPT !["client"] =
                  Finished(sock["client"], req[r].socket, FALSE, valid)]
  /\ UNCHANGED <<inbox, cut, nbHash, service, history>>

(* The timeout of the result: its handler clears it.                       *)
CloseOnTimeout(r) == req[r].kind = "chunk"
Timeout(r) ==
  /\ req[r].state = "asked"
  /\ Cardinality({q \in Requests : GivenUp(q)}) < MaxGivenUp
  /\ req' = [req EXCEPT ![r].state = "timedout"]
  /\ \E valid \in Valid(req[r].socket) :
       sock' = [sock EXCEPT !["client"] =
                  Finished(sock["client"], req[r].socket, CloseOnTimeout(r), valid)]
  /\ UNCHANGED <<inbox, cut, nbHash, service, history>>

(* The thread of the ChunkDownloader reads raw data, whatever they are, and *)
(* downloadingEnded clears the result once the announced size is there.    *)
ReadStream(r) ==
  /\ req[r].state = "stream"
  /\ LET s == req[r].socket
         last == req[r].left = 1
     IN  /\ inbox["client"][s] # <<>>
         /\ inbox' = [inbox EXCEPT !["client"][s] = Tail(@)]
         /\ heard' = [heard EXCEPT ![r] = @ \cup {Head(inbox["client"][s]).req}]
         /\ req' = [req EXCEPT ![r].left = @ - 1, ![r].state = IF last THEN "ended" ELSE @]
         /\ \E valid \in Valid(s) :
              sock' = [sock EXCEPT !["client"] =
                         IF last THEN Finished(sock["client"], s, FALSE, valid)
                         ELSE sock["client"]]
  /\ UNCHANGED <<cut, nbHash, service, mixed>>

(* The download is stopped, or nothing came for a while: closeTheSocket.   *)
AbortStream(r) ==
  /\ req[r].state = "stream"
  /\ req' = [req EXCEPT ![r].state = "ended"]
  /\ sock' = [sock EXCEPT !["client"] =
                           Finished(sock["client"], req[r].socket, TRUE, TRUE)]
  /\ UNCHANGED <<inbox, cut, nbHash, service, history>>

-----------------------------------------------------------------------------
(* The peer that answers.                                                  *)

(* PeerManager::dataReceived: the first data make the socket of the server. *)
Accept(s) ==
  /\ ~sock["server"][s].born /\ inbox["server"][s] # <<>> /\ Open(s)
  /\ sock' = [sock EXCEPT !["server"][s] = NewSocket]
  /\ UNCHANGED <<inbox, cut, req, nbHash, service, history>>

Readable(s) ==
  /\ sock["server"][s].listening /\ Alive("server", s)
  /\ inbox["server"][s] # <<>>

Took(s) == [inbox EXCEPT !["server"][s] = Tail(@)]
Heard(s) == SetActive(sock["server"], s)

(* send does nothing on a socket that does not listen.                     *)
Speaking(s) == IF sock["server"][s].listening THEN Heard(s) ELSE sock["server"]

(* The server sends ms, from the inboxes box and its sockets S, and, if    *)
(* that ends the transaction, finishes.                                    *)
Answer(box, S, s, ms, over) ==
  /\ inbox' = IF S[s].listening /\ Open(s)
              THEN [box EXCEPT !["client"][s] = @ \o ms] ELSE box
  /\ \E valid \in Valid(s) :
       sock' = [sock EXCEPT !["server"] = IF over THEN Finished(S, s, FALSE, valid) ELSE S]

(* A browse that comes while another one is scanned is ignored; the roots  *)
(* alone are answered at once.                                             *)
GetEntries(s) ==
  /\ Readable(s) /\ Head(inbox["server"][s]).type = "GET_ENTRIES"
  /\ LET r == Head(inbox["server"][s]).req
     IN  \/ /\ browse[s] # None
            /\ Answer(Took(s), Heard(s), s, <<>>, FALSE)
            /\ UNCHANGED browse
         \/ /\ browse[s] = None
            /\ browse' = [browse EXCEPT ![s] = r]
            /\ Answer(Took(s), Heard(s), s, <<>>, FALSE)
         \/ /\ browse[s] = None
            /\ Answer(Took(s), Heard(s), s, <<Message("ENTRIES_RESULT", r, 0)>>, TRUE)
            /\ UNCHANGED browse
  /\ UNCHANGED <<cut, req, nbHash, owed, upload, known, history>>

(* The last directory is scanned, or its scan has timed out.               *)
EntriesResult(s) ==
  /\ browse[s] # None /\ Alive("server", s)
  /\ browse' = [browse EXCEPT ![s] = None]
  /\ Answer(inbox, Speaking(s), s, <<Message("ENTRIES_RESULT", browse[s], 0)>>, TRUE)
  /\ UNCHANGED <<cut, req, nbHash, owed, upload, known, history>>

(* Mutant: the socket is given back with the hashes still to come. *)
GetHashesFinished(s) ==
  /\ Readable(s) /\ Head(inbox["server"][s]).type = "GET_HASHES"
  /\ LET r == Head(inbox["server"][s]).req
     IN  /\ owed' = [owed EXCEPT ![s] = [k \in 1 .. NbHashes |-> r]]
         /\ nbHash' = [nbHash EXCEPT !["server"][s] = NbHashes]
         /\ Answer(Took(s), Heard(s), s, <<Message("HASHES_RESULT", r, NbHashes)>>, TRUE)
  /\ UNCHANGED <<cut, req, browse, upload, known, history>>

(* The new result replaces the one in progress, of which only the signals  *)
(* already posted still come.                                              *)
GetHashes(s) ==
  /\ Readable(s) /\ Head(inbox["server"][s]).type = "GET_HASHES"
  /\ LET r == Head(inbox["server"][s]).req
     IN  \/ /\ \E posted \in 0 .. Len(owed[s]) :
                  owed' = [owed EXCEPT ![s] = SubSeq(@, 1, posted) \o [k \in 1 .. NbHashes |-> r]]
            /\ nbHash' = [nbHash EXCEPT !["server"][s] = NbHashes]
            /\ Answer(Took(s), Heard(s), s, <<Message("HASHES_RESULT", r, NbHashes)>>, FALSE)
         \/ /\ \E posted \in 0 .. Len(owed[s]) :
                  owed' = [owed EXCEPT ![s] = SubSeq(@, 1, posted)]
            /\ nbHash' = [nbHash EXCEPT !["server"][s] = 0]
            /\ Answer(Took(s), Heard(s), s, <<Message("HASHES_RESULT", r, 0)>>, TRUE)
  /\ UNCHANGED <<cut, req, browse, upload, known, history>>

NextHash(s) ==
  /\ owed[s] # <<>> /\ Alive("server", s)
  /\ owed' = [owed EXCEPT ![s] = Tail(@)]
  /\ nbHash' = [nbHash EXCEPT !["server"][s] = @ - 1]
  /\ Answer(inbox, Speaking(s), s, <<Message("HASH_RESULT", Head(owed[s]), 0)>>,
            nbHash["server"][s] = 1)
  /\ UNCHANGED <<cut, req, browse, upload, known, history>>

(* The size announced is what is known of the chunk now.  A socket that is *)
(* no longer in the pool is left to its inactivity timer.                  *)
GetChunks(s) ==
  /\ Readable(s) /\ Head(inbox["server"][s]).type = "GET_CHUNKS"
  /\ LET r == Head(inbox["server"][s]).req
         result(n) == <<Message("CHUNKS_RESULT", r, n)>>
     IN  \/ /\ Answer(Took(s), Heard(s), s, result(DontHave), TRUE)
            /\ UNCHANGED upload
         \/ /\ inbox' = [Took(s) EXCEPT !["client"][s] =
                           IF Open(s) THEN @ \o result(known[r]) ELSE @]
            /\ sock' = [sock EXCEPT !["server"] = [Heard(s) EXCEPT ![s].listening = FALSE]]
            /\ upload' = IF sock["server"][s].pooled
                         THEN [upload EXCEPT ![s] = [req |-> r, state |-> "run", sent |-> 0]]
                         ELSE upload
  /\ UNCHANGED <<cut, req, nbHash, browse, owed, known, history>>

(* ChunkUploader::run, one buffer: it goes on as long as data are known,   *)
(* but Chunk::read fills the buffer up to the end of the chunk.            *)
UploadBuffer(s) ==
  /\ upload[s].state = "run" /\ upload[s].sent < known[upload[s].req]
  /\ LET sent == upload[s].sent
         filled == IF sent + PerBuffer > NbPieces THEN NbPieces - sent ELSE PerBuffer
         data == [k \in 1 .. filled |-> Message("STREAM", upload[s].req, 0)]
     IN  /\ upload' = [upload EXCEPT ![s].sent = sent + filled]
         /\ inbox' = IF Open(s) THEN [inbox EXCEPT !["client"][s] = @ \o data] ELSE inbox
  /\ UNCHANGED <<sock, cut, req, nbHash, browse, owed, known, history>>

(* ChunkUploader::finished; a failed write or read has set closeTheSocket. *)
UploadFinished(s) ==
  /\ upload[s].state = "run"
  /\ \E close \in BOOLEAN, valid \in Valid(s) :
       /\ ~close => known[upload[s].req] > 0 /\ upload[s].sent >= known[upload[s].req]
       /\ sock' = [sock EXCEPT !["server"] = Finished(sock["server"], s, close, valid)]
  /\ upload' = [upload EXCEPT ![s].state = "finished"]
  /\ UNCHANGED <<inbox, cut, req, nbHash, browse, owed, known, history>>

(* upload_lifetime after its end the uploader is forgotten.                *)
UploadTimeout(s) ==
  /\ upload[s].state = "finished"
  /\ upload' = [upload EXCEPT ![s] = NoUpload]
  /\ UNCHANGED <<sock, inbox, cut, req, nbHash, browse, owed, known, history>>

(* Mutant: more bytes are known than the chunk has. *)
ChunkOvergrows(r) ==
  /\ known[r] <= NbPieces
  /\ known' = [known EXCEPT ![r] = @ + 1]
  /\ UNCHANGED <<sock, inbox, cut, req, nbHash, browse, owed, upload, history>>

(* The server is downloading the chunk it is asked for.                    *)
ChunkGrows(r) ==
  /\ known[r] < NbPieces
  /\ known' = [known EXCEPT ![r] = @ + 1]
  /\ UNCHANGED <<sock, inbox, cut, req, nbHash, browse, owed, upload, history>>

-----------------------------------------------------------------------------
(* Both ends.                                                              *)

Gone(e, s) == sock[e][s].closing \/ ~sock[e][s].pooled

Failures ==
  Cardinality(cut)
    + Cardinality({w \in Ends \X Sockets : sock[w[1]][w[2]].born /\ Gone(w[1], w[2])})

CloseSocket(e, s) ==
  /\ sock' = [sock EXCEPT ![e] = Closed(sock[e], s)]
  /\ UNCHANGED <<inbox, cut, req, nbHash, service, history>>

(* inactiveTimer: nothing was sent or received for idle_socket_timeout.    *)
Inactive(e, s) ==
  /\ Failures < MaxFailures
  /\ sock[e][s].active \/ ~Gone(e, s)
  /\ CloseSocket(e, s)

Disconnected(e, s) ==
  /\ sock[e][s].listening /\ Alive(e, s)
  /\ ~Open(s) /\ inbox[e][s] = <<>>
  /\ CloseSocket(e, s)

(* The posted signal closed reaches the pool, which drops its reference:   *)
(* if it was the last, the socket goes with all it waits for.              *)
SocketClosed(e, s) ==
  /\ sock[e][s].closing
  /\ sock' = [sock EXCEPT ![e][s].closing = FALSE, ![e][s].pooled = FALSE]
  /\ LET last == IF e = "client" THEN Holders(s) = {} ELSE upload[s].state = "none"
     IN  /\ inbox' = IF last THEN [inbox EXCEPT ![e][s] = <<>>] ELSE inbox
         /\ nbHash' = IF last THEN [nbHash EXCEPT ![e][s] = 0] ELSE nbHash
         /\ browse' = IF last /\ e = "server" THEN [browse EXCEPT ![s] = None] ELSE browse
         /\ owed' = IF last /\ e = "server" THEN [owed EXCEPT ![s] = <<>>] ELSE owed
  /\ UNCHANGED <<cut, req, upload, known, history>>

(* The network loses a connection, with what was on its way.               *)
Cut(s) ==
  /\ Failures < MaxFailures /\ Open(s)
  /\ cut' = cut \cup {s}
  /\ \E lost \in SUBSET Ends :
       inbox' = [e \in Ends |-> IF e \in lost THEN [inbox[e] EXCEPT ![s] = <<>>] ELSE inbox[e]]
  /\ UNCHANGED <<sock, req, nbHash, service, history>>

Next ==
  \/ \E r \in Requests : Start(r) \/ Refuse(r) \/ Drop(r) \/ Timeout(r)
                          \/ ReadStream(r) \/ AbortStream(r) \/ ChunkGrows(r)
  \/ \E s \in Sockets :
       \/ ReadAnswer(s) \/ Accept(s)
       \/ GetEntries(s) \/ EntriesResult(s) \/ GetHashes(s) \/ NextHash(s) \/ GetChunks(s)
       \/ UploadBuffer(s) \/ UploadFinished(s) \/ UploadTimeout(s)
       \/ Cut(s)
       \/ \E e \in Ends : Inactive(e, s) \/ Disconnected(e, s) \/ SocketClosed(e, s)

Spec == Init /\ [][Next]_vars

-----------------------------------------------------------------------------
MessageTypes == {"GET_ENTRIES", "ENTRIES_RESULT", "GET_HASHES", "HASHES_RESULT",
                 "HASH_RESULT", "GET_CHUNKS", "CHUNKS_RESULT", "STREAM"}

PeerMessageSocket ==
  [pooled : BOOLEAN, active : BOOLEAN, listening : BOOLEAN, closing : BOOLEAN, born : BOOLEAN]

TypeOK ==
  /\ DOMAIN sock = Ends
  /\ \A e \in Ends, s \in Sockets :
       /\ sock[e][s] \in PeerMessageSocket
       /\ \A k \in 1 .. Len(inbox[e][s]) :
            /\ inbox[e][s][k].type \in MessageTypes
            /\ inbox[e][s][k].req \in Requests
       /\ nbHash[e][s] \in Int
  /\ cut \subseteq Sockets /\ mixed \subseteq Sockets
  /\ \A r \in Requests :
       /\ req[r].kind \in Kinds
       /\ req[r].state \in {"new", "asked", "stream", "timedout", "dropped", "ended"}
       /\ req[r].socket \in Sockets \cup {0}
       /\ known[r] \in 0 .. NbPieces
       /\ heard[r] \subseteq Requests
  /\ \A s \in Sockets : browse[s] \in Requests \cup {None}

(* What a socket needs to answer for one request at a time: it is not      *)
(* closed (getASocket may still return a closed socket), and no request    *)
(* was made on it before the answer to one that timed out, or was dropped  *)
(* by its owner, had come.  The code does not see to the second.           *)
Reliable(s) ==
  /\ sock["client"][s].pooled /\ ~sock["client"][s].closing
  /\ s \notin mixed

(* Two requests never wait on one reliable socket at the same time.        *)
SocketIsNotShared ==
  \A s \in Sockets : Reliable(s) => Cardinality(Holders(s)) <= 1

(* What a request is given comes from its own question, as long as its     *)
(* socket is reliable.                                                     *)
AnswersMatch ==
  \A r \in Requests : heard[r] # {} /\ Reliable(req[r].socket) => heard[r] = {r}

(* A server socket that is idle, which its pool may close at any time, has  *)
(* no answer left to give, as long as the socket that asks is reliable.    *)
IdleOwesNothing ==
  \A s \in Sockets :
    (Reliable(s) /\ sock["server"][s].pooled /\ ~sock["server"][s].active
       /\ ~sock["server"][s].closing)
      => browse[s] = None /\ owed[s] = <<>> /\ upload[s].state # "run"

(* No end reads the data of a chunk as if they were messages.              *)
StreamIsNotParsed ==
  \A s \in Sockets :
    (sock["client"][s].listening /\ Alive("client", s) /\ inbox["client"][s] # <<>>)
      => Head(inbox["client"][s]).type # "STREAM"
=============================================================================
