------------------------ MODULE PooledRequestsProofs ------------------------
(***************************************************************************)
(* Proofs about PooledRequests for any number of requests, of connections, *)
(* of hashes and pieces, of losses and timeouts.                           *)
(*                                                                         *)
(* No message says whose it is.  The invariant says, of a connection that  *)
(* is not closed and on which no request was made too early after one that *)
(* was given up, that all that is on its way or still owed, at both ends,  *)
(* is one conversation: with the only request that waits on it, or with    *)
(* one that was given up and has none after it.                            *)
(***************************************************************************)
EXTENDS PooledRequests, FiniteSetTheorems, SequenceTheorems, WellFoundedInduction, TLAPS

Msg == [type : MessageTypes, req : Requests, n : Int]
States == {"new", "asked", "stream", "timedout", "dropped", "ended"}
Result == [kind : Kinds, state : States, socket : Sockets \cup {0}, left : Int]
ChunkUploader == [req : Requests \cup {None}, state : {"none", "run", "finished"}, sent : Int]

Typed ==
  /\ sock \in [Ends -> [Sockets -> PeerMessageSocket]]
  /\ inbox \in [Ends -> [Sockets -> Seq(Msg)]]
  /\ cut \in SUBSET Sockets
  /\ req \in [Requests -> Result]
  /\ nbHash \in [Ends -> [Sockets -> Int]]
  /\ browse \in [Sockets -> Requests \cup {None}]
  /\ owed \in [Sockets -> Seq(Requests)]
  /\ upload \in [Sockets -> ChunkUploader]
  /\ \A s \in Sockets : upload[s].state = "run" =>
       upload[s].req \in Requests /\ upload[s].sent \in 0 .. NbPieces
  /\ known \in [Requests -> 0 .. NbPieces]
  /\ heard \in [Requests -> SUBSET Requests]
  /\ mixed \in SUBSET Sockets

(***************************************************************************)
(* What is on its way on a connection.  Answers is what the asking end has *)
(* not read; Junk is what is left of a chunk that had more data than was   *)
(* announced: the next one who reads a message there closes the socket.    *)
(***************************************************************************)
Answers(s) == inbox["client"][s]
Questions(s) == inbox["server"][s]
Junk(s) == Answers(s) # <<>> /\ Answers(s)[1].type = "STREAM"

(* The request of the conversation: it waits, or nobody waits and it was   *)
(* given up.                                                               *)
Asker(r, s) ==
  /\ req[r].socket = s /\ req[r].state \in {"asked", "timedout", "dropped"}
  /\ Holders(s) \subseteq {r}
AskerOf(r, s, kind) == Asker(r, s) /\ req[r].kind = kind

Uploading(s) == upload[s].state = "run"

(* The connection is gone, for good.                                       *)
Lost(s) == s \in cut \/ (sock["server"][s].born /\ ~Alive("server", s))

(* At most one request waits on the socket, which is then in use.          *)
Held(s) ==
  /\ \A r, q \in Holders(s) : r = q
  /\ Holders(s) # {} => sock["client"][s].active

(* A question that is not read is the only thing its request has sent.     *)
Asked(s) ==
  Questions(s) # <<>> =>
    /\ Len(Questions(s)) = 1
    /\ browse[s] = None /\ owed[s] = <<>>
    /\ Answers(s) = <<>> \/ Junk(s)
    /\ \E r \in Requests : /\ Asker(r, s) /\ Questions(s)[1] = Request(r)
                           /\ req[r].kind = "hashes" => req[r].left = NbHashes

(* The server looks for the answer to the request.                         *)
Browsing(s) ==
  browse[s] # None =>
    /\ AskerOf(browse[s], s, "entries") /\ owed[s] = <<>> /\ ~Uploading(s)
    /\ Answers(s) = <<>> \/ Junk(s)

Owes(r, s) == \A k \in DOMAIN owed[s] : owed[s][k] = r

(* The socket counts the hashes as the request that waits for them does.   *)
Counted(r, s) == req[r].state = "asked" => nbHash["client"][s] = req[r].left

Hashing(s) ==
  owed[s] # <<>> =>
    /\ ~Uploading(s)
    /\ nbHash["server"][s] = Len(owed[s])
    /\ \E r \in Requests :
         /\ AskerOf(r, s, "hashes") /\ Owes(r, s)
         /\ Answers(s) = <<>> =>
              Lost(s) \/ (Counted(r, s) /\ Len(owed[s]) <= nbHash["client"][s])

(* The answers that are not read are those of the request: its last one    *)
(* has nothing behind it.                                                  *)
EntriesComing(s) ==
  Answers(s) # <<>> /\ Answers(s)[1].type = "ENTRIES_RESULT" =>
    /\ Len(Answers(s)) = 1 /\ ~Uploading(s) /\ owed[s] = <<>>
    /\ AskerOf(Answers(s)[1].req, s, "entries")

HashesComing(s) ==
  Answers(s) # <<>> /\ Answers(s)[1].type = "HASHES_RESULT" =>
    LET r == Answers(s)[1].req
    IN  /\ ~Uploading(s) /\ Owes(r, s)
        /\ AskerOf(r, s, "hashes") /\ req[r].left = NbHashes
        /\ \/ Answers(s)[1].n = 0 /\ Len(Answers(s)) = 1 /\ owed[s] = <<>>
           \/ Answers(s)[1].n = NbHashes /\ Len(Answers(s)) - 1 + Len(owed[s]) <= req[r].left
        /\ \A k \in 2 .. Len(Answers(s)) :
             Answers(s)[k].type = "HASH_RESULT" /\ Answers(s)[k].req = r

HashComing(s) ==
  Answers(s) # <<>> /\ Answers(s)[1].type = "HASH_RESULT" =>
    LET r == Answers(s)[1].req
    IN  /\ ~Uploading(s) /\ Owes(r, s)
        /\ AskerOf(r, s, "hashes") /\ Counted(r, s)
        /\ Len(Answers(s)) + Len(owed[s]) <= nbHash["client"][s]
        /\ \A k \in 1 .. Len(Answers(s)) :
             Answers(s)[k].type = "HASH_RESULT" /\ Answers(s)[k].req = r

ChunkComing(s) ==
  Answers(s) # <<>> /\ Answers(s)[1].type = "CHUNKS_RESULT" =>
    LET r == Answers(s)[1].req
    IN  /\ AskerOf(r, s, "chunk") /\ owed[s] = <<>>
        /\ Uploading(s) => upload[s].req = r
        /\ \A k \in 2 .. Len(Answers(s)) :
             Answers(s)[k].type = "STREAM" /\ Answers(s)[k].req = r

Streaming(s) ==
  \A r \in Holders(s) : req[r].state = "stream" =>
    /\ Uploading(s) => upload[s].req = r
    /\ \A k \in 1 .. Len(Answers(s)) :
         Answers(s)[k].type = "STREAM" /\ Answers(s)[k].req = r

NoQuestionComing(s) ==
  Answers(s) # <<>> => Answers(s)[1].type \notin {"GET_ENTRIES", "GET_HASHES", "GET_CHUNKS"}

Coming(s) ==
  /\ EntriesComing(s) /\ HashesComing(s) /\ HashComing(s) /\ ChunkComing(s)
  /\ Streaming(s) /\ NoQuestionComing(s)

(* The server does not read while it uploads, and is in use, or will be    *)
(* closed, until it owes nothing.                                          *)
Serving(s) ==
  /\ Uploading(s) => ~sock["server"][s].listening
  /\ browse[s] # None \/ owed[s] # <<>> \/ Uploading(s) =>
       sock["server"][s].active \/ sock["server"][s].closing \/ ~sock["server"][s].pooled

Heeded(s) == \A r \in Requests : req[r].socket = s => heard[r] \subseteq {r}

Conversation(s) ==
  /\ Held(s) /\ Asked(s) /\ Browsing(s) /\ Hashing(s)
  /\ Coming(s) /\ Serving(s) /\ Heeded(s)

(* Nothing is on a connection that was not opened.                         *)
Opened(s) ==
  /\ sock["server"][s].born \/ upload[s].state = "none"
  /\ sock["server"][s].pooled => sock["server"][s].born
  /\ ~sock["client"][s].born =>
       /\ sock["client"][s] = NoSocket /\ sock["server"][s] = NoSocket
       /\ Answers(s) = <<>> /\ Questions(s) = <<>>
       /\ browse[s] = None /\ owed[s] = <<>>

RequestSound(r) ==
  /\ req[r].state = "new" <=> req[r].socket = 0
  /\ req[r].state = "new" => heard[r] = {}
  /\ \A s \in Sockets : req[r].socket = s => sock["client"][s].born

SocketSound(s) == Opened(s) /\ (Reliable(s) => Conversation(s))

IInv ==
  /\ Typed
  /\ \A r \in Requests : RequestSound(r)
  /\ \A s \in Sockets : SocketSound(s)

-----------------------------------------------------------------------------
LEMMA TheEnds ==
  /\ "client" \in Ends /\ "server" \in Ends /\ "client" # "server"
  /\ \A e \in Ends : e = "client" \/ e = "server"
BY DEF Ends

(* A conversation of which only less is left.                              *)
SameRequests(s) ==
  \A r \in Requests : /\ req'[r].socket = s <=> req[r].socket = s
                      /\ req[r].socket = s => req'[r] = req[r] /\ heard'[r] = heard[r]

Calm(s) ==
  /\ Questions(s)' \in {Questions(s), <<>>}
  /\ Answers(s)' = Answers(s) \/ (Answers(s)' = <<>> /\ Lost(s)')
  /\ browse'[s] \in {browse[s], None}
  /\ owed'[s] = <<>> \/ (owed'[s] = owed[s] /\ nbHash'["server"][s] = nbHash["server"][s])
  /\ nbHash'["client"][s] = nbHash["client"][s]
  /\ Uploading(s)' => Uploading(s) /\ upload'[s] = upload[s]
  /\ Lost(s) => Lost(s)'
  /\ SameRequests(s)
  /\ sock'["client"][s].active = sock["client"][s].active

LEMMA CalmKeeps ==
  ASSUME Typed, NEW s \in Sockets, Conversation(s), Calm(s), Serving(s)'
  PROVE  Conversation(s)'
<1>1. ASSUME NEW r \in Requests
      PROVE  /\ Asker(r, s)' <=> Asker(r, s)
             /\ Asker(r, s) => req'[r] = req[r]
             /\ r \in Holders(s)' <=> r \in Holders(s)
             /\ \A k \in Kinds : AskerOf(r, s, k)' <=> AskerOf(r, s, k)
             /\ r \in Holders(s) => req'[r] = req[r]
  <2>1. r \in Holders(s)' <=> r \in Holders(s)
    BY DEF Calm, SameRequests, Holders, Running
  <2>2. Holders(s)' = Holders(s)
    BY DEF Calm, SameRequests, Holders, Running
  <2> QED
    BY <2>1, <2>2 DEF Calm, SameRequests, Asker, AskerOf, Holders
<1>2. Junk(s) /\ Answers(s)' = Answers(s) => Junk(s)'
  BY DEF Junk
<1>3. Held(s)'
  BY <1>1 DEF Conversation, Held, Calm, Holders
<1>4. Heeded(s)'
  BY DEF Conversation, Heeded, Calm, SameRequests
<1>5. Asked(s)'
  <2>1. SUFFICES ASSUME Questions(s)' # <<>> PROVE Asked(s)'
    BY DEF Asked
  <2>2. Questions(s)' = Questions(s) /\ Questions(s) # <<>>
    BY <2>1 DEF Calm
  <2>3. PICK r \in Requests : /\ Asker(r, s) /\ Questions(s)[1] = Request(r)
                              /\ req[r].kind = "hashes" => req[r].left = NbHashes
    BY <2>2 DEF Conversation, Asked
  <2>4. Request(r)' = Request(r)
    BY <1>1, <2>3 DEF Request
  <2>5. /\ Asker(r, s)' /\ Questions(s)'[1] = Request(r)'
        /\ req'[r].kind = "hashes" => req'[r].left = NbHashes
    BY <1>1, <2>2, <2>3, <2>4
  <2>6. /\ Len(Questions(s)') = 1
        /\ browse'[s] = None /\ owed'[s] = <<>>
        /\ Answers(s)' = <<>> \/ Junk(s)'
    BY <1>2, <2>2 DEF Conversation, Asked, Calm
  <2> QED
    BY <2>5, <2>6 DEF Asked
<1>6. Browsing(s)'
  BY <1>1, <1>2 DEF Conversation, Browsing, Calm, Typed, Kinds
<1>7. Hashing(s)'
  <2>1. SUFFICES ASSUME owed'[s] # <<>> PROVE Hashing(s)'
    BY DEF Hashing
  <2>2. owed'[s] = owed[s] /\ owed[s] # <<>> /\ nbHash'["server"][s] = nbHash["server"][s]
    BY <2>1 DEF Calm
  <2>3. PICK r \in Requests :
         /\ AskerOf(r, s, "hashes") /\ Owes(r, s)
         /\ Answers(s) = <<>> =>
              Lost(s) \/ (Counted(r, s) /\ Len(owed[s]) <= nbHash["client"][s])
    BY <2>2 DEF Conversation, Hashing
  <2>4. AskerOf(r, s, "hashes")' /\ req'[r] = req[r]
    BY <1>1, <2>3 DEF AskerOf, Kinds
  <2>5. Owes(r, s)' /\ (Counted(r, s) => Counted(r, s)')
    BY <2>2, <2>3, <2>4 DEF Owes, Counted, Calm
  <2>6. Answers(s)' = <<>> =>
          Lost(s)' \/ (Counted(r, s)' /\ Len(owed'[s]) <= nbHash'["client"][s])
    BY <2>2, <2>3, <2>5 DEF Calm
  <2>7. ~Uploading(s)' /\ nbHash'["server"][s] = Len(owed'[s])
    BY <2>2 DEF Conversation, Hashing, Calm
  <2> QED
    BY <2>2, <2>4, <2>5, <2>6, <2>7 DEF Hashing
<1>8. Streaming(s)'
  <2>1. SUFFICES ASSUME NEW r \in Requests, r \in Holders(s)', req'[r].state = "stream"
                 PROVE  /\ Uploading(s)' => upload'[s].req = r
                        /\ \A k \in 1 .. Len(Answers(s)') :
                             Answers(s)'[k].type = "STREAM" /\ Answers(s)'[k].req = r
    BY DEF Streaming, Holders
  <2>2. r \in Holders(s) /\ req[r].state = "stream"
    BY <1>1, <2>1
  <2>3. /\ Uploading(s) => upload[s].req = r
        /\ \A k \in 1 .. Len(Answers(s)) :
             Answers(s)[k].type = "STREAM" /\ Answers(s)[k].req = r
    BY <2>2 DEF Conversation, Coming, Streaming
  <2> QED
    BY <2>3 DEF Calm
<1>9. CASE Answers(s)' = <<>>
  BY <1>3, <1>4, <1>5, <1>6, <1>7, <1>8, <1>9
  DEF Conversation, Coming, EntriesComing, HashesComing, HashComing, ChunkComing,
      NoQuestionComing
<1>10. CASE Answers(s)' = Answers(s) /\ Answers(s) # <<>>
  <2>1. Answers(s) \in Seq(Msg) /\ Answers(s)[1] \in Msg
    BY <1>10 DEF Typed, Answers, Ends
  <2>2. NoQuestionComing(s)'
    BY <1>10 DEF Conversation, Coming, NoQuestionComing
  <2>3. EntriesComing(s)'
    BY <1>1, <1>10, <2>1 DEF Conversation, Coming, EntriesComing, Calm, Msg, Kinds
  <2>4. HashesComing(s)'
    <3>1. SUFFICES ASSUME Answers(s)[1].type = "HASHES_RESULT" PROVE HashesComing(s)'
      BY <1>10 DEF HashesComing
    <3>2. PICK r \in Requests : r = Answers(s)[1].req
      BY <2>1 DEF Msg
    <3>3. /\ ~Uploading(s) /\ Owes(r, s)
          /\ AskerOf(r, s, "hashes") /\ req[r].left = NbHashes
          /\ \/ Answers(s)[1].n = 0 /\ Len(Answers(s)) = 1 /\ owed[s] = <<>>
             \/ /\ Answers(s)[1].n = NbHashes
                /\ Len(Answers(s)) - 1 + Len(owed[s]) <= req[r].left
          /\ \A k \in 2 .. Len(Answers(s)) :
               Answers(s)[k].type = "HASH_RESULT" /\ Answers(s)[k].req = r
      BY <1>10, <3>1, <3>2 DEF Conversation, Coming, HashesComing
    <3>4. AskerOf(r, s, "hashes")' /\ Asker(r, s)
      BY <1>1, <3>3 DEF Kinds, AskerOf
    <3>5. req'[r] = req[r]
      BY <1>1, <3>4
    <3>6. owed[s] \in Seq(Requests) /\ Len(<<>>) = 0 /\ Len(Answers(s)) \in Nat
          /\ req[r].left \in Int
      BY <2>1, LenProperties DEF Typed, Result
    <3>7. Len(owed'[s]) <= Len(owed[s]) /\ Len(owed'[s]) \in Nat /\ Len(owed[s]) \in Nat
      BY <3>6, LenProperties DEF Calm
    <3>8. \/ Answers(s)[1].n = 0 /\ Len(Answers(s)) = 1 /\ owed'[s] = <<>>
          \/ /\ Answers(s)[1].n = NbHashes
             /\ Len(Answers(s)) - 1 + Len(owed'[s]) <= req'[r].left
      <4>1. owed[s] = <<>> => owed'[s] = <<>>
        BY DEF Calm
      <4>2. Len(Answers(s)) - 1 + Len(owed[s]) <= req[r].left =>
              Len(Answers(s)) - 1 + Len(owed'[s]) <= req[r].left
        BY <3>6, <3>7
      <4> QED
        BY <3>3, <3>5, <4>1, <4>2
    <3>9. ~Uploading(s)' /\ req'[r].left = NbHashes /\ Owes(r, s)'
      BY <3>3, <3>5 DEF Calm, Owes
    <3> QED
      BY <1>10, <3>2, <3>3, <3>4, <3>8, <3>9 DEF HashesComing
  <2>5. HashComing(s)'
    <3>1. SUFFICES ASSUME Answers(s)[1].type = "HASH_RESULT" PROVE HashComing(s)'
      BY <1>10 DEF HashComing
    <3>2. PICK r \in Requests : r = Answers(s)[1].req
      BY <2>1 DEF Msg
    <3>3. /\ ~Uploading(s) /\ Owes(r, s)
          /\ AskerOf(r, s, "hashes") /\ Counted(r, s)
          /\ Len(Answers(s)) + Len(owed[s]) <= nbHash["client"][s]
          /\ \A k \in 1 .. Len(Answers(s)) :
               Answers(s)[k].type = "HASH_RESULT" /\ Answers(s)[k].req = r
      BY <1>10, <3>1, <3>2 DEF Conversation, Coming, HashComing
    <3>4. AskerOf(r, s, "hashes")' /\ Asker(r, s)
      BY <1>1, <3>3 DEF Kinds, AskerOf
    <3>5. req'[r] = req[r]
      BY <1>1, <3>4
    <3>6. owed[s] \in Seq(Requests) /\ Len(<<>>) = 0 /\ Len(Answers(s)) \in Nat
          /\ nbHash["client"][s] \in Int
      BY <2>1, LenProperties, TheEnds DEF Typed
    <3>7. Len(owed'[s]) <= Len(owed[s]) /\ Len(owed'[s]) \in Nat /\ Len(owed[s]) \in Nat
      BY <3>6, LenProperties DEF Calm
    <3>8. Len(Answers(s)) + Len(owed'[s]) <= nbHash["client"][s]
      BY <3>3, <3>6, <3>7
    <3>9. Owes(r, s)' /\ Counted(r, s)' /\ ~Uploading(s)'
      BY <3>3, <3>5 DEF Owes, Counted, Calm
    <3> QED
      BY <1>10, <3>2, <3>3, <3>4, <3>8, <3>9 DEF HashComing, Calm
  <2>6. ChunkComing(s)'
    BY <1>1, <1>10, <2>1 DEF Conversation, Coming, ChunkComing, Calm, Msg, Kinds
  <2> QED
    BY <1>3, <1>4, <1>5, <1>6, <1>7, <1>8, <2>2, <2>3, <2>4, <2>5, <2>6 DEF Conversation, Coming
<1> QED
  BY <1>9, <1>10 DEF Calm

(* Nothing happens on a connection but that one of its ends may be closed. *)
Shut(x, y) ==
  x.pooled /\ y.pooled /\ y.born = x.born /\ y.closing /\ ~y.active /\ ~y.listening

Aside(s) ==
  /\ \A e \in Ends : /\ inbox'[e][s] = inbox[e][s] /\ nbHash'[e][s] = nbHash[e][s]
                     /\ sock'[e][s] = sock[e][s] \/ Shut(sock[e][s], sock'[e][s])
  /\ browse'[s] = browse[s] /\ owed'[s] = owed[s] /\ upload'[s] = upload[s]
  /\ s \in cut' <=> s \in cut
  /\ s \in mixed' <=> s \in mixed
  /\ SameRequests(s)

LEMMA AliveAtServer ==
  \A s : Alive("server", s) <=> sock["server"][s].pooled \/ upload[s].state # "none"
BY DEF Alive

LEMMA AliveAtServerNext ==
  \A s : Alive("server", s)' <=> sock'["server"][s].pooled \/ upload'[s].state # "none"
BY DEF Alive

LEMMA AsideKeeps ==
  ASSUME Typed, NEW s \in Sockets, SocketSound(s), Aside(s)
  PROVE  SocketSound(s)'
<1>1. "client" \in Ends /\ "server" \in Ends
  BY DEF Ends
<1>2. Opened(s)'
  BY <1>1 DEF SocketSound, Opened, Aside, Shut, NoSocket, Answers, Questions
<1>3. SUFFICES ASSUME Reliable(s)' PROVE Conversation(s)'
  BY <1>2 DEF SocketSound
<1>4. sock'["client"][s] = sock["client"][s]
  BY <1>1, <1>3 DEF Aside, Shut, Reliable
<1>5. Reliable(s)
  BY <1>3, <1>4 DEF Aside, SameRequests, Reliable
<1>6. Conversation(s)
  BY <1>5 DEF SocketSound
<1>7. sock'["server"][s].pooled = sock["server"][s].pooled
      /\ sock'["server"][s].born = sock["server"][s].born
  <2>1. sock'["server"][s] = sock["server"][s] \/ Shut(sock["server"][s], sock'["server"][s])
    BY <1>1 DEF Aside
  <2> QED
    BY <2>1 DEF Shut
<1>8. Lost(s)' <=> Lost(s)
  BY <1>7, AliveAtServer, AliveAtServerNext DEF Lost, Aside
<1>9. Calm(s)
  BY <1>1, <1>4, <1>8 DEF Calm, Aside, Answers, Questions, Uploading
<1>10. Serving(s)'
  BY <1>1, <1>6 DEF Conversation, Serving, Aside, Shut, Uploading
<1> QED
  BY <1>6, <1>9, <1>10, CalmKeeps

(* The requests that are opened stay so.                                   *)
SameOpening ==
  /\ \A r \in Requests : /\ req'[r].socket = req[r].socket
                         /\ req'[r].state = "new" <=> req[r].state = "new"
                         /\ req[r].state = "new" => heard'[r] = heard[r]
  /\ \A s \in Sockets : sock["client"][s].born => sock'["client"][s].born

LEMMA OpeningKeeps ==
  ASSUME NEW r \in Requests, RequestSound(r), SameOpening
  PROVE  RequestSound(r)'
BY DEF RequestSound, SameOpening

-----------------------------------------------------------------------------
(* The sockets of one end.                                                 *)

AllSockets == [Sockets -> PeerMessageSocket]

(* T is S where only the socket s changed, or others were closed.          *)
Shaped(S, T, s) ==
  /\ T \in AllSockets
  /\ T[s].pooled = S[s].pooled /\ T[s].born = S[s].born
  /\ \A t \in Sockets \ {s} : T[t] = S[t] \/ Shut(S[t], T[t])

LEMMA ClosedShape ==
  ASSUME NEW S \in AllSockets, NEW s \in Sockets
  PROVE  /\ Shaped(S, Closed(S, s), s)
         /\ ~Closed(S, s)[s].active /\ ~Closed(S, s)[s].listening
         /\ Closed(S, s)[s].closing = S[s].pooled
<1> DEFINE T == Closed(S, s)
<1>1. S[s] \in PeerMessageSocket /\ S[s].pooled \in BOOLEAN
  BY DEF AllSockets, PeerMessageSocket
<1>2. T \in AllSockets
  BY <1>1 DEF Closed, AllSockets, PeerMessageSocket
<1>3. \A t \in Sockets \ {s} : T[t] = S[t]
  BY DEF Closed, AllSockets
<1>4. ~T[s].active /\ ~T[s].listening /\ T[s].closing = S[s].pooled
  BY <1>1 DEF Closed, AllSockets, PeerMessageSocket
<1>5. T[s].pooled = S[s].pooled /\ T[s].born = S[s].born
  BY <1>1 DEF Closed, AllSockets, PeerMessageSocket
<1> QED
  BY <1>2, <1>3, <1>4, <1>5 DEF Shaped

LEMMA ActiveShape ==
  ASSUME NEW S \in AllSockets, NEW s \in Sockets
  PROVE  /\ SetActive(S, s) \in AllSockets
         /\ SetActive(S, s)[s] = [pooled |-> S[s].pooled, active |-> TRUE,
              listening |-> S[s].listening, closing |-> S[s].closing, born |-> S[s].born]
         /\ \A t \in Sockets \ {s} : SetActive(S, s)[t] = S[t]
BY DEF SetActive, AllSockets, PeerMessageSocket

(* The sockets in excess are closed, the others are left as they are.      *)
LEMMA IdleShape ==
  ASSUME NEW S \in AllSockets
  PROVE  /\ BecomeIdle(S) \in AllSockets
         /\ \A t \in Sockets : BecomeIdle(S)[t] = S[t] \/ Shut(S[t], BecomeIdle(S)[t])
<1>1. ASSUME NEW t \in Sockets, S[t].pooled
      PROVE  Closed(S, t)[t] \in PeerMessageSocket /\ Shut(S[t], Closed(S, t)[t])
  BY <1>1, ClosedShape DEF Shaped, Shut, AllSockets
<1>2. ASSUME NEW t \in Sockets
      PROVE  /\ BecomeIdle(S)[t] \in PeerMessageSocket
             /\ BecomeIdle(S)[t] = S[t] \/ Shut(S[t], BecomeIdle(S)[t])
  <2>1. \/ BecomeIdle(S)[t] = S[t]
        \/ S[t].pooled /\ BecomeIdle(S)[t] = Closed(S, t)[t]
    BY DEF BecomeIdle
  <2> QED
    BY <1>1, <2>1 DEF AllSockets
<1>3. BecomeIdle(S) = [t \in Sockets |-> BecomeIdle(S)[t]]
  BY DEF BecomeIdle
<1> QED
  BY <1>2, <1>3 DEF AllSockets

(* A transaction is finished.                                              *)
LEMMA FinishedShape ==
  ASSUME NEW S \in AllSockets, NEW s \in Sockets, NEW close \in BOOLEAN, NEW valid \in BOOLEAN
  PROVE  LET T == Finished(S, s, close, valid)
         IN  /\ Shaped(S, T, s)
             /\ ~S[s].active => T = S
             /\ ~T[s].active
             /\ S[s].active /\ (close \/ ~valid) => T[s].closing = S[s].pooled
             /\ S[s].closing /\ S[s].pooled => T[s].closing
<1> DEFINE T == Finished(S, s, close, valid)
<1>1. CASE ~S[s].active
  BY <1>1 DEF Finished, Shaped, AllSockets, PeerMessageSocket
<1>2. CASE S[s].active /\ (close \/ ~valid)
  BY <1>2, ClosedShape DEF Finished, Shaped
<1>3. CASE S[s].active /\ ~(close \/ ~valid)
  <2> DEFINE U == [S EXCEPT ![s].active = FALSE, ![s].listening = TRUE]
  <2>1. /\ U \in AllSockets
        /\ U[s] = [pooled |-> S[s].pooled, active |-> FALSE, listening |-> TRUE,
                   closing |-> S[s].closing, born |-> S[s].born]
        /\ \A t \in Sockets \ {s} : U[t] = S[t]
    BY DEF AllSockets, PeerMessageSocket
  <2>2. T = BecomeIdle(U)
    BY <1>3 DEF Finished
  <2> HIDE DEF U, T
  <2>3. T \in AllSockets /\ \A t \in Sockets : T[t] = U[t] \/ Shut(U[t], T[t])
    BY <2>1, <2>2, IdleShape
  <2>4. Shaped(S, T, s) /\ ~T[s].active /\ (S[s].closing => T[s].closing)
    <3>1. T[s].pooled = S[s].pooled /\ T[s].born = S[s].born /\ ~T[s].active
          /\ (S[s].closing => T[s].closing)
      <4>1. T[s] = U[s] \/ Shut(U[s], T[s])
        BY <2>3
      <4>2. /\ S[s].pooled \in BOOLEAN /\ T[s].pooled \in BOOLEAN
            /\ S[s].born \in BOOLEAN /\ S[s].closing \in BOOLEAN
        BY <2>3 DEF AllSockets, PeerMessageSocket
      <4> QED
        BY <2>1, <4>1, <4>2 DEF Shut
    <3>2. \A t \in Sockets \ {s} : T[t] = S[t] \/ Shut(S[t], T[t])
      BY <2>1, <2>3
    <3> QED
      BY <2>3, <3>1, <3>2 DEF Shaped
  <2> QED
    BY <1>3, <2>4 DEF T
<1> QED
  BY <1>1, <1>2, <1>3

-----------------------------------------------------------------------------
(* The steps of one end of one connection.                                 *)

LEMMA EndUpdated ==
  ASSUME NEW X, NEW f \in [Ends -> [Sockets -> X]], NEW e \in Ends, NEW s \in Sockets,
         NEW v \in X
  PROVE  /\ [f EXCEPT ![e][s] = v] \in [Ends -> [Sockets -> X]]
         /\ [f EXCEPT ![e][s] = v][e][s] = v
         /\ \A d \in Ends, t \in Sockets : d # e \/ t # s =>
              [f EXCEPT ![e][s] = v][d][t] = f[d][t]
OBVIOUS

LEMMA EndReplaced ==
  ASSUME NEW X, NEW f \in [Ends -> X], NEW e \in Ends, NEW v \in X
  PROVE  /\ [f EXCEPT ![e] = v] \in [Ends -> X]
         /\ [f EXCEPT ![e] = v][e] = v
         /\ \A d \in Ends : d # e => [f EXCEPT ![e] = v][d] = f[d]
OBVIOUS

SameData(t) ==
  /\ \A e \in Ends : inbox'[e][t] = inbox[e][t] /\ nbHash'[e][t] = nbHash[e][t]
  /\ browse'[t] = browse[t] /\ owed'[t] = owed[t] /\ upload'[t] = upload[t]

ServerOnly(s) ==
  /\ cut' = cut /\ req' = req /\ heard' = heard /\ mixed' = mixed
  /\ sock'["client"] = sock["client"]
  /\ Shaped(sock["server"], sock'["server"], s)
  /\ \A t \in Sockets \ {s} : SameData(t)

LEMMA ServerOnlyKeeps ==
  ASSUME IInv, NEW s \in Sockets, ServerOnly(s), Typed',
         sock["client"][s].born, sock["server"][s].born \/ upload'[s].state = "none",
         Reliable(s) => Conversation(s)'
  PROVE  IInv'
<1>1. ASSUME NEW t \in Sockets \ {s}
      PROVE  SocketSound(t)'
  <2>1. Aside(t)
    BY TheEnds DEF ServerOnly, Aside, SameData, Shaped, SameRequests
  <2> QED
    BY <2>1, AsideKeeps DEF IInv
<1>2. SocketSound(s)'
  <2>1. Opened(s)'
    BY DEF Opened, ServerOnly, Shaped, IInv, SocketSound
  <2>2. Reliable(s)' => Reliable(s)
    BY DEF Reliable, ServerOnly
  <2> QED
    BY <2>1, <2>2 DEF SocketSound
<1>3. SameOpening
  BY DEF SameOpening, ServerOnly
<1>4. \A r \in Requests : RequestSound(r)'
  BY <1>3, OpeningKeeps DEF IInv
<1> QED
  BY <1>1, <1>2, <1>4 DEF IInv

ClientOnly(s) ==
  /\ mixed' = mixed
  /\ \A t \in Sockets \ {s} : t \in cut' <=> t \in cut
  /\ sock'["server"] = sock["server"]
  /\ Shaped(sock["client"], sock'["client"], s)
  /\ \A t \in Sockets \ {s} : SameData(t)
  /\ upload'[s] = upload[s]
  /\ \A r \in Requests :
       /\ req'[r].socket = req[r].socket
       /\ req'[r].state = "new" <=> req[r].state = "new"
       /\ req[r].state = "new" => heard'[r] = heard[r]
       /\ req[r].socket # s => req'[r] = req[r] /\ heard'[r] = heard[r]

LEMMA ClientOnlyKeeps ==
  ASSUME IInv, NEW s \in Sockets, ClientOnly(s), Typed', sock["client"][s].born,
         Reliable(s)' => Conversation(s)'
  PROVE  IInv'
<1>1. ASSUME NEW t \in Sockets \ {s}
      PROVE  SocketSound(t)'
  <2>1. SameRequests(t)
    BY DEF SameRequests, ClientOnly
  <2>2. Aside(t)
    BY <2>1, TheEnds DEF ClientOnly, Aside, SameData, Shaped
  <2> QED
    BY <2>2, AsideKeeps DEF IInv
<1>2. SocketSound(s)'
  BY DEF SocketSound, Opened, ClientOnly, Shaped, IInv
<1>3. SameOpening
  BY DEF SameOpening, ClientOnly, Shaped, Shut
<1>4. \A r \in Requests : RequestSound(r)'
  BY <1>3, OpeningKeeps DEF IInv
<1> QED
  BY <1>1, <1>2, <1>4 DEF IInv

(* Something on a connection that was opened.                              *)
LEMMA OpenedFirst ==
  ASSUME NEW s \in Sockets, Opened(s),
         \/ sock["client"][s].pooled \/ sock["client"][s].active
         \/ sock["client"][s].listening \/ sock["client"][s].closing
         \/ sock["server"][s].pooled \/ sock["server"][s].active
         \/ sock["server"][s].listening \/ sock["server"][s].closing
         \/ sock["server"][s].born
         \/ Answers(s) # <<>> \/ Questions(s) # <<>> \/ browse[s] # None \/ owed[s] # <<>>
         \/ upload[s].state # "none"
  PROVE  sock["client"][s].born
BY DEF Opened, NoSocket

-----------------------------------------------------------------------------
(* The steps that end something.                                           *)

LEMMA LostStays ==
  ASSUME NEW s \in Sockets, cut \subseteq cut',
         sock["server"][s].born => sock'["server"][s].born,
         sock'["server"][s].pooled => sock["server"][s].pooled,
         upload'[s].state # "none" => upload[s].state # "none"
  PROVE  Lost(s) => Lost(s)'
BY AliveAtServer, AliveAtServerNext DEF Lost

LEMMA CloseSocketKeeps ==
  ASSUME IInv, NEW e \in Ends, NEW s \in Sockets, sock["client"][s].born, CloseSocket(e, s)
  PROVE  IInv'
<1> DEFINE T == Closed(sock[e], s)
<1>1. sock[e] \in AllSockets
  BY DEF IInv, Typed, AllSockets
<1>2. Shaped(sock[e], T, s) /\ ~T[s].active /\ ~T[s].listening /\ T[s].closing = sock[e][s].pooled
  BY <1>1, ClosedShape
<1>3. sock' = [sock EXCEPT ![e] = T] /\ UNCHANGED <<inbox, cut, req, nbHash, service, heard, mixed>>
  BY DEF CloseSocket, history
<1> HIDE DEF T
<1>4. /\ sock' \in [Ends -> AllSockets] /\ sock'[e] = T
      /\ \A d \in Ends : d # e => sock'[d] = sock[d]
  BY <1>2, <1>3, EndReplaced DEF IInv, Typed, AllSockets, Shaped
<1>5. Typed'
  BY <1>3, <1>4 DEF IInv, Typed, AllSockets, service
<1>6. \A t \in Sockets : SameData(t)
  BY <1>3 DEF SameData, service
<1>7. CASE e = "client"
  <2>1. ClientOnly(s)
    BY <1>2, <1>3, <1>4, <1>6, <1>7, TheEnds DEF ClientOnly, SameData
  <2>2. ~Reliable(s)'
    BY <1>2, <1>4, <1>7 DEF Reliable, Shaped
  <2> QED
    BY <1>5, <2>1, <2>2, ClientOnlyKeeps
<1>8. CASE e = "server"
  <2>1. ServerOnly(s)
    BY <1>2, <1>3, <1>4, <1>6, <1>8, TheEnds DEF ServerOnly
  <2>2. sock["server"][s].born \/ upload'[s].state = "none"
    BY <1>3 DEF IInv, SocketSound, Opened, service
  <2>3. ASSUME Reliable(s)
        PROVE  Conversation(s)'
    <3>1. Conversation(s)
      BY <2>3 DEF IInv, SocketSound
    <3>2. Lost(s) => Lost(s)'
      BY <1>2, <1>3, <1>4, <1>8, LostStays DEF service, Shaped
    <3>3. Calm(s)
      BY <1>3, <1>6, <2>1, <3>2, TheEnds
      DEF Calm, Questions, Answers, SameData, Uploading, ServerOnly, SameRequests
    <3>4. Serving(s)'
      BY <1>2, <1>4, <1>8 DEF Serving, Shaped
    <3> QED
      BY <3>1, <3>3, <3>4, CalmKeeps DEF IInv
  <2> QED
    BY <1>5, <2>1, <2>2, <2>3, ServerOnlyKeeps
<1> QED
  BY <1>7, <1>8, TheEnds

LEMMA InactiveKeeps ==
  ASSUME IInv, NEW e \in Ends, NEW s \in Sockets, Inactive(e, s) PROVE IInv'
<1>1. sock["client"][s].born
  BY TheEnds, OpenedFirst DEF Inactive, Gone, IInv, SocketSound
<1> QED
  BY <1>1, CloseSocketKeeps DEF Inactive

LEMMA DisconnectedKeeps ==
  ASSUME IInv, NEW e \in Ends, NEW s \in Sockets, Disconnected(e, s) PROVE IInv'
<1>1. sock["client"][s].born
  BY TheEnds, OpenedFirst DEF Disconnected, IInv, SocketSound
<1> QED
  BY <1>1, CloseSocketKeeps DEF Disconnected

(* The socket of an end is dropped.                                        *)
LEMMA SocketClosedKeeps ==
  ASSUME IInv, NEW e \in Ends, NEW s \in Sockets, SocketClosed(e, s) PROVE IInv'
<1> DEFINE T == [sock[e] EXCEPT ![s].closing = FALSE, ![s].pooled = FALSE]
<1>1. sock["client"][s].born
  BY TheEnds, OpenedFirst DEF SocketClosed, IInv, SocketSound
<1>2. sock' = [sock EXCEPT ![e] = T]
  BY DEF SocketClosed, IInv, Typed
<1>3. /\ T \in AllSockets /\ ~T[s].pooled
      /\ T[s].born = sock[e][s].born /\ T[s].listening = sock[e][s].listening
      /\ T[s].active = sock[e][s].active
      /\ \A t \in Sockets \ {s} : T[t] = sock[e][t]
  <2>1. sock[e] \in AllSockets
    BY DEF IInv, Typed, AllSockets
  <2>2. T \in AllSockets
    BY <2>1 DEF AllSockets, PeerMessageSocket
  <2>3. /\ ~T[s].pooled /\ T[s].born = sock[e][s].born
        /\ T[s].listening = sock[e][s].listening /\ T[s].active = sock[e][s].active
    BY <2>1 DEF AllSockets, PeerMessageSocket
  <2> QED
    BY <2>1, <2>2, <2>3 DEF AllSockets
<1> HIDE DEF T
<1>4. /\ sock' \in [Ends -> AllSockets] /\ sock'[e] = T
      /\ \A d \in Ends : d # e => sock'[d] = sock[d]
  BY <1>2, <1>3, EndReplaced DEF IInv, Typed, AllSockets
<1>5. PICK last \in BOOLEAN :
        /\ e = "server" => (last <=> upload[s].state = "none")
        /\ inbox' = IF last THEN [inbox EXCEPT ![e][s] = <<>>] ELSE inbox
        /\ nbHash' = IF last THEN [nbHash EXCEPT ![e][s] = 0] ELSE nbHash
        /\ browse' = IF last /\ e = "server" THEN [browse EXCEPT ![s] = None] ELSE browse
        /\ owed' = IF last /\ e = "server" THEN [owed EXCEPT ![s] = <<>>] ELSE owed
  BY TheEnds DEF SocketClosed
<1>6. /\ cut' = cut /\ req' = req /\ upload' = upload /\ known' = known
      /\ heard' = heard /\ mixed' = mixed
  BY DEF SocketClosed, history
<1>7. /\ inbox' \in [Ends -> [Sockets -> Seq(Msg)]]
      /\ inbox'[e][s] = IF last THEN <<>> ELSE inbox[e][s]
      /\ \A d \in Ends, t \in Sockets : d # e \/ t # s => inbox'[d][t] = inbox[d][t]
  <2>1. <<>> \in Seq(Msg)
    OBVIOUS
  <2> QED
    BY <1>5, <2>1, EndUpdated DEF IInv, Typed
<1>8. /\ nbHash' \in [Ends -> [Sockets -> Int]]
      /\ \A d \in Ends, t \in Sockets : d # e \/ t # s => nbHash'[d][t] = nbHash[d][t]
  BY <1>5, EndUpdated DEF IInv, Typed
<1>9. /\ browse' \in [Sockets -> Requests \cup {None}]
      /\ \A t \in Sockets : browse'[t] # browse[t] => t = s /\ e = "server" /\ last /\ browse'[s] = None
  BY <1>5 DEF IInv, Typed
<1>10. /\ owed' \in [Sockets -> Seq(Requests)]
       /\ \A t \in Sockets : owed'[t] # owed[t] => t = s /\ e = "server" /\ last /\ owed'[s] = <<>>
  <2>1. <<>> \in Seq(Requests)
    OBVIOUS
  <2> QED
    BY <1>5, <2>1 DEF IInv, Typed
<1>11. Typed'
  BY <1>4, <1>6, <1>7, <1>8, <1>9, <1>10 DEF IInv, Typed, AllSockets
<1>12. \A t \in Sockets \ {s} : SameData(t)
  BY <1>6, <1>7, <1>8, <1>9, <1>10 DEF SameData
<1>13. CASE e = "client"
  <2>1. \A t \in Sockets \ {s} : T[t] = sock["client"][t]
    BY <1>3, <1>13
  <2>2. ~Reliable(s)'
    BY <1>3, <1>4, <1>13 DEF Reliable
  <2>3. SocketSound(s)'
    BY <1>1, <1>3, <1>4, <1>6, <1>13, <2>2, TheEnds DEF SocketSound, Opened, IInv
  <2>4. ASSUME NEW t \in Sockets \ {s}
        PROVE  SocketSound(t)'
    <3>1. Aside(t)
      BY <1>4, <1>6, <1>12, <1>13, <2>1, <2>4, TheEnds DEF Aside, SameData, SameRequests
    <3> QED
      BY <3>1, AsideKeeps DEF IInv
  <2>5. SameOpening
    BY <1>3, <1>4, <1>6, <1>13 DEF SameOpening
  <2>6. \A r \in Requests : RequestSound(r)'
    BY <2>5, OpeningKeeps DEF IInv
  <2> QED
    BY <1>11, <2>3, <2>4, <2>6 DEF IInv
<1>14. CASE e = "server"
  <2>1. sock'["client"] = sock["client"]
    BY <1>4, <1>14, TheEnds
  <2>2. ASSUME NEW t \in Sockets \ {s}
        PROVE  SocketSound(t)'
    <3>1. Aside(t)
      BY <1>3, <1>4, <1>6, <1>12, <1>14, <2>1, <2>2, TheEnds DEF Aside, SameData, SameRequests
    <3> QED
      BY <3>1, AsideKeeps DEF IInv
  <2>3. Opened(s)'
    BY <1>1, <1>3, <1>4, <1>6, <1>14, <2>1 DEF IInv, SocketSound, Opened
  <2>4. ASSUME Reliable(s)'
        PROVE  Conversation(s)'
    <3>1. Conversation(s)
      BY <1>6, <2>1, <2>4 DEF IInv, SocketSound, Reliable
    <3>2. Lost(s) => Lost(s)'
      BY <1>3, <1>4, <1>6, <1>14, LostStays
    <3>3. Calm(s)
      BY <1>5, <1>6, <1>7, <1>8, <1>9, <1>10, <1>14, <2>1, <3>2, TheEnds
      DEF Calm, Questions, Answers, Uploading, SameRequests
    <3>4. Serving(s)'
      BY <1>3, <1>4, <1>6, <1>14, <3>1 DEF Serving, Uploading, Conversation
    <3> QED
      BY <3>1, <3>3, <3>4, CalmKeeps DEF IInv
  <2>5. SameOpening
    BY <1>6, <2>1 DEF SameOpening
  <2>6. \A r \in Requests : RequestSound(r)'
    BY <2>5, OpeningKeeps DEF IInv
  <2> QED
    BY <1>11, <2>2, <2>3, <2>4, <2>6 DEF IInv, SocketSound
<1> QED
  BY <1>13, <1>14, TheEnds

LEMMA NewSocketIs ==
  /\ NewSocket \in PeerMessageSocket
  /\ NewSocket.pooled /\ NewSocket.active /\ NewSocket.listening /\ NewSocket.born
  /\ ~NewSocket.closing
<1>1. NoSocket \in PeerMessageSocket /\ ~NoSocket.closing
  BY DEF NoSocket, PeerMessageSocket
<1> QED
  BY <1>1 DEF NewSocket, PeerMessageSocket

LEMMA AcceptKeeps ==
  ASSUME IInv, NEW s \in Sockets, Accept(s) PROVE IInv'
<1>1. sock["client"][s].born
  BY OpenedFirst DEF Accept, IInv, SocketSound, Questions
<1>2. NewSocket \in PeerMessageSocket
  BY NewSocketIs
<1>3. /\ sock' \in [Ends -> [Sockets -> PeerMessageSocket]]
      /\ sock'["server"][s] = NewSocket
      /\ \A d \in Ends, t \in Sockets : d # "server" \/ t # s => sock'[d][t] = sock[d][t]
  BY <1>2, EndUpdated, TheEnds DEF Accept, IInv, Typed
<1>4. UNCHANGED <<inbox, cut, req, nbHash, service, heard, mixed>>
  BY DEF Accept, history
<1>5. Typed'
  BY <1>3, <1>4 DEF IInv, Typed, service
<1>6. \A t \in Sockets : SameData(t) /\ SameRequests(t)
  BY <1>4 DEF SameData, service, SameRequests
<1>7. sock'["client"] = sock["client"]
  BY TheEnds DEF Accept, IInv, Typed
<1>8. ASSUME NEW t \in Sockets \ {s}
      PROVE  SocketSound(t)'
  <2>1. Aside(t)
    BY <1>3, <1>4, <1>6 DEF Aside, SameData
  <2> QED
    BY <2>1, AsideKeeps DEF IInv
<1>9. Opened(s)'
  BY <1>1, <1>3, <1>7, NewSocketIs DEF Opened
<1>10. ASSUME Reliable(s)'
       PROVE  Conversation(s)'
  <2>1. Conversation(s)
    BY <1>4, <1>7, <1>10 DEF IInv, SocketSound, Reliable
  <2>2. ~sock["server"][s].born /\ upload[s].state = "none"
    BY DEF Accept, IInv, SocketSound, Opened
  <2>3. Lost(s) => Lost(s)'
    BY <1>4, <2>2 DEF Lost
  <2>4. Calm(s)
    BY <1>4, <1>6, <1>7, <2>3 DEF Calm, Questions, Answers, Uploading, service
  <2>5. Serving(s)'
    BY <1>3, <1>4, <2>2, NewSocketIs DEF Serving, Uploading, service
  <2> QED
    BY <2>1, <2>4, <2>5, CalmKeeps DEF IInv
<1>11. SameOpening
  BY <1>4, <1>7 DEF SameOpening
<1>12. \A r \in Requests : RequestSound(r)'
  BY <1>11, OpeningKeeps DEF IInv
<1> QED
  BY <1>5, <1>8, <1>9, <1>10, <1>12 DEF IInv, SocketSound

LEMMA CutKeeps ==
  ASSUME IInv, NEW s \in Sockets, Cut(s) PROVE IInv'
<1>1. sock["client"][s].born
  <2>1. sock["client"][s].pooled \/ \E r \in Requests : req[r].socket = s
    BY TheEnds DEF Cut, Open, Alive, Holders
  <2> QED
    BY <2>1, OpenedFirst DEF IInv, SocketSound, RequestSound
<1>2. cut' = cut \cup {s} /\ UNCHANGED <<sock, req, nbHash, service, heard, mixed>>
  BY DEF Cut, history
<1>3. PICK lost \in SUBSET Ends :
        inbox' = [e \in Ends |-> IF e \in lost THEN [inbox[e] EXCEPT ![s] = <<>>] ELSE inbox[e]]
  BY DEF Cut
<1>4. /\ inbox' \in [Ends -> [Sockets -> Seq(Msg)]]
      /\ \A e \in Ends : inbox'[e][s] \in {<<>>, inbox[e][s]}
      /\ \A e \in Ends, t \in Sockets \ {s} : inbox'[e][t] = inbox[e][t]
  <2>1. <<>> \in Seq(Msg)
    OBVIOUS
  <2>2. ASSUME NEW e \in Ends
        PROVE  /\ inbox'[e] \in [Sockets -> Seq(Msg)]
               /\ inbox'[e][s] \in {<<>>, inbox[e][s]}
               /\ \A t \in Sockets \ {s} : inbox'[e][t] = inbox[e][t]
    <3>1. inbox[e] \in [Sockets -> Seq(Msg)]
      BY DEF IInv, Typed
    <3> QED
      BY <1>3, <2>1, <3>1
  <2> QED
    BY <1>3, <2>2
<1>5. Typed'
  BY <1>2, <1>4 DEF IInv, Typed, service
<1>6. ASSUME NEW t \in Sockets \ {s}
      PROVE  SocketSound(t)'
  <2>1. Aside(t)
    BY <1>2, <1>4 DEF Aside, service, SameRequests
  <2> QED
    BY <2>1, AsideKeeps DEF IInv
<1>7. Opened(s)'
  BY <1>1, <1>2 DEF IInv, SocketSound, Opened, service
<1>8. ASSUME Reliable(s)'
      PROVE  Conversation(s)'
  <2>1. Conversation(s)
    BY <1>2, <1>8 DEF IInv, SocketSound, Reliable
  <2>2. Lost(s)'
    BY <1>2 DEF Lost
  <2>3. Calm(s)
    BY <1>2, <1>4, <2>2, TheEnds
    DEF Calm, Questions, Answers, Uploading, service, SameRequests
  <2>4. Serving(s)'
    BY <1>2, <2>1 DEF Serving, Uploading, service, Conversation
  <2> QED
    BY <2>1, <2>3, <2>4, CalmKeeps DEF IInv
<1>9. SameOpening
  BY <1>2 DEF SameOpening
<1>10. \A r \in Requests : RequestSound(r)'
  BY <1>9, OpeningKeeps DEF IInv
<1> QED
  BY <1>5, <1>6, <1>7, <1>8, <1>10 DEF IInv, SocketSound

LEMMA ChunkGrowsKeeps ==
  ASSUME IInv, NEW r \in Requests, ChunkGrows(r) PROVE IInv'
<1>1. UNCHANGED <<sock, inbox, cut, req, nbHash, browse, owed, upload, heard, mixed>>
  BY DEF ChunkGrows, history
<1>2. known' \in [Requests -> 0 .. NbPieces]
  BY PoolAssumption DEF ChunkGrows, IInv, Typed
<1>3. Typed'
  BY <1>1, <1>2 DEF IInv, Typed
<1>4. ASSUME NEW t \in Sockets
      PROVE  SocketSound(t)'
  <2>1. Aside(t)
    BY <1>1 DEF Aside, SameRequests
  <2> QED
    BY <2>1, AsideKeeps DEF IInv
<1>5. SameOpening
  BY <1>1 DEF SameOpening
<1>6. \A q \in Requests : RequestSound(q)'
  BY <1>5, OpeningKeeps DEF IInv
<1> QED
  BY <1>3, <1>4, <1>6 DEF IInv

(* The end of the upload, or of the uploader.                              *)
LEMMA UploaderKeeps ==
  ASSUME IInv, NEW s \in Sockets, upload[s].state # "none",
         UNCHANGED <<inbox, cut, req, nbHash, browse, owed, known, heard, mixed>>,
         sock' \in [Ends -> AllSockets], sock'["client"] = sock["client"],
         Shaped(sock["server"], sock'["server"], s),
         upload' \in [Sockets -> ChunkUploader],
         upload'[s].state # "run",
         \A t \in Sockets \ {s} : upload'[t] = upload[t],
         ~Uploading(s) => sock'["server"] = sock["server"]
  PROVE  IInv'
<1>1. sock["client"][s].born /\ sock["server"][s].born
  BY OpenedFirst DEF IInv, SocketSound, Opened
<1>2. Typed'
  BY DEF IInv, Typed, AllSockets
<1>3. ServerOnly(s)
  BY DEF ServerOnly, SameData
<1>4. ASSUME Reliable(s)
      PROVE  Conversation(s)'
  <2>1. Conversation(s)
    BY <1>4 DEF IInv, SocketSound
  <2>2. Lost(s) => Lost(s)'
    BY LostStays DEF Shaped
  <2>3. Calm(s)
    BY <2>2 DEF Calm, Questions, Answers, Uploading, SameRequests
  <2>4. Serving(s)'
    BY <2>1 DEF Serving, Uploading, Conversation, Browsing, Hashing
  <2> QED
    BY <2>1, <2>3, <2>4, CalmKeeps DEF IInv
<1> QED
  BY <1>1, <1>2, <1>3, <1>4, ServerOnlyKeeps

LEMMA UploadFinishedKeeps ==
  ASSUME IInv, NEW s \in Sockets, UploadFinished(s) PROVE IInv'
<1>1. PICK close \in BOOLEAN, valid \in BOOLEAN :
        sock' = [sock EXCEPT !["server"] = Finished(sock["server"], s, close, valid)]
  BY DEF UploadFinished, Valid
<1> DEFINE T == Finished(sock["server"], s, close, valid)
<1>2. Shaped(sock["server"], T, s)
  <2>1. sock["server"] \in AllSockets
    BY TheEnds DEF IInv, Typed, AllSockets
  <2> QED
    BY <2>1, FinishedShape
<1> HIDE DEF T
<1>3. /\ sock' \in [Ends -> AllSockets] /\ sock'["server"] = T
      /\ sock'["client"] = sock["client"]
  BY <1>1, <1>2, EndReplaced, TheEnds DEF T, IInv, Typed, AllSockets, Shaped
<1>4. /\ upload' \in [Sockets -> ChunkUploader] /\ upload'[s].state # "run"
      /\ \A t \in Sockets \ {s} : upload'[t] = upload[t]
  <2>1. upload' = [upload EXCEPT ![s].state = "finished"] /\ upload \in [Sockets -> ChunkUploader]
    BY DEF UploadFinished, IInv, Typed
  <2>2. PICK u \in ChunkUploader : u = upload[s]
    BY <2>1
  <2> DEFINE w == [u EXCEPT !.state = "finished"]
  <2>3. w \in ChunkUploader /\ w.state = "finished"
    BY DEF ChunkUploader
  <2>4. upload' = [upload EXCEPT ![s] = w]
    BY <2>1, <2>2
  <2> HIDE DEF w
  <2> QED
    BY <2>1, <2>3, <2>4
<1> QED
  BY <1>2, <1>3, <1>4, UploaderKeeps DEF UploadFinished, Uploading, history

LEMMA UploadTimeoutKeeps ==
  ASSUME IInv, NEW s \in Sockets, UploadTimeout(s) PROVE IInv'
<1>1. NoUpload \in ChunkUploader /\ NoUpload.state = "none"
  BY DEF NoUpload, ChunkUploader
<1>2. /\ upload' \in [Sockets -> ChunkUploader] /\ upload'[s].state # "run"
      /\ \A t \in Sockets \ {s} : upload'[t] = upload[t]
  BY <1>1 DEF UploadTimeout, IInv, Typed
<1>3. Shaped(sock["server"], sock'["server"], s) /\ sock' \in [Ends -> AllSockets]
  BY TheEnds DEF UploadTimeout, IInv, Typed, Shaped, AllSockets
<1> QED
  BY <1>2, <1>3, UploaderKeeps DEF UploadTimeout, history

-----------------------------------------------------------------------------
(* The requests of the peer that asks.                                     *)

LEMMA StateUpdated ==
  ASSUME NEW x \in Result, NEW state \in States
  PROVE  [x EXCEPT !.state = state] \in Result
BY DEF Result, States

LEMMA ResultUpdated ==
  ASSUME NEW x \in Result, NEW n \in Int,
         NEW state \in States
  PROVE  [x EXCEPT !.left = n, !.state = state] \in Result
BY DEF Result, States

LEMMA SocketOfRequest ==
  ASSUME IInv, NEW r \in Requests, req[r].state # "new"
  PROVE  req[r].socket \in Sockets /\ sock["client"][req[r].socket].born
BY DEF IInv, RequestSound, Typed, Result

(* What the step of one request makes of the others.                       *)
LEMMA RequestOnly ==
  ASSUME IInv, NEW r \in Requests, NEW s \in Sockets, req[r].socket = s, req[r].state # "new",
         NEW y \in Result, y.socket = s, y.state # "new", req' = [req EXCEPT ![r] = y],
         \A q \in Requests \ {r} : heard'[q] = heard[q], mixed' = mixed,
         \A t \in Sockets \ {s} : t \in cut' <=> t \in cut,
         sock'["server"] = sock["server"],
         Shaped(sock["client"], sock'["client"], s),
         \A t \in Sockets \ {s} : SameData(t),
         upload'[s] = upload[s]
  PROVE  ClientOnly(s)
BY DEF ClientOnly, IInv, Typed

(* The conversation of a request that is given up is not over.             *)
LEMMA GivenUpTalk ==
  ASSUME Typed, NEW s \in Sockets, NEW r \in Requests, Conversation(s),
         req[r].socket = s, req[r].state = "asked",
         req'[r].socket = s, req'[r].state \in {"timedout", "dropped"},
         req'[r].kind = req[r].kind, req'[r].left = req[r].left,
         \A q \in Requests \ {r} : req'[q] = req[q],
         UNCHANGED <<inbox, cut, nbHash, service, heard>>,
         sock'["server"] = sock["server"]
  PROVE  Conversation(s)'
<1>1. Holders(s) = {r}
  BY DEF Conversation, Held, Holders, Running
<1>2. Holders(s)' = {}
  BY <1>1 DEF Holders, Running
<1>3. ASSUME NEW q \in Requests, Asker(q, s)
      PROVE  q = r
  BY <1>1, <1>3 DEF Asker
<1>4. Asker(r, s)' /\ \A k \in Kinds : AskerOf(r, s, k) => AskerOf(r, s, k)'
  BY <1>2 DEF Asker, AskerOf
<1>5. ASSUME NEW q \in Requests, NEW k \in Kinds, AskerOf(q, s, k)
      PROVE  q = r /\ AskerOf(q, s, k)'
  BY <1>3, <1>4, <1>5 DEF AskerOf
<1>6. /\ Answers(s)' = Answers(s) /\ Questions(s)' = Questions(s) /\ browse'[s] = browse[s]
      /\ owed'[s] = owed[s] /\ upload'[s] = upload[s] /\ Lost(s)' = Lost(s)
      /\ nbHash'["server"][s] = nbHash["server"][s]
      /\ nbHash'["client"][s] = nbHash["client"][s]
      /\ Uploading(s)' = Uploading(s) /\ Junk(s)' = Junk(s)
      /\ Owes(r, s)' = Owes(r, s) /\ Counted(r, s)'
  BY AliveAtServer, AliveAtServerNext
  DEF Answers, Questions, service, Lost, Uploading, Junk, Owes, Counted
<1>7. Held(s)' /\ Streaming(s)' /\ Serving(s)' /\ Heeded(s)'
  <2>1. Heeded(s)'
    BY DEF Heeded, Conversation
  <2>2. Serving(s)'
    BY <1>6 DEF Serving, Conversation
  <2> QED
    BY <1>2, <2>1, <2>2 DEF Held, Streaming
<1>8. Asked(s)'
  <2>1. SUFFICES ASSUME Questions(s) # <<>> PROVE Asked(s)'
    BY <1>6 DEF Asked
  <2>2. /\ Len(Questions(s)) = 1 /\ browse[s] = None /\ owed[s] = <<>>
        /\ Answers(s) = <<>> \/ Junk(s)
    BY <2>1 DEF Conversation, Asked
  <2>3. /\ Questions(s)[1] = Request(r)
        /\ req[r].kind = "hashes" => req[r].left = NbHashes
    BY <1>3, <2>1 DEF Conversation, Asked
  <2>4. Request(r)' = Request(r)
    BY DEF Request
  <2>5. /\ Asker(r, s)' /\ Questions(s)'[1] = Request(r)'
        /\ req'[r].kind = "hashes" => req'[r].left = NbHashes
    BY <1>4, <1>6, <2>3, <2>4
  <2> QED
    BY <1>6, <2>2, <2>5 DEF Asked
<1>9. Browsing(s)'
  BY <1>5, <1>6 DEF Browsing, Conversation, Typed, Kinds
<1>10. Hashing(s)'
  <2>1. SUFFICES ASSUME owed[s] # <<>> PROVE Hashing(s)'
    BY <1>6 DEF Hashing
  <2>2. /\ ~Uploading(s) /\ nbHash["server"][s] = Len(owed[s])
        /\ AskerOf(r, s, "hashes") /\ Owes(r, s)
        /\ Answers(s) = <<>> => Lost(s) \/ Len(owed[s]) <= nbHash["client"][s]
    BY <1>3, <2>1 DEF Conversation, Hashing, AskerOf
  <2> QED
    BY <1>4, <1>6, <2>2 DEF Hashing, Kinds
<1>11. CASE Answers(s) = <<>>
  BY <1>6, <1>7, <1>8, <1>9, <1>10, <1>11
  DEF Conversation, Coming, EntriesComing, HashesComing, HashComing, ChunkComing,
      NoQuestionComing
<1>12. CASE Answers(s) # <<>>
  <2>1. Answers(s) \in Seq(Msg)
    BY TheEnds DEF Typed, Answers
  <2>2. Answers(s)[1] \in Msg
    BY <1>12, <2>1, LenProperties
  <2>3. PICK h \in Msg : h = Answers(s)[1] /\ h = Answers(s)'[1] /\ h.req \in Requests
    BY <1>6, <2>2 DEF Msg
  <2>4. NoQuestionComing(s)'
    BY <1>6 DEF Conversation, Coming, NoQuestionComing
  <2>5. EntriesComing(s)'
    BY <1>5, <1>6, <2>3 DEF Conversation, Coming, EntriesComing, Kinds
  <2>6. HashesComing(s)'
    <3>1. SUFFICES ASSUME h.type = "HASHES_RESULT" PROVE HashesComing(s)'
      BY <1>6, <2>3 DEF HashesComing
    <3>2. /\ ~Uploading(s) /\ Owes(h.req, s)
          /\ AskerOf(h.req, s, "hashes") /\ req[h.req].left = NbHashes
          /\ \/ h.n = 0 /\ Len(Answers(s)) = 1 /\ owed[s] = <<>>
             \/ h.n = NbHashes /\ Len(Answers(s)) - 1 + Len(owed[s]) <= req[h.req].left
          /\ \A k \in 2 .. Len(Answers(s)) :
               Answers(s)[k].type = "HASH_RESULT" /\ Answers(s)[k].req = h.req
      BY <1>12, <2>3, <3>1 DEF Conversation, Coming, HashesComing
    <3>3. h.req = r
      BY <1>5, <2>3, <3>2 DEF Kinds
    <3>4. AskerOf(r, s, "hashes")'
      BY <1>4, <3>2, <3>3 DEF Kinds
    <3> QED
      BY <1>6, <2>3, <3>2, <3>3, <3>4 DEF HashesComing
  <2>7. HashComing(s)'
    <3>1. SUFFICES ASSUME h.type = "HASH_RESULT" PROVE HashComing(s)'
      BY <1>6, <2>3 DEF HashComing
    <3>2. /\ ~Uploading(s) /\ Owes(h.req, s) /\ AskerOf(h.req, s, "hashes")
          /\ Len(Answers(s)) + Len(owed[s]) <= nbHash["client"][s]
          /\ \A k \in 1 .. Len(Answers(s)) :
               Answers(s)[k].type = "HASH_RESULT" /\ Answers(s)[k].req = h.req
      BY <1>12, <2>3, <3>1 DEF Conversation, Coming, HashComing
    <3>3. h.req = r
      BY <1>5, <2>3, <3>2 DEF Kinds
    <3>4. AskerOf(r, s, "hashes")'
      BY <1>4, <3>2, <3>3 DEF Kinds
    <3> QED
      BY <1>6, <2>3, <3>2, <3>3, <3>4 DEF HashComing
  <2>8. ChunkComing(s)'
    BY <1>5, <1>6, <2>3 DEF Conversation, Coming, ChunkComing, Kinds
  <2> QED
    BY <1>7, <1>8, <1>9, <1>10, <2>4, <2>5, <2>6, <2>7, <2>8 DEF Conversation, Coming
<1> QED
  BY <1>11, <1>12

(* A request that waits is given up, with or without closing its socket.   *)
LEMMA GiveUpKeeps ==
  ASSUME IInv, NEW r \in Requests, NEW state \in {"timedout", "dropped"}, NEW close \in BOOLEAN,
         NEW valid \in BOOLEAN,
         req[r].state = "asked", req' = [req EXCEPT ![r].state = state],
         sock' = [sock EXCEPT !["client"] =
                    Finished(sock["client"], req[r].socket, close, valid)],
         UNCHANGED <<inbox, cut, nbHash, service, heard, mixed>>
  PROVE  IInv'
<1>1. PICK s \in Sockets : s = req[r].socket /\ sock["client"][s].born
  BY SocketOfRequest
<1>2. /\ inbox' = inbox /\ cut' = cut /\ nbHash' = nbHash /\ heard' = heard /\ mixed' = mixed
      /\ browse' = browse /\ owed' = owed /\ upload' = upload /\ known' = known
  BY DEF service
<1> DEFINE T == Finished(sock["client"], s, close, valid)
<1>3. sock' = [sock EXCEPT !["client"] = T]
  BY <1>1
<1>4. /\ Shaped(sock["client"], T, s)
      /\ sock["client"][s].closing /\ sock["client"][s].pooled => T[s].closing
  <2>1. sock["client"] \in AllSockets
    BY TheEnds DEF IInv, Typed, AllSockets
  <2> QED
    BY <2>1, FinishedShape
<1> HIDE DEF T
<1>5. /\ sock' \in [Ends -> AllSockets] /\ sock'["client"] = T
      /\ sock'["server"] = sock["server"]
  BY <1>3, <1>4, EndReplaced, TheEnds DEF IInv, Typed, AllSockets, Shaped
<1>6. PICK y \in Result : /\ req' = [req EXCEPT ![r] = y]
                          /\ y.socket = s /\ y.state = state
                          /\ y.kind = req[r].kind /\ y.left = req[r].left
  <2>1. req[r] \in Result /\ state \in States
    BY DEF IInv, Typed, States
  <2>2. [req[r] EXCEPT !.state = state] \in Result
    BY <2>1, StateUpdated
  <2>3. /\ [req[r] EXCEPT !.state = state].socket = s
        /\ [req[r] EXCEPT !.state = state].state = state
        /\ [req[r] EXCEPT !.state = state].kind = req[r].kind
        /\ [req[r] EXCEPT !.state = state].left = req[r].left
    BY <1>1, <2>1 DEF Result
  <2> QED
    BY <2>2, <2>3
<1>7. Typed'
  <2>1. req' \in [Requests -> Result]
    BY <1>6 DEF IInv, Typed
  <2> QED
    BY <1>2, <1>5, <2>1 DEF IInv, Typed, AllSockets
<1>8. ClientOnly(s)
  <2>1. \A t \in Sockets \ {s} : SameData(t)
    BY <1>2 DEF SameData, service
  <2>2. req[r].state # "new" /\ y.state # "new"
    BY <1>6
  <2>3. Shaped(sock["client"], sock'["client"], s)
    BY <1>4, <1>5
  <2> QED
    BY <1>1, <1>5, <1>6, <1>2, <2>1, <2>2, <2>3, RequestOnly
<1>9. ASSUME Reliable(s)'
      PROVE  Conversation(s)'
  <2>1. Reliable(s)
    BY <1>4, <1>5, <1>9, <1>2 DEF Reliable, Shaped
  <2>2. Conversation(s)
    BY <2>1 DEF IInv, SocketSound
  <2>3. req'[r] = y /\ \A q \in Requests \ {r} : req'[q] = req[q]
    BY <1>6 DEF IInv, Typed
  <2> QED
    BY <1>1, <1>5, <1>6, <2>2, <2>3, GivenUpTalk DEF IInv
<1> QED
  BY <1>1, <1>7, <1>8, <1>9, ClientOnlyKeeps

LEMMA TimeoutKeeps ==
  ASSUME IInv, NEW r \in Requests, Timeout(r) PROVE IInv'
<1>1. PICK valid \in BOOLEAN :
        sock' = [sock EXCEPT !["client"] =
                   Finished(sock["client"], req[r].socket, CloseOnTimeout(r), valid)]
  BY DEF Timeout, Valid
<1>2. CloseOnTimeout(r) \in BOOLEAN
  BY DEF CloseOnTimeout
<1>3. /\ req[r].state = "asked" /\ req' = [req EXCEPT ![r].state = "timedout"]
      /\ UNCHANGED <<inbox, cut, nbHash, service, heard, mixed>>
  BY DEF Timeout, history
<1> QED
  BY <1>1, <1>2, <1>3, GiveUpKeeps

LEMMA DropKeeps ==
  ASSUME IInv, NEW r \in Requests, Drop(r) PROVE IInv'
<1>1. PICK valid \in BOOLEAN :
        sock' = [sock EXCEPT !["client"] =
                   Finished(sock["client"], req[r].socket, FALSE, valid)]
  BY DEF Drop, Valid
<1>2. /\ req[r].state = "asked" /\ req' = [req EXCEPT ![r].state = "dropped"]
      /\ UNCHANGED <<inbox, cut, nbHash, service, heard, mixed>>
  BY DEF Drop, history
<1> QED
  BY <1>1, <1>2, GiveUpKeeps

LEMMA AbortStreamKeeps ==
  ASSUME IInv, NEW r \in Requests, AbortStream(r) PROVE IInv'
<1>1. PICK s \in Sockets : s = req[r].socket /\ sock["client"][s].born
  BY SocketOfRequest DEF AbortStream
<1> DEFINE T == Finished(sock["client"], s, TRUE, TRUE)
<1>2. sock' = [sock EXCEPT !["client"] = T]
  BY <1>1 DEF AbortStream
<1>3. /\ Shaped(sock["client"], T, s) /\ (~sock["client"][s].active => T = sock["client"])
      /\ sock["client"][s].active => T[s].closing = sock["client"][s].pooled
  <2>1. sock["client"] \in AllSockets
    BY TheEnds DEF IInv, Typed, AllSockets
  <2> QED
    BY <2>1, FinishedShape
<1> HIDE DEF T
<1>4. /\ sock' \in [Ends -> AllSockets] /\ sock'["client"] = T
      /\ sock'["server"] = sock["server"]
  BY <1>2, <1>3, EndReplaced, TheEnds DEF IInv, Typed, AllSockets, Shaped
<1>5. PICK y \in Result : /\ req' = [req EXCEPT ![r] = y]
                          /\ y.socket = s /\ y.state = "ended"
  <2>1. [req[r] EXCEPT !.state = "ended"] \in Result
    BY StateUpdated DEF IInv, Typed, States
  <2>2. /\ [req[r] EXCEPT !.state = "ended"].socket = s
        /\ [req[r] EXCEPT !.state = "ended"].state = "ended"
    BY <1>1 DEF IInv, Typed, Result
  <2> QED
    BY <2>1, <2>2 DEF AbortStream
<1>6. UNCHANGED <<inbox, cut, nbHash, service, heard, mixed>>
  BY DEF AbortStream, history
<1>7. Typed'
  BY <1>4, <1>5, <1>6 DEF IInv, Typed, AllSockets, service
<1>8. ClientOnly(s)
  <2>1. \A t \in Sockets : SameData(t)
    BY <1>6 DEF SameData, service
  <2>2. req[r].state # "new"
    BY DEF AbortStream
  <2> QED
    BY <1>1, <1>3, <1>4, <1>5, <1>6, <2>1, <2>2, RequestOnly DEF SameData
<1>9. ~Reliable(s)'
  <2>1. SUFFICES ASSUME Reliable(s)' PROVE FALSE
    OBVIOUS
  <2>2. ~T[s].closing /\ T[s].pooled
    BY <1>4, <2>1 DEF Reliable
  <2>3. ~sock["client"][s].active
    BY <1>3, <2>2 DEF Shaped
  <2>4. T = sock["client"]
    BY <1>3, <2>3
  <2>5. Reliable(s)
    BY <1>6, <2>1, <2>2, <2>4 DEF Reliable
  <2>6. r \in Holders(s)
    BY <1>1 DEF Holders, Running, AbortStream
  <2> QED
    BY <2>3, <2>5, <2>6 DEF IInv, SocketSound, Conversation, Held
<1> QED
  BY <1>1, <1>7, <1>8, <1>9, ClientOnlyKeeps

(* The stream of a chunk is read by the request it was sent for.           *)
LEMMA ReadStreamKeeps ==
  ASSUME IInv, NEW r \in Requests, ReadStream(r) PROVE IInv'
<1>1. PICK s \in Sockets : s = req[r].socket /\ sock["client"][s].born
  BY SocketOfRequest DEF ReadStream
<1> DEFINE last == req[r].left = 1
           m == Head(Answers(s))
<1>2. Answers(s) \in Seq(Msg) /\ Answers(s) # <<>>
  BY <1>1, TheEnds DEF ReadStream, Answers, IInv, Typed
<1>3. m \in Msg /\ Tail(Answers(s)) \in Seq(Msg) /\ m = Answers(s)[1]
      /\ Len(Tail(Answers(s))) = Len(Answers(s)) - 1
      /\ \A k \in 1 .. Len(Tail(Answers(s))) :
           k + 1 \in 1 .. Len(Answers(s)) /\ Tail(Answers(s))[k] = Answers(s)[k + 1]
  BY <1>2, HeadTailProperties, LenProperties
<1>4. /\ inbox' \in [Ends -> [Sockets -> Seq(Msg)]]
      /\ inbox'["client"][s] = Tail(Answers(s))
      /\ \A d \in Ends, t \in Sockets : d # "client" \/ t # s => inbox'[d][t] = inbox[d][t]
  <2>1. inbox' = [inbox EXCEPT !["client"][s] = Tail(Answers(s))]
    BY <1>1 DEF ReadStream, Answers
  <2> QED
    BY <1>3, <2>1, EndUpdated, TheEnds DEF IInv, Typed
<1>5. PICK T \in AllSockets :
        /\ sock' = [sock EXCEPT !["client"] = T]
        /\ Shaped(sock["client"], T, s)
        /\ T[s].pooled /\ ~T[s].closing => ~sock["client"][s].closing
        /\ ~last => T = sock["client"]
  <2>1. sock["client"] \in AllSockets
    BY TheEnds DEF IInv, Typed, AllSockets
  <2>2. PICK valid \in BOOLEAN :
          sock' = [sock EXCEPT !["client"] = IF last THEN Finished(sock["client"], s, FALSE, valid)
                                             ELSE sock["client"]]
    BY <1>1 DEF ReadStream, Valid
  <2>3. CASE last
    <3> DEFINE U == Finished(sock["client"], s, FALSE, valid)
    <3>1. Shaped(sock["client"], U, s)
          /\ (sock["client"][s].closing /\ sock["client"][s].pooled => U[s].closing)
      BY <2>1, FinishedShape
    <3> HIDE DEF U
    <3>2. sock' = [sock EXCEPT !["client"] = U]
      BY <2>2, <2>3 DEF U
    <3> QED
      BY <2>3, <3>1, <3>2 DEF Shaped
  <2>4. CASE ~last
    <3>1. Shaped(sock["client"], sock["client"], s)
      BY <2>1 DEF Shaped
    <3> QED
      BY <2>1, <2>2, <2>4, <3>1
  <2> QED
    BY <2>3, <2>4
<1>6. /\ sock' \in [Ends -> AllSockets] /\ sock'["client"] = T
      /\ sock'["server"] = sock["server"]
  BY <1>5, EndReplaced, TheEnds DEF IInv, Typed, AllSockets
<1>7. PICK y \in Result :
        /\ req' = [req EXCEPT ![r] = y]
        /\ y.socket = s /\ y.kind = req[r].kind
        /\ y.state = IF last THEN "ended" ELSE "stream"
  <2> DEFINE y == [req[r] EXCEPT !.left = req[r].left - 1,
                                 !.state = IF last THEN "ended" ELSE req[r].state]
  <2>1. y \in Result
    <3>1. req[r] \in Result /\ req[r].left - 1 \in Int
      BY DEF IInv, Typed, Result
    <3>2. (IF last THEN "ended" ELSE req[r].state) \in States
      BY <3>1 DEF Result, States
    <3> QED
      BY <3>1, <3>2, ResultUpdated
  <2>2. /\ y.socket = s /\ y.kind = req[r].kind
        /\ y.state = IF last THEN "ended" ELSE "stream"
    BY <1>1 DEF IInv, Typed, Result, ReadStream
  <2>3. req' = [req EXCEPT ![r] = y]
    BY DEF IInv, Typed, Result, ReadStream
  <2> QED
    BY <2>1, <2>2, <2>3
<1>8. /\ heard' \in [Requests -> SUBSET Requests]
      /\ heard'[r] = heard[r] \cup {m.req}
      /\ \A q \in Requests \ {r} : heard'[q] = heard[q]
  <2>1. heard' = [heard EXCEPT ![r] = @ \cup {m.req}]
    BY <1>1 DEF ReadStream, Answers
  <2>2. m.req \in Requests
    BY <1>3 DEF Msg
  <2> QED
    BY <2>1, <2>2 DEF IInv, Typed
<1>9. UNCHANGED <<cut, nbHash, service, mixed>>
  BY DEF ReadStream
<1>10. Typed'
  BY <1>4, <1>6, <1>7, <1>8, <1>9 DEF IInv, Typed, AllSockets, service
<1>11. ClientOnly(s)
  <2>1. \A t \in Sockets \ {s} : SameData(t)
    BY <1>4, <1>9 DEF SameData, service
  <2>2. req[r].state # "new" /\ y.state # "new"
    BY <1>7 DEF ReadStream
  <2> QED
    BY <1>1, <1>5, <1>6, <1>7, <1>8, <1>9, <2>1, <2>2, RequestOnly DEF service
<1> HIDE DEF m, last
<1>12. ASSUME Reliable(s)'
       PROVE  Conversation(s)'
  <2>1. Reliable(s)
    BY <1>5, <1>6, <1>9, <1>12 DEF Reliable, Shaped
  <2>2. Conversation(s)
    BY <2>1 DEF IInv, SocketSound
  <2>3. r \in Holders(s) /\ Holders(s) = {r} /\ req[r].state = "stream"
    BY <1>1, <2>2 DEF Holders, Running, ReadStream, Conversation, Held
  <2>4. /\ Uploading(s) => upload[s].req = r
        /\ \A k \in 1 .. Len(Answers(s)) :
             Answers(s)[k].type = "STREAM" /\ Answers(s)[k].req = r
    BY <2>2, <2>3 DEF Conversation, Coming, Streaming
  <2>5. m.req = r
    BY <1>2, <1>3, <2>4, LenProperties
  <2>6. Answers(s)' = Tail(Answers(s)) /\ Questions(s)' = Questions(s)
    BY <1>4, TheEnds DEF Answers, Questions
  <2>7. \A k \in 1 .. Len(Answers(s)') :
          Answers(s)'[k].type = "STREAM" /\ Answers(s)'[k].req = r
    BY <1>3, <2>4, <2>6
  <2>8. Answers(s)' \in Seq(Msg)
    BY <1>3, <2>6
  <2>9. Answers(s)' = <<>> \/ (Answers(s)' # <<>> /\ Answers(s)'[1].type = "STREAM")
    BY <2>7, <2>8, LenProperties
  <2>10. ASSUME NEW q \in Requests
         PROVE  ~Asker(q, s) /\ (q \in Holders(s)' => q = r /\ ~last)
    BY <1>7, <2>3 DEF Asker, Holders, Running, IInv, Typed
  <2>11. Questions(s) = <<>> /\ browse[s] = None /\ owed[s] = <<>>
    BY <2>2, <2>10 DEF Conversation, Asked, Browsing, Hashing, AskerOf, IInv, Typed
  <2>12. browse'[s] = None /\ owed'[s] = <<>> /\ upload' = upload
    BY <1>9, <2>11 DEF service
  <2>13. Asked(s)' /\ Browsing(s)' /\ Hashing(s)'
    BY <2>6, <2>11, <2>12 DEF Asked, Browsing, Hashing
  <2>14. Held(s)'
    BY <1>5, <1>6, <2>2, <2>3, <2>10 DEF Held, Conversation, Holders
  <2>15. Streaming(s)'
    BY <2>4, <2>7, <2>10, <2>12 DEF Streaming, Holders, Uploading
  <2>16. Coming(s)'
    BY <2>9, <2>15
    DEF Coming, EntriesComing, HashesComing, HashComing, ChunkComing, NoQuestionComing
  <2>17. Serving(s)'
    BY <1>6, <1>9, <2>2 DEF Serving, Conversation, Uploading, service
  <2>18. Heeded(s)'
    BY <1>1, <1>7, <1>8, <2>2, <2>5 DEF Heeded, Conversation, IInv, Typed
  <2> QED
    BY <2>13, <2>14, <2>16, <2>17, <2>18 DEF Conversation
<1> QED
  BY <1>1, <1>10, <1>11, <1>12, ClientOnlyKeeps

LEMMA LeastSocket ==
  ASSUME NEW Q \in SUBSET Sockets, Q # {}
  PROVE  First(Q) \in Q
<1> DEFINE R == {p \in Nat \X Nat : p[1] < p[2]}
<1>1. IsWellFoundedOn(R, Nat)
  BY NatLessThanWellFounded, Zenon DEF OpToRel
<1>2. \A x, y \in Nat : x < y => <<x, y>> \in R
  OBVIOUS
<1>3. Q \subseteq Nat
  BY PoolAssumption DEF Sockets
<1> HIDE DEF R
<1>4. PICK n \in Q : \A m \in Q : ~ (<<m, n>> \in R)
  BY <1>1, <1>3, WFMin, Zenon
<1>5. \A m \in Q : n <= m
  <2>1. ASSUME NEW m \in Q PROVE n <= m
    <3>1. n \in Nat /\ m \in Nat
      BY <1>3
    <3>2. ~ (m < n)
      BY <1>2, <1>4, <3>1
    <3> QED
      BY <3>1, <3>2
  <2> QED
    BY <2>1
<1> QED
  BY <1>5 DEF First

LEMMA RequestTyped ==
  ASSUME Typed, NEW r \in Requests
  PROVE  Request(r) \in Msg /\ Request(r).type \in {"GET_ENTRIES", "GET_HASHES", "GET_CHUNKS"}
                            /\ Request(r).req = r
<1>1. req[r].kind \in Kinds
  BY DEF Typed, Result
<1> QED
  BY <1>1 DEF Request, Message, Msg, MessageTypes, Kinds

(* Nothing is on the way on a connection where no request waits, but what  *)
(* is left of the data of a chunk.                                         *)
Silent(s) ==
  /\ Questions(s) = <<>> /\ browse[s] = None /\ owed[s] = <<>>
  /\ Answers(s) = <<>> \/ Junk(s)
  /\ Holders(s) = {}
  /\ Serving(s) /\ Heeded(s)

LEMMA NobodyAsks ==
  ASSUME Typed, NEW s \in Sockets, Conversation(s),
         \A q \in Requests : Asker(q, s) => ~StillComing(q, s)
  PROVE  /\ Questions(s) = <<>> /\ browse[s] = None /\ owed[s] = <<>>
         /\ Answers(s) = <<>> \/ Junk(s)
<1>1. Questions(s) = <<>>
  <2>1. SUFFICES ASSUME Questions(s) # <<>> PROVE FALSE
    OBVIOUS
  <2>2. PICK r \in Requests : Asker(r, s) /\ Questions(s)[1] = Request(r)
    BY <2>1 DEF Conversation, Asked
  <2>3. 1 \in DOMAIN Questions(s)
    BY <2>1, TheEnds, LenProperties DEF Typed, Questions
  <2>4. Questions(s)[1].req = r
    BY <2>2, RequestTyped
  <2>5. StillComing(r, s)
    BY <2>3, <2>4, TheEnds DEF StillComing, Questions
  <2> QED
    BY <2>2, <2>5
<1>2. browse[s] = None
  BY DEF Conversation, Browsing, AskerOf, Typed, StillComing
<1>3. owed[s] = <<>>
  <2>1. SUFFICES ASSUME owed[s] # <<>> PROVE FALSE
    OBVIOUS
  <2>2. PICK r \in Requests : Asker(r, s) /\ Owes(r, s)
    BY <2>1 DEF Conversation, Hashing, AskerOf
  <2>3. 1 \in DOMAIN owed[s]
    BY <2>1, LenProperties DEF Typed
  <2> QED
    BY <2>2, <2>3 DEF Owes, StillComing
<1>4. ASSUME Answers(s) # <<>>
      PROVE  Answers(s)[1].type = "STREAM"
  <2>1. Answers(s) \in Seq(Msg)
    BY TheEnds DEF Typed, Answers
  <2>2. Answers(s)[1] \in Msg
    BY <1>4, <2>1, LenProperties
  <2>3. PICK q \in Requests : q = Answers(s)[1].req
    BY <2>2 DEF Msg
  <2>4. \A k \in Kinds : ~AskerOf(q, s, k)
    <3>1. 1 \in DOMAIN Answers(s)
      BY <1>4, <2>1, LenProperties
    <3>2. StillComing(q, s)
      BY <2>3, <3>1, TheEnds DEF StillComing, Answers
    <3> QED
      BY <3>2 DEF AskerOf
  <2>5. Answers(s)[1].type \notin {"ENTRIES_RESULT", "HASHES_RESULT", "HASH_RESULT", "CHUNKS_RESULT"}
    BY <1>4, <2>3, <2>4
    DEF Conversation, Coming, EntriesComing, HashesComing, HashComing, ChunkComing, Kinds
  <2>6. Answers(s)[1].type \notin {"GET_ENTRIES", "GET_HASHES", "GET_CHUNKS"}
    BY <1>4 DEF Conversation, Coming, NoQuestionComing
  <2> QED
    BY <2>2, <2>5, <2>6 DEF Msg, MessageTypes
<1> QED
  BY <1>1, <1>2, <1>3, <1>4 DEF Junk

LEMMA IdleIsSilent ==
  ASSUME IInv, NEW s \in Sockets, Reliable(s), ~sock["client"][s].active,
         \A q \in Requests : req[q].socket = s /\ GivenUp(q) => ~StillComing(q, s)
  PROVE  Silent(s)
<1>1. Conversation(s)
  BY DEF IInv, SocketSound
<1>2. Holders(s) = {}
  BY <1>1 DEF Conversation, Held
<1>3. \A q \in Requests : Asker(q, s) => ~StillComing(q, s)
  BY <1>2 DEF Asker, Holders, Running, GivenUp
<1> QED
  BY <1>1, <1>2, <1>3, NobodyAsks DEF Silent, Conversation, IInv

LEMMA UnbornIsSilent ==
  ASSUME IInv, NEW s \in Sockets, ~sock["client"][s].born
  PROVE  Silent(s) /\ \A q \in Requests : req[q].socket # s
<1>1. \A q \in Requests : req[q].socket # s
  BY DEF IInv, RequestSound
<1>2. /\ Questions(s) = <<>> /\ Answers(s) = <<>> /\ browse[s] = None /\ owed[s] = <<>>
      /\ sock["server"][s] = NoSocket /\ upload[s].state = "none"
  BY DEF IInv, SocketSound, Opened, NoSocket
<1> QED
  BY <1>1, <1>2 DEF Silent, Holders, Serving, Heeded, Uploading

(* The socket a request is given, and the sockets of its end after that.    *)
Got(s, T) ==
  /\ getASocket.socket = s /\ getASocket.sockets = T
  /\ T[s].pooled /\ T[s].active /\ T[s].born
  /\ \A t \in Sockets \ {s} : T[t] = sock["client"][t]
  /\ sock["client"][s].born =>
       /\ ~sock["client"][s].active /\ sock["client"][s].pooled
       /\ T[s].closing = sock["client"][s].closing

LEMMA GotSocket ==
  ASSUME IInv, IdleSockets \cup Unborn # {}
  PROVE  \E s \in Sockets, T \in AllSockets : Got(s, T)
<1>1. sock["client"] \in AllSockets
  BY TheEnds DEF IInv, Typed, AllSockets
<1>2. CASE IdleSockets # {}
  <2>1. First(IdleSockets) \in IdleSockets
    BY <1>2, LeastSocket DEF IdleSockets
  <2>2. PICK s \in Sockets : s = First(IdleSockets)
    BY <2>1 DEF IdleSockets
  <2>3. sock["client"][s].pooled /\ ~sock["client"][s].active
    BY <2>1, <2>2 DEF IdleSockets
  <2>4. sock["client"][s].born
    BY <2>3, OpenedFirst DEF IInv, SocketSound
  <2>5. getASocket = [socket |-> s, sockets |-> SetActive(sock["client"], s)]
    BY <1>2, <2>2 DEF getASocket
  <2> DEFINE T == SetActive(sock["client"], s)
  <2>6. /\ T \in AllSockets
        /\ T[s].pooled /\ T[s].active /\ T[s].born /\ T[s].closing = sock["client"][s].closing
        /\ \A t \in Sockets \ {s} : T[t] = sock["client"][t]
    <3>1. /\ T \in AllSockets
          /\ T[s] = [pooled |-> sock["client"][s].pooled, active |-> TRUE,
                     listening |-> sock["client"][s].listening,
                     closing |-> sock["client"][s].closing, born |-> sock["client"][s].born]
          /\ \A t \in Sockets \ {s} : T[t] = sock["client"][t]
      BY <1>1, ActiveShape
    <3> HIDE DEF T
    <3> QED
      BY <1>1, <2>3, <2>4, <3>1 DEF AllSockets, PeerMessageSocket
  <2>7. getASocket.socket = s /\ getASocket.sockets = T
    BY <2>5
  <2> HIDE DEF T
  <2> QED
    BY <2>3, <2>6, <2>7 DEF Got
<1>3. CASE IdleSockets = {}
  <2>1. First(Unborn) \in Unborn
    BY <1>3, LeastSocket DEF Unborn
  <2>2. PICK s \in Sockets : s = First(Unborn)
    BY <2>1 DEF Unborn
  <2>3. ~sock["client"][s].born
    BY <2>1, <2>2 DEF Unborn
  <2>4. getASocket = [socket |-> s, sockets |-> [sock["client"] EXCEPT ![s] = NewSocket]]
    BY <1>3, <2>2 DEF getASocket
  <2> DEFINE T == [sock["client"] EXCEPT ![s] = NewSocket]
  <2>5. /\ T \in AllSockets /\ T[s] = NewSocket
        /\ \A t \in Sockets \ {s} : T[t] = sock["client"][t]
    BY <1>1, NewSocketIs DEF AllSockets
  <2>6. getASocket.socket = s /\ getASocket.sockets = T
    BY <2>4
  <2> HIDE DEF T
  <2> QED
    BY <2>3, <2>5, <2>6, NewSocketIs DEF Got
<1> QED
  BY <1>2, <1>3

LEMMA StartKeeps ==
  ASSUME IInv, NEW r \in Requests, Start(r) PROVE IInv'
<1>1. req[r].state = "new" /\ req[r].socket = 0 /\ heard[r] = {} /\ 0 \notin Sockets
  BY DEF Start, IInv, RequestSound, Sockets
<1>2. PICK s \in Sockets, T \in AllSockets : Got(s, T)
  BY GotSocket DEF Start
<1>3. /\ sock' = [sock EXCEPT !["client"] = T]
      /\ req' = [req EXCEPT ![r] = [req[r] EXCEPT !.state = "asked", !.socket = s,
                   !.left = IF req[r].kind = "hashes" THEN NbHashes ELSE 0]]
      /\ inbox' = inbox \/ inbox' = [inbox EXCEPT !["server"][s] = Append(@, Request(r))]
      /\ \/ /\ \E q \in Requests : req[q].socket = s /\ GivenUp(q) /\ StillComing(q, s)
            /\ mixed' = mixed \cup {s}
         \/ /\ ~ \E q \in Requests : req[q].socket = s /\ GivenUp(q) /\ StillComing(q, s)
            /\ mixed' = mixed
  BY <1>2 DEF Start, Got
<1>4. /\ sock' \in [Ends -> AllSockets] /\ sock'["client"] = T
      /\ sock'["server"] = sock["server"]
  BY <1>3, EndReplaced, TheEnds DEF IInv, Typed, AllSockets
<1>5. PICK y \in Result :
        /\ req' = [req EXCEPT ![r] = y]
        /\ y.socket = s /\ y.kind = req[r].kind /\ y.state = "asked"
        /\ y.kind = "hashes" => y.left = NbHashes
  <2> DEFINE n == IF req[r].kind = "hashes" THEN NbHashes ELSE 0
             y == [req[r] EXCEPT !.state = "asked", !.socket = s, !.left = n]
  <2>1. req[r] \in Result /\ n \in Int
    BY PoolAssumption DEF IInv, Typed
  <2> HIDE DEF n
  <2>2. y \in Result /\ y.socket = s /\ y.kind = req[r].kind /\ y.state = "asked" /\ y.left = n
    BY <2>1 DEF Result, States
  <2>3. y.kind = "hashes" => y.left = NbHashes
    BY <2>2 DEF n
  <2> QED
    BY <1>3, <2>2, <2>3 DEF n
<1>6. /\ inbox' \in [Ends -> [Sockets -> Seq(Msg)]]
      /\ Answers(s)' = Answers(s)
      /\ Questions(s)' = Questions(s) \/ Questions(s)' = Append(Questions(s), Request(r))
      /\ \A d \in Ends, t \in Sockets : d # "server" \/ t # s => inbox'[d][t] = inbox[d][t]
  <2>1. CASE inbox' = inbox
    BY <2>1 DEF IInv, Typed, Answers, Questions
  <2>2. CASE inbox' = [inbox EXCEPT !["server"][s] = Append(@, Request(r))]
    <3>1. Questions(s) \in Seq(Msg)
      BY TheEnds DEF IInv, Typed, Questions
    <3>2. Append(Questions(s), Request(r)) \in Seq(Msg)
      BY <3>1, RequestTyped, AppendProperties DEF IInv
    <3>3. inbox' = [inbox EXCEPT !["server"][s] = Append(Questions(s), Request(r))]
      BY <2>2 DEF Questions
    <3> QED
      BY <3>2, <3>3, EndUpdated, TheEnds DEF IInv, Typed, Answers, Questions
  <2> QED
    BY <1>3, <2>1, <2>2
<1>7. UNCHANGED <<cut, nbHash, service, heard>>
  BY DEF Start
<1>8. Typed'
  BY <1>3, <1>4, <1>5, <1>6, <1>7 DEF IInv, Typed, AllSockets, service
<1>9. ASSUME NEW q \in Requests
      PROVE  RequestSound(q)'
  <2>1. \A t \in Sockets : sock["client"][t].born => sock'["client"][t].born
    BY <1>2, <1>4 DEF Got
  <2>2. CASE q = r
    BY <1>1, <1>2, <1>4, <1>5, <2>2 DEF RequestSound, IInv, Typed, Got
  <2>3. CASE q # r
    BY <1>5, <1>7, <2>1, <2>3 DEF RequestSound, IInv, Typed
  <2> QED
    BY <2>2, <2>3
<1>10. ASSUME NEW t \in Sockets \ {s}
       PROVE  SocketSound(t)'
  <2>1. SameRequests(t)
    BY <1>1, <1>5, <1>7, <1>10 DEF SameRequests, IInv, Typed
  <2>2. \A e \in Ends : sock'[e][t] = sock[e][t]
    BY <1>2, <1>4, <1>10, TheEnds DEF Got
  <2>3. \A e \in Ends : inbox'[e][t] = inbox[e][t]
    BY <1>6, <1>10
  <2>4. Aside(t)
    BY <1>3, <1>7, <1>10, <2>1, <2>2, <2>3 DEF Aside, service
  <2> QED
    BY <2>4, AsideKeeps DEF IInv
<1>11. Opened(s)'
  BY <1>2, <1>4, <1>7 DEF Opened, IInv, SocketSound, service, Got
<1>12. ASSUME Reliable(s)'
       PROVE  Conversation(s)'
  <2>1. Silent(s)
    <3>1. CASE ~sock["client"][s].born
      BY <3>1, UnbornIsSilent
    <3>2. CASE sock["client"][s].born
      <4>1. sock["client"][s].pooled /\ ~sock["client"][s].active /\ ~sock["client"][s].closing
        BY <1>2, <1>4, <1>12, <3>2 DEF Reliable, Got
      <4>2. s \notin mixed'
        BY <1>12 DEF Reliable
      <4>3. /\ s \notin mixed
            /\ \A q \in Requests : req[q].socket = s /\ GivenUp(q) => ~StillComing(q, s)
        BY <1>3, <4>2
      <4> QED
        BY <4>1, <4>3, IdleIsSilent DEF Reliable
    <3> QED
      BY <3>1, <3>2
  <2>2. ASSUME NEW q \in Requests
        PROVE  /\ q \in Holders(s)' <=> q = r
               /\ req'[q].socket = s => q = r \/ req[q].socket = s
    BY <1>5, <2>1 DEF Silent, Holders, Running, IInv, Typed
  <2>3. req'[r] = y
    BY <1>5 DEF IInv, Typed
  <2>4. Held(s)'
    BY <1>2, <1>4, <2>2 DEF Held, Holders, Got
  <2>5. browse'[s] = None /\ owed'[s] = <<>> /\ upload'[s] = upload[s]
    BY <1>7, <2>1 DEF Silent, service
  <2>6. Answers(s)' = <<>> \/ Junk(s)'
    BY <1>6, <2>1 DEF Silent, Junk
  <2>7. Asked(s)'
    <3>1. SUFFICES ASSUME Questions(s)' # <<>> PROVE Asked(s)'
      BY DEF Asked
    <3>2. Questions(s)' = <<Request(r)>>
      BY <1>6, <2>1, <3>1 DEF Silent
    <3>3. Asker(r, s)'
      BY <1>5, <2>2, <2>3 DEF Asker, Holders
    <3>4. Request(r)' = Request(r)
      BY <1>5, <2>3 DEF Request
    <3>5. Len(Questions(s)') = 1 /\ Questions(s)'[1] = Request(r)'
      BY <3>2, <3>4
    <3> QED
      BY <1>5, <2>3, <2>5, <2>6, <3>3, <3>5 DEF Asked
  <2>8. Browsing(s)' /\ Hashing(s)'
    BY <2>5 DEF Browsing, Hashing
  <2>9. Streaming(s)'
    BY <1>5, <2>2, <2>3 DEF Streaming, Holders
  <2>10. Coming(s)'
    BY <2>6, <2>9
    DEF Coming, EntriesComing, HashesComing, HashComing, ChunkComing, NoQuestionComing, Junk
  <2>11. Serving(s)'
    BY <1>4, <1>7, <2>1 DEF Serving, Silent, Uploading, service
  <2>12. Heeded(s)'
    BY <1>1, <1>7, <2>1, <2>2 DEF Heeded, Silent
  <2> QED
    BY <2>4, <2>7, <2>8, <2>10, <2>11, <2>12 DEF Conversation
<1> QED
  BY <1>8, <1>9, <1>10, <1>11, <1>12 DEF IInv, SocketSound

LEMMA SilentNext ==
  ASSUME NEW s \in Sockets, Silent(s)'
  PROVE  Conversation(s)'
<1>1. Held(s)' /\ Asked(s)' /\ Browsing(s)' /\ Hashing(s)' /\ Serving(s)' /\ Heeded(s)'
  BY DEF Silent, Held, Asked, Browsing, Hashing
<1>2. Streaming(s)'
  BY DEF Silent, Streaming
<1>3. Coming(s)'
  BY <1>2 DEF Silent, Coming, EntriesComing, HashesComing, HashComing, ChunkComing,
              NoQuestionComing, Junk
<1> QED
  BY <1>1, <1>3 DEF Conversation

LEMMA ShapedTransitive ==
  ASSUME NEW S, NEW T, NEW U, NEW s \in Sockets, Shaped(S, T, s), Shaped(T, U, s)
  PROVE  Shaped(S, U, s)
BY DEF Shaped, Shut

(* A result that is dropped before its start leaves its socket as it was.  *)
LEMMA RefuseKeeps ==
  ASSUME IInv, NEW r \in Requests, Refuse(r) PROVE IInv'
<1>1. PICK s \in Sockets, T \in AllSockets : Got(s, T)
  BY GotSocket DEF Refuse
<1>2. PICK valid \in BOOLEAN :
        sock' = [sock EXCEPT !["client"] = Finished(T, s, FALSE, valid)]
  BY <1>1 DEF Refuse, Got, Valid
<1> DEFINE U == Finished(T, s, FALSE, valid)
<1>3. Shaped(T, U, s) /\ ~U[s].active /\ (T[s].closing /\ T[s].pooled => U[s].closing)
  BY FinishedShape
<1>4. sock' = [sock EXCEPT !["client"] = U]
  BY <1>2
<1> HIDE DEF U
<1>5. /\ sock' \in [Ends -> AllSockets] /\ sock'["client"] = U
      /\ sock'["server"] = sock["server"]
  BY <1>3, <1>4, EndReplaced, TheEnds DEF IInv, Typed, AllSockets, Shaped
<1>6. /\ inbox' = inbox /\ cut' = cut /\ req' = req /\ nbHash' = nbHash
      /\ browse' = browse /\ owed' = owed /\ upload' = upload /\ known' = known
      /\ heard' = heard /\ mixed' = mixed
  BY DEF Refuse, service, history
<1>7. Typed'
  BY <1>5, <1>6 DEF IInv, Typed, AllSockets
<1>8. /\ U[s].pooled /\ U[s].born
      /\ \A t \in Sockets \ {s} : U[t] = sock["client"][t] \/ Shut(sock["client"][t], U[t])
  BY <1>1, <1>3 DEF Got, Shaped
<1>9. ASSUME NEW q \in Requests
      PROVE  RequestSound(q)'
  <2>1. SameOpening
    BY <1>5, <1>6, <1>8 DEF SameOpening, Shut
  <2> QED
    BY <2>1, OpeningKeeps DEF IInv
<1>10. ASSUME NEW t \in Sockets \ {s}
       PROVE  SocketSound(t)'
  <2>1. Aside(t)
    BY <1>5, <1>6, <1>8, TheEnds DEF Aside, SameRequests
  <2> QED
    BY <2>1, AsideKeeps DEF IInv
<1>11. Opened(s)'
  BY <1>5, <1>6, <1>8 DEF Opened, IInv, SocketSound
<1>12. ASSUME Reliable(s)'
       PROVE  Conversation(s)'
  <2>1. CASE sock["client"][s].born
    <3>1. /\ sock["client"][s].pooled /\ ~sock["client"][s].active
          /\ T[s].closing = sock["client"][s].closing /\ T[s].pooled
      BY <1>1, <2>1 DEF Got
    <3>2. Reliable(s)
      BY <1>3, <1>5, <1>6, <1>12, <3>1 DEF Reliable
    <3>3. Conversation(s)
      BY <3>2 DEF IInv, SocketSound
    <3>4. Calm(s)
      <4>1. sock'["client"][s].active = sock["client"][s].active
        BY <1>3, <1>5, <1>7, <3>1, TheEnds DEF IInv, Typed, PeerMessageSocket
      <4>2. Lost(s) => Lost(s)'
        BY <1>5, <1>6, LostStays
      <4> QED
        BY <1>6, <4>1, <4>2 DEF Calm, Questions, Answers, Uploading, SameRequests
    <3>5. Serving(s)'
      BY <1>5, <1>6, <3>3 DEF Conversation, Serving, Uploading
    <3> QED
      BY <3>3, <3>4, <3>5, CalmKeeps DEF IInv
  <2>2. CASE ~sock["client"][s].born
    <3>1. Silent(s)
      BY <2>2, UnbornIsSilent
    <3>2. Silent(s)'
      BY <1>5, <1>6, <3>1
      DEF Silent, Questions, Answers, Junk, Holders, Running, Serving, Uploading, Heeded
    <3> QED
      BY <3>2, SilentNext
  <2> QED
    BY <2>1, <2>2
<1> QED
  BY <1>7, <1>9, <1>10, <1>11, <1>12 DEF IInv, SocketSound

(* A message is taken by the request that waits, and by no other: if its   *)
(* request was given up, by nobody.                                        *)
LEMMA OneTaker ==
  ASSUME Typed, NEW s \in Sockets, Conversation(s), Answers(s) # <<>>,
         Answers(s)[1].type # "STREAM"
  PROVE  \E r \in Requests :
           /\ r = Answers(s)[1].req /\ Asker(r, s)
           /\ Taking(s, Answers(s)[1].type) = IF req[r].state = "asked" THEN {r} ELSE {}
           /\ Questions(s) = <<>> /\ browse[s] = None
<1> DEFINE m == Answers(s)[1]
<1>1. m \in Msg
  <2>1. Answers(s) \in Seq(Msg)
    BY TheEnds DEF Typed, Answers
  <2> QED
    BY <2>1, LenProperties
<1>2. PICK r \in Requests : r = m.req
  BY <1>1 DEF Msg
<1>3. m.type \in {"ENTRIES_RESULT", "HASHES_RESULT", "HASH_RESULT", "CHUNKS_RESULT"}
  BY <1>1 DEF Msg, MessageTypes, Conversation, Coming, NoQuestionComing
<1>4. /\ m.type = "ENTRIES_RESULT" => AskerOf(r, s, "entries")
      /\ m.type \in {"HASHES_RESULT", "HASH_RESULT"} => AskerOf(r, s, "hashes")
      /\ m.type = "CHUNKS_RESULT" => AskerOf(r, s, "chunk")
  BY <1>2 DEF Conversation, Coming, EntriesComing, HashesComing, HashComing, ChunkComing
<1>5. Asker(r, s) /\ (req[r].state = "asked" => r \in Holders(s))
  BY <1>3, <1>4 DEF AskerOf, Asker, Holders, Running
<1>6. Taking(s, m.type) = IF req[r].state = "asked" THEN {r} ELSE {}
  <2>1. Taking(s, m.type) \subseteq {r}
    BY <1>5 DEF Asker, Taking
  <2>2. r \in Taking(s, m.type) <=> req[r].state = "asked"
    BY <1>3, <1>4, <1>5 DEF AskerOf, Taking
  <2> QED
    BY <2>1, <2>2
<1>7. Questions(s) = <<>> /\ browse[s] = None
  BY DEF Conversation, Asked, Browsing, Junk
<1> QED
  BY <1>2, <1>5, <1>6, <1>7

LEMMA AfterTyped ==
  ASSUME Typed, NEW m \in Msg, NEW s \in Sockets, NEW r \in Taking(s, m.type)
  PROVE  /\ AfterMessage(r, m) \in Result
         /\ AfterMessage(r, m).socket = req[r].socket
         /\ AfterMessage(r, m).kind = req[r].kind
         /\ AfterMessage(r, m).state \in {"asked", "stream", "ended"}
<1>1. r \in Requests /\ req[r] \in Result /\ req[r].state = "asked"
  BY DEF Taking, Holders, Typed
<1>2. m.type \in {"ENTRIES_RESULT", "HASHES_RESULT", "HASH_RESULT", "CHUNKS_RESULT"}
  BY DEF Taking
<1> DEFINE x == req[r]
           left == x.left - 1
           state == IF x.left = 1 THEN "ended" ELSE x.state
<1>3. /\ x \in Result /\ x.state = "asked" /\ left \in Int /\ m.n \in Int
      /\ state \in {"asked", "ended"}
  BY <1>1 DEF Result, Msg
<1>4. AfterMessage(r, m) \in
        {x, [x EXCEPT !.state = "ended"], [x EXCEPT !.left = left, !.state = state],
         [x EXCEPT !.state = "stream", !.left = m.n]}
  BY <1>2 DEF AfterMessage
<1> HIDE DEF x, left, state
<1>5. \A y \in {x, [x EXCEPT !.state = "ended"], [x EXCEPT !.left = left, !.state = state],
                [x EXCEPT !.state = "stream", !.left = m.n]} :
        y \in Result /\ y.socket = x.socket /\ y.kind = x.kind
        /\ y.state \in {"asked", "stream", "ended"}
  BY <1>3 DEF Result, States
<1> QED
  BY <1>4, <1>5 DEF x

(* What is not a message closes the socket.                                *)
LEMMA ReadJunkKeeps ==
  ASSUME IInv, NEW s \in Sockets, ReadAnswer(s), sock["client"][s].born,
         Head(inbox["client"][s]).type = "STREAM"
  PROVE  IInv'
<1> DEFINE T == Closed(sock["client"], s)
<1>1. /\ sock' = [sock EXCEPT !["client"] = T] /\ cut' = cut \cup {s}
      /\ req' = req /\ nbHash' = nbHash /\ heard' = heard /\ mixed' = mixed
      /\ UNCHANGED service
      /\ inbox' = [inbox EXCEPT !["client"][s] = Tail(@)] /\ inbox["client"][s] # <<>>
  BY DEF ReadAnswer
<1>2. Shaped(sock["client"], T, s) /\ T[s].closing = sock["client"][s].pooled
  <2>1. sock["client"] \in AllSockets
    BY TheEnds DEF IInv, Typed, AllSockets
  <2> QED
    BY <2>1, ClosedShape
<1> HIDE DEF T
<1>3. /\ sock' \in [Ends -> AllSockets] /\ sock'["client"] = T
      /\ sock'["server"] = sock["server"]
  BY <1>1, <1>2, EndReplaced, TheEnds DEF IInv, Typed, AllSockets, Shaped
<1>4. /\ inbox' \in [Ends -> [Sockets -> Seq(Msg)]]
      /\ \A d \in Ends, t \in Sockets : d # "client" \/ t # s => inbox'[d][t] = inbox[d][t]
  <2>1. inbox["client"][s] \in Seq(Msg)
    BY TheEnds DEF IInv, Typed
  <2>2. Tail(inbox["client"][s]) \in Seq(Msg)
    BY <1>1, <2>1, HeadTailProperties
  <2> QED
    BY <1>1, <2>2, EndUpdated, TheEnds DEF IInv, Typed
<1>5. Typed'
  BY <1>1, <1>3, <1>4 DEF IInv, Typed, AllSockets, service
<1>6. ClientOnly(s)
  BY <1>1, <1>2, <1>3, <1>4 DEF ClientOnly, SameData, service
<1>7. ~Reliable(s)'
  BY <1>2, <1>3 DEF Reliable, Shaped
<1> QED
  BY <1>5, <1>6, <1>7, ClientOnlyKeeps

(* What a message makes of the socket that reads it.                       *)
LEMMA ReadSocket ==
  ASSUME IInv, NEW s \in Sockets, NEW last \in BOOLEAN, NEW over \in BOOLEAN,
         NEW nosize \in BOOLEAN, NEW streams \in BOOLEAN, NEW valid \in BOOLEAN
  PROVE  LET read == SetActive(sock["client"], s)
             noted == IF last THEN Finished(read, s, FALSE, valid) ELSE read
             done == IF over THEN Finished(noted, s, nosize, valid) ELSE noted
             T == IF streams THEN [done EXCEPT ![s].listening = FALSE] ELSE done
         IN  /\ Shaped(sock["client"], T, s)
             /\ sock["client"][s].pooled /\ sock["client"][s].closing => T[s].closing
             /\ ~last /\ ~over => T[s].active
             /\ ~last /\ over /\ nosize /\ sock["client"][s].pooled => T[s].closing
<1> DEFINE S == sock["client"]
           read == SetActive(S, s)
           noted == IF last THEN Finished(read, s, FALSE, valid) ELSE read
           done == IF over THEN Finished(noted, s, nosize, valid) ELSE noted
           T == IF streams THEN [done EXCEPT ![s].listening = FALSE] ELSE done
<1>1. S \in AllSockets
  BY TheEnds DEF IInv, Typed, AllSockets
<1>2. /\ S[s].pooled \in BOOLEAN /\ S[s].closing \in BOOLEAN /\ S[s].born \in BOOLEAN
  BY <1>1 DEF AllSockets, PeerMessageSocket
<1> HIDE DEF S
<1>3. /\ read \in AllSockets /\ Shaped(S, read, s)
      /\ read[s].active /\ read[s].closing = S[s].closing /\ read[s].pooled = S[s].pooled
  <2>1. /\ read \in AllSockets
        /\ read[s] = [pooled |-> S[s].pooled, active |-> TRUE,
                      listening |-> S[s].listening, closing |-> S[s].closing, born |-> S[s].born]
        /\ \A t \in Sockets \ {s} : read[t] = S[t]
    BY <1>1, ActiveShape
  <2> HIDE DEF read
  <2> QED
    BY <1>2, <2>1 DEF Shaped
<1> HIDE DEF read
<1>4. /\ noted \in AllSockets /\ Shaped(S, noted, s)
      /\ S[s].pooled /\ S[s].closing => noted[s].closing
      /\ ~last => noted = read
  <2>1. CASE last
    <3> DEFINE N == Finished(read, s, FALSE, valid)
    <3>1. /\ Shaped(read, N, s)
          /\ read[s].closing /\ read[s].pooled => N[s].closing
      BY <1>3, FinishedShape
    <3> HIDE DEF N
    <3>2. noted = N
      BY <2>1 DEF N
    <3>3. Shaped(S, N, s)
      BY <1>3, <3>1, ShapedTransitive
    <3> QED
      BY <1>3, <2>1, <3>1, <3>2, <3>3 DEF Shaped
  <2>2. CASE ~last
    BY <1>3, <2>2
  <2> QED
    BY <2>1, <2>2
<1> HIDE DEF noted
<1>5. /\ done \in AllSockets /\ Shaped(S, done, s)
      /\ S[s].pooled /\ S[s].closing => done[s].closing
      /\ ~last /\ ~over => done = read
      /\ ~last /\ over /\ nosize /\ S[s].pooled => done[s].closing
  <2>1. CASE over
    <3> DEFINE N == Finished(noted, s, nosize, valid)
    <3>1. /\ Shaped(noted, N, s)
          /\ noted[s].closing /\ noted[s].pooled => N[s].closing
          /\ noted[s].active /\ (nosize \/ ~valid) => N[s].closing = noted[s].pooled
      BY <1>4, FinishedShape
    <3> HIDE DEF N
    <3>2. done = N
      BY <2>1 DEF N
    <3>3. Shaped(S, N, s)
      BY <1>4, <3>1, ShapedTransitive
    <3>4. ~last /\ nosize /\ S[s].pooled => N[s].closing
      BY <1>3, <1>4, <3>1
    <3> QED
      BY <1>4, <2>1, <3>1, <3>2, <3>3, <3>4 DEF Shaped
  <2>2. CASE ~over
    BY <1>4, <2>2
  <2> QED
    BY <2>1, <2>2
<1> HIDE DEF done
<1>6. /\ T \in AllSockets
      /\ T[s].pooled = done[s].pooled /\ T[s].born = done[s].born
      /\ T[s].closing = done[s].closing /\ T[s].active = done[s].active
      /\ \A t \in Sockets \ {s} : T[t] = done[t]
  <2>1. CASE streams
    <3> DEFINE N == [done EXCEPT ![s].listening = FALSE]
    <3>1. N \in AllSockets /\ \A t \in Sockets \ {s} : N[t] = done[t]
      BY <1>5 DEF AllSockets, PeerMessageSocket
    <3>2. /\ N[s].pooled = done[s].pooled /\ N[s].born = done[s].born
          /\ N[s].closing = done[s].closing /\ N[s].active = done[s].active
      BY <1>5 DEF AllSockets, PeerMessageSocket
    <3> QED
      BY <2>1, <3>1, <3>2
  <2>2. CASE ~streams
    BY <1>5, <2>2
  <2> QED
    BY <2>1, <2>2
<1> HIDE DEF T
<1>7. Shaped(S, T, s)
  BY <1>5, <1>6 DEF Shaped
<1>8. /\ S[s].pooled /\ S[s].closing => T[s].closing
      /\ ~last /\ ~over => T[s].active
      /\ ~last /\ over /\ nosize /\ S[s].pooled => T[s].closing
  BY <1>3, <1>5, <1>6
<1> QED
  BY <1>7, <1>8 DEF T, done, noted, read, S

(* What is left of the hashes that come one by one.                        *)
LEMMA HashesTalk ==
  ASSUME Typed, NEW s \in Sockets, NEW r \in Requests, Conversation(s), ~Uploading(s),
         Owes(r, s), Heeded(s)', Serving(s)', Asked(s)', Browsing(s)',
         \A q \in Requests : q \in Holders(s)' => q = r /\ sock'["client"][s].active,
         upload'[s] = upload[s],
         owed'[s] = owed[s], nbHash'["server"] = nbHash["server"],
         AskerOf(r, s, "hashes")', Counted(r, s)',
         nbHash'["client"][s] \in Int,
         Answers(s)' \in Seq(Msg),
         Len(Answers(s)') + Len(owed[s]) <= nbHash'["client"][s],
         \A k \in 1 .. Len(Answers(s)') :
           Answers(s)'[k].type = "HASH_RESULT" /\ Answers(s)'[k].req = r
  PROVE  Conversation(s)'
<1>1. Held(s)'
  BY DEF Held, Holders
<1>2. Streaming(s)'
  BY DEF Streaming, AskerOf, Asker, Holders
<1>3. owed[s] \in Seq(Requests) /\ Len(owed[s]) \in Nat /\ Len(Answers(s)') \in Nat
  BY LenProperties DEF Typed
<1>4. Owes(r, s)'
  BY DEF Owes
<1>5. Hashing(s)'
  <2>1. SUFFICES ASSUME owed'[s] # <<>> PROVE Hashing(s)'
    BY DEF Hashing
  <2>2. nbHash'["server"][s] = Len(owed'[s]) /\ ~Uploading(s)'
    BY <2>1 DEF Conversation, Hashing, Uploading
  <2>3. Len(owed'[s]) <= nbHash'["client"][s]
    BY <1>3
  <2> QED
    BY <1>4, <2>2, <2>3 DEF Hashing
<1>6. Answers(s)' # <<>> => Answers(s)'[1].type = "HASH_RESULT" /\ Answers(s)'[1].req = r
  BY LenProperties, EmptySeq
<1>7. HashComing(s)'
  BY <1>4, <1>6 DEF HashComing, Uploading
<1>8. Coming(s)'
  BY <1>2, <1>6, <1>7
  DEF Coming, EntriesComing, HashesComing, ChunkComing, NoQuestionComing
<1> QED
  BY <1>1, <1>5, <1>8 DEF Conversation

LEMMA ReadMessageKeeps ==
  ASSUME IInv, NEW s \in Sockets, ReadAnswer(s), sock["client"][s].born,
         Head(inbox["client"][s]).type # "STREAM"
  PROVE  IInv'
<1> DEFINE m == Head(Answers(s))
           takers == Taking(s, m.type)
           after == [r \in takers |-> AfterMessage(r, m)]
           read == SetActive(sock["client"], s)
           last == LastOf(s, m)
           ended == {r \in takers : after[r].state = "ended"}
           nosize == m.type = "CHUNKS_RESULT" /\ m.n = 0
           streams == \E r \in takers : after[r].state = "stream"
           noted(valid) == IF last THEN Finished(read, s, FALSE, valid) ELSE read
           done(valid) == IF ended # {} THEN Finished(noted(valid), s, nosize, valid)
                          ELSE noted(valid)
<1>1. /\ inbox' = [inbox EXCEPT !["client"][s] = Tail(@)]
      /\ UNCHANGED service /\ cut' = cut /\ mixed' = mixed /\ Answers(s) # <<>>
      /\ req' = [r \in Requests |-> IF r \in takers THEN after[r] ELSE req[r]]
      /\ nbHash' = [nbHash EXCEPT !["client"][s] =
                      IF m.type = "HASHES_RESULT" THEN m.n
                      ELSE IF m.type = "HASH_RESULT" THEN @ - 1 ELSE @]
      /\ heard' = [r \in Requests |-> IF r \in takers THEN heard[r] \cup {m.req} ELSE heard[r]]
      /\ \E valid \in Valid(s) :
           sock' = [sock EXCEPT !["client"] =
                      IF streams THEN [done(valid) EXCEPT ![s].listening = FALSE]
                      ELSE done(valid)]
  BY DEF ReadAnswer, Answers
<1>2. PICK valid \in BOOLEAN :
        sock' = [sock EXCEPT !["client"] =
                   IF streams THEN [done(valid) EXCEPT ![s].listening = FALSE]
                   ELSE done(valid)]
  BY <1>1 DEF Valid
<1> DEFINE T == IF streams THEN [done(valid) EXCEPT ![s].listening = FALSE] ELSE done(valid)
<1>3. /\ Shaped(sock["client"], T, s)
      /\ sock["client"][s].pooled /\ sock["client"][s].closing => T[s].closing
      /\ ~last /\ ended = {} => T[s].active
      /\ ~last /\ ended # {} /\ nosize /\ sock["client"][s].pooled => T[s].closing
  <2> DEFINE over == ended # {}
  <2>1. last \in BOOLEAN /\ over \in BOOLEAN /\ nosize \in BOOLEAN /\ streams \in BOOLEAN
    BY DEF LastOf
  <2> HIDE DEF last, over, nosize, streams, read
  <2>2. LET no == IF last THEN Finished(read, s, FALSE, valid) ELSE read
            do == IF over THEN Finished(no, s, nosize, valid) ELSE no
            U == IF streams THEN [do EXCEPT ![s].listening = FALSE] ELSE do
        IN  /\ Shaped(sock["client"], U, s)
            /\ sock["client"][s].pooled /\ sock["client"][s].closing => U[s].closing
            /\ ~last /\ ~over => U[s].active
            /\ ~last /\ over /\ nosize /\ sock["client"][s].pooled => U[s].closing
    BY <2>1, ReadSocket, Zenon DEF read
  <2> QED
    BY <2>2, Zenon DEF over
<1> HIDE DEF T, done, noted, read
<1>4. /\ sock' \in [Ends -> AllSockets] /\ sock'["client"] = T
      /\ sock'["server"] = sock["server"]
  <2>1. sock' = [sock EXCEPT !["client"] = T]
    BY <1>2 DEF T
  <2> QED
    BY <1>3, <2>1, EndReplaced, TheEnds DEF IInv, Typed, AllSockets, Shaped
<1>5. /\ m \in Msg /\ m = Answers(s)[1] /\ Answers(s) \in Seq(Msg)
      /\ Tail(Answers(s)) \in Seq(Msg)
      /\ Len(Tail(Answers(s))) = Len(Answers(s)) - 1
      /\ \A k \in 1 .. Len(Tail(Answers(s))) :
           k + 1 \in 1 .. Len(Answers(s)) /\ Tail(Answers(s))[k] = Answers(s)[k + 1]
  <2>1. Answers(s) \in Seq(Msg)
    BY TheEnds DEF IInv, Typed, Answers
  <2> QED
    BY <1>1, <2>1, HeadTailProperties, LenProperties
<1>6. /\ inbox' \in [Ends -> [Sockets -> Seq(Msg)]]
      /\ inbox'["client"][s] = Tail(Answers(s))
      /\ \A d \in Ends, t \in Sockets : d # "client" \/ t # s => inbox'[d][t] = inbox[d][t]
  <2>1. inbox' = [inbox EXCEPT !["client"][s] = Tail(Answers(s))]
    BY <1>1 DEF Answers
  <2> QED
    BY <1>5, <2>1, EndUpdated, TheEnds DEF IInv, Typed
<1> DEFINE n == IF m.type = "HASHES_RESULT" THEN m.n
                ELSE IF m.type = "HASH_RESULT" THEN nbHash["client"][s] - 1
                ELSE nbHash["client"][s]
<1>7. /\ nbHash' \in [Ends -> [Sockets -> Int]]
      /\ nbHash'["client"][s] = n
      /\ \A d \in Ends, t \in Sockets : d # "client" \/ t # s => nbHash'[d][t] = nbHash[d][t]
  <2>1. n \in Int
    BY <1>5, TheEnds DEF IInv, Typed, Msg
  <2>2. nbHash' = [nbHash EXCEPT !["client"][s] = n]
    BY <1>1
  <2> HIDE DEF n
  <2> QED
    BY <2>1, <2>2, EndUpdated, TheEnds DEF IInv, Typed
<1>8. ASSUME NEW r \in Requests
      PROVE  /\ req'[r] \in Result /\ req'[r].socket = req[r].socket
             /\ r \notin takers => req'[r] = req[r] /\ heard'[r] = heard[r]
             /\ r \in takers => /\ req'[r] = AfterMessage(r, m)
                                /\ heard'[r] = heard[r] \cup {m.req}
                                /\ req[r].state = "asked" /\ req[r].socket = s
                                /\ req'[r].state \in {"asked", "stream", "ended"}
  <2>1. CASE r \in takers
    <3>1. req'[r] = AfterMessage(r, m) /\ heard'[r] = heard[r] \cup {m.req}
      BY <1>1, <2>1
    <3>2. req[r].state = "asked" /\ req[r].socket = s
      BY <2>1 DEF Taking, Holders
    <3> QED
      BY <1>5, <2>1, <3>1, <3>2, AfterTyped DEF IInv
  <2>2. CASE r \notin takers
    BY <1>1, <2>2 DEF IInv, Typed
  <2> QED
    BY <2>1, <2>2
<1>9. Typed'
  <2>1. req' \in [Requests -> Result]
    BY <1>1, <1>8
  <2>2. heard' \in [Requests -> SUBSET Requests]
    BY <1>1, <1>5 DEF IInv, Typed, Msg
  <2> QED
    BY <1>1, <1>4, <1>6, <1>7, <2>1, <2>2 DEF IInv, Typed, AllSockets, service
<1>10. ClientOnly(s)
  <2>1. \A t \in Sockets \ {s} : SameData(t)
    BY <1>1, <1>6, <1>7 DEF SameData, service
  <2> QED
    BY <1>1, <1>3, <1>4, <1>8, <2>1 DEF ClientOnly, service
<1>11. ASSUME Reliable(s)'
       PROVE  Conversation(s)'
  <2>1. T[s].pooled /\ ~T[s].closing
    BY <1>4, <1>11 DEF Reliable
  <2>2. Reliable(s)
    BY <1>1, <1>3, <1>11, <2>1 DEF Reliable, Shaped
  <2>3. Conversation(s)
    BY <2>2 DEF IInv, SocketSound
  <2>4. PICK r \in Requests :
          /\ r = m.req /\ Asker(r, s)
          /\ takers = IF req[r].state = "asked" THEN {r} ELSE {}
          /\ Questions(s) = <<>> /\ browse[s] = None
    BY <1>1, <1>5, <2>3, OneTaker DEF IInv, Answers
  <2>5. /\ \A q \in Requests : q # r => req'[q] = req[q] /\ heard'[q] = heard[q]
        /\ req'[r].socket = s /\ req[r] \in Result /\ heard'[r] \subseteq heard[r] \cup {r}
        /\ req[r].state = "asked" =>
             req'[r] = AfterMessage(r, m) /\ ended = {q \in {r} : req'[q].state = "ended"}
        /\ req[r].state # "asked" =>
             req'[r] = req[r] /\ req'[r].state \in {"timedout", "dropped"} /\ ended = {}
    <3>1. CASE req[r].state = "asked"
      <4>1. /\ req'[r] = AfterMessage(r, m) /\ heard'[r] = heard[r] \cup {r}
            /\ req'[r].socket = s /\ req[r] \in Result
        BY <1>8, <2>4, <3>1 DEF IInv, Typed, Asker
      <4>2. \A q \in Requests : q # r => req'[q] = req[q] /\ heard'[q] = heard[q]
        BY <1>8, <2>4, <3>1
      <4>3. takers = {r} /\ after[r] = AfterMessage(r, m)
        BY <2>4, <3>1
      <4>4. ended = {q \in {r} : req'[q].state = "ended"}
        BY <4>1, <4>3
      <4> QED
        BY <3>1, <4>1, <4>2, <4>4
    <3>2. CASE req[r].state # "asked"
      BY <1>8, <2>4, <3>2 DEF IInv, Typed, Asker
    <3> QED
      BY <3>1, <3>2
  <2>6. \A q \in Requests : q \in Holders(s)' => q = r
    BY <2>4, <2>5 DEF Holders, Running, Asker
  <2>7. /\ Answers(s)' = Tail(Answers(s)) /\ Questions(s)' = <<>>
        /\ browse'[s] = None /\ owed'[s] = owed[s] /\ upload'[s] = upload[s]
        /\ sock'["server"] = sock["server"] /\ cut' = cut
    BY <1>1, <1>4, <1>6, <2>4, TheEnds DEF Answers, Questions, service
  <2>8. Heeded(s)'
    BY <1>8, <2>3, <2>5 DEF Heeded, Conversation
  <2>9. Serving(s)'
    BY <2>3, <2>7 DEF Serving, Conversation, Uploading
  <2>10. Asked(s)' /\ Browsing(s)'
    BY <2>7 DEF Asked, Browsing
  <2>11. ASSUME req'[r].state \in {"ended", "timedout", "dropped"}, owed[s] = <<>>,
                Tail(Answers(s)) = <<>> \/ Tail(Answers(s))[1].type = "STREAM"
         PROVE  Conversation(s)'
    <3>1. Holders(s)' = {}
      BY <2>6, <2>11 DEF Holders, Running
    <3>2. Silent(s)'
      BY <2>7, <2>8, <2>9, <2>11, <3>1 DEF Silent, Junk
    <3> QED
      BY <3>2, SilentNext
  <2>12. ASSUME req'[r].kind = "hashes", req'[r].state \in {"asked", "timedout", "dropped"}
         PROVE  AskerOf(r, s, "hashes")'
    BY <2>5, <2>6, <2>12 DEF AskerOf, Asker, Holders
  <2>13. m \in Msg /\ m = Answers(s)[1]
    BY <1>5
  <2>14. m.type \in {"ENTRIES_RESULT", "HASHES_RESULT", "HASH_RESULT", "CHUNKS_RESULT"}
    <3>1. m.type # "STREAM"
      BY DEF Answers
    <3>2. m.type \notin {"GET_ENTRIES", "GET_HASHES", "GET_CHUNKS"}
      BY <1>1, <2>3, <2>13 DEF Conversation, Coming, NoQuestionComing
    <3> QED
      BY <2>13, <3>1, <3>2 DEF Msg, MessageTypes
  <2> HIDE DEF last, ended, streams, nosize, takers, after, n
  <2>15. nbHash'["server"] = nbHash["server"]
    BY <1>1, TheEnds DEF IInv, Typed
  <2>16. CASE m.type = "ENTRIES_RESULT"
    <3>1. Len(Answers(s)) = 1 /\ owed[s] = <<>>
      BY <1>1, <1>5, <2>3, <2>16 DEF Conversation, Coming, EntriesComing
    <3>2. Tail(Answers(s)) = <<>>
      BY <1>5, <3>1, EmptySeq
    <3>3. req'[r].state \in {"ended", "timedout", "dropped"}
      BY <2>5, <2>16 DEF AfterMessage, Result
    <3> QED
      BY <2>11, <3>1, <3>2, <3>3
  <2>17. CASE m.type = "HASHES_RESULT"
    <3>1. /\ ~Uploading(s) /\ Owes(r, s)
          /\ AskerOf(r, s, "hashes") /\ req[r].left = NbHashes
          /\ \/ m.n = 0 /\ Len(Answers(s)) = 1 /\ owed[s] = <<>>
             \/ m.n = NbHashes /\ Len(Answers(s)) - 1 + Len(owed[s]) <= req[r].left
          /\ \A k \in 2 .. Len(Answers(s)) :
               Answers(s)[k].type = "HASH_RESULT" /\ Answers(s)[k].req = r
      BY <1>1, <1>5, <2>3, <2>4, <2>17 DEF Conversation, Coming, HashesComing
    <3>2. CASE m.n = 0
      <4>1. Len(Answers(s)) = 1 /\ owed[s] = <<>>
        BY <3>1, <3>2, PoolAssumption
      <4>2. Tail(Answers(s)) = <<>>
        BY <1>5, <4>1, EmptySeq
      <4>3. req'[r].state \in {"ended", "timedout", "dropped"}
        BY <2>5, <2>17, <3>2 DEF AfterMessage, Result
      <4> QED
        BY <2>11, <4>1, <4>2, <4>3
    <3>3. CASE m.n # 0
      <4>1. m.n = NbHashes /\ Len(Answers(s)) - 1 + Len(owed[s]) <= req[r].left
        BY <3>1, <3>3
      <4>2. req'[r] = req[r]
        BY <2>5, <2>17, <3>3 DEF AfterMessage
      <4>3. nbHash'["client"][s] = req'[r].left /\ nbHash'["client"][s] \in Int
        BY <1>7, <2>5, <2>17, <3>1, <4>1, <4>2 DEF n, Result
      <4>4. AskerOf(r, s, "hashes")' /\ Counted(r, s)'
        BY <2>12, <3>1, <4>2, <4>3 DEF AskerOf, Asker, Counted
      <4>5. \A k \in 1 .. Len(Tail(Answers(s))) :
              Tail(Answers(s))[k].type = "HASH_RESULT" /\ Tail(Answers(s))[k].req = r
        BY <1>5, <3>1, LenProperties
      <4>6. ~last /\ ended = {}
        BY <2>5, <2>17, <4>4 DEF last, LastOf, AskerOf, Asker
      <4>7. \A q \in Requests : q \in Holders(s)' => q = r /\ sock'["client"][s].active
        BY <1>3, <1>4, <2>6, <4>6
      <4>8. /\ Answers(s)' \in Seq(Msg)
            /\ Len(Answers(s)') + Len(owed[s]) <= nbHash'["client"][s]
            /\ \A k \in 1 .. Len(Answers(s)') :
                 Answers(s)'[k].type = "HASH_RESULT" /\ Answers(s)'[k].req = r
        BY <1>5, <2>7, <4>1, <4>2, <4>3, <4>5
      <4> QED
        BY <2>3, <2>7, <2>8, <2>9, <2>10, <2>15, <3>1, <4>3, <4>4, <4>7, <4>8, HashesTalk
        DEF IInv
    <3> QED
      BY <3>2, <3>3
  <2>18. CASE m.type = "HASH_RESULT"
    <3>1. /\ ~Uploading(s) /\ Owes(r, s)
          /\ AskerOf(r, s, "hashes") /\ Counted(r, s)
          /\ Len(Answers(s)) + Len(owed[s]) <= nbHash["client"][s]
          /\ \A k \in 1 .. Len(Answers(s)) :
               Answers(s)[k].type = "HASH_RESULT" /\ Answers(s)[k].req = r
      BY <1>1, <1>5, <2>3, <2>4, <2>18 DEF Conversation, Coming, HashComing
    <3>2. Len(Answers(s)) \in Nat /\ Len(Answers(s)) # 0 /\ Len(owed[s]) \in Nat
          /\ owed[s] \in Seq(Requests) /\ req[r].left \in Int /\ nbHash["client"][s] \in Int
      BY <1>1, <1>5, <2>5, TheEnds, LenProperties, EmptySeq DEF IInv, Typed, Result
    <3>3. nbHash'["client"][s] = nbHash["client"][s] - 1
      BY <1>7, <2>18 DEF n
    <3>4. ASSUME req'[r].state \in {"asked", "timedout", "dropped"}, req'[r].kind = "hashes",
                 Counted(r, s)', req'[r].state = "asked" => sock'["client"][s].active
          PROVE  Conversation(s)'
      <4>1. AskerOf(r, s, "hashes")'
        BY <2>12, <3>4
      <4>2. \A k \in 1 .. Len(Tail(Answers(s))) :
              Tail(Answers(s))[k].type = "HASH_RESULT" /\ Tail(Answers(s))[k].req = r
        BY <1>5, <3>1
      <4>3. Len(Tail(Answers(s))) + Len(owed[s]) <= nbHash'["client"][s]
        BY <1>5, <3>1, <3>2, <3>3
      <4>4. \A q \in Requests : q \in Holders(s)' => q = r /\ sock'["client"][s].active
        BY <2>6, <3>4 DEF Holders, Running
      <4>5. /\ Answers(s)' \in Seq(Msg) /\ nbHash'["client"][s] \in Int
            /\ Len(Answers(s)') + Len(owed[s]) <= nbHash'["client"][s]
            /\ \A k \in 1 .. Len(Answers(s)') :
                 Answers(s)'[k].type = "HASH_RESULT" /\ Answers(s)'[k].req = r
        BY <1>5, <2>7, <3>2, <3>3, <4>2, <4>3
      <4> QED
        BY <2>3, <2>7, <2>8, <2>9, <2>10, <2>15, <3>1, <3>4, <4>1, <4>4, <4>5, HashesTalk
        DEF IInv
    <3>5. CASE req[r].state = "asked" /\ req[r].left = 1
      <4>1. Len(Answers(s)) = 1 /\ Len(owed[s]) = 0
        <5>1. Len(Answers(s)) + Len(owed[s]) <= 1
          BY <3>1, <3>5 DEF Counted
        <5>2. \A a, b \in Nat : a # 0 /\ a + b <= 1 => a = 1 /\ b = 0
          OBVIOUS
        <5> QED
          BY <3>2, <5>1, <5>2
      <4>2. Tail(Answers(s)) = <<>> /\ owed[s] = <<>>
        <5>1. Len(Tail(Answers(s))) = 0
          BY <1>5, <4>1
        <5>2. Tail(Answers(s)) = <<>>
          BY <1>5, <5>1, EmptySeq
        <5>3. owed[s] = <<>>
          BY <3>2, <4>1, EmptySeq
        <5> QED
          BY <5>2, <5>3
      <4>3. req'[r].state = "ended"
        BY <2>5, <2>18, <3>5 DEF AfterMessage, Result
      <4> QED
        BY <2>11, <4>2, <4>3
    <3>6. CASE req[r].state = "asked" /\ req[r].left # 1
      <4>1. req'[r].left = req[r].left - 1 /\ req'[r].state = "asked" /\ req'[r].kind = "hashes"
        BY <2>5, <2>18, <3>1, <3>6 DEF AfterMessage, Result, AskerOf
      <4>2. nbHash["client"][s] = req[r].left
        BY <3>1, <3>6 DEF Counted
      <4>3. Counted(r, s)'
        BY <3>3, <4>1, <4>2 DEF Counted
      <4>4. ~last /\ ended = {}
        BY <2>5, <2>18, <3>6, <4>1, <4>2 DEF last, LastOf
      <4>5. sock'["client"][s].active
        BY <1>3, <1>4, <4>4
      <4> QED
        BY <3>4, <4>1, <4>3, <4>5
    <3>7. CASE req[r].state # "asked"
      <4>1. req'[r] = req[r] /\ req'[r].state \in {"timedout", "dropped"}
        BY <2>5, <3>7
      <4>2. req'[r].kind = "hashes" /\ Counted(r, s)'
        BY <3>1, <4>1 DEF AskerOf, Counted
      <4> QED
        BY <3>4, <4>1, <4>2
    <3> QED
      BY <3>5, <3>6, <3>7
  <2>19. CASE m.type = "CHUNKS_RESULT"
    <3>1. /\ AskerOf(r, s, "chunk") /\ owed[s] = <<>>
          /\ Uploading(s) => upload[s].req = r
          /\ \A k \in 2 .. Len(Answers(s)) :
               Answers(s)[k].type = "STREAM" /\ Answers(s)[k].req = r
      BY <1>1, <1>5, <2>3, <2>4, <2>19 DEF Conversation, Coming, ChunkComing
    <3>2. \A k \in 1 .. Len(Tail(Answers(s))) :
            Tail(Answers(s))[k].type = "STREAM" /\ Tail(Answers(s))[k].req = r
      BY <1>5, <3>1, LenProperties
    <3>3. Tail(Answers(s)) = <<>> \/ Tail(Answers(s))[1].type = "STREAM"
      <4>1. Tail(Answers(s)) \in Seq(Msg)
        BY <1>5
      <4>2. Tail(Answers(s)) # <<>> => Len(Tail(Answers(s))) \in Nat \ {0}
        BY <4>1, EmptySeq, LenProperties
      <4>3. Tail(Answers(s)) # <<>> => 1 \in 1 .. Len(Tail(Answers(s)))
        BY <4>2
      <4> QED
        BY <3>2, <4>3
    <3>4. ~last
      BY <2>19 DEF last, LastOf
    <3>5. CASE req[r].state # "asked" \/ m.n \in {DontHave, 0}
      <4>1. req'[r].state \in {"ended", "timedout", "dropped"}
        BY <2>5, <2>19, <3>5 DEF AfterMessage, Result
      <4> QED
        BY <2>11, <3>1, <3>3, <4>1
    <3>6. CASE req[r].state = "asked" /\ m.n \notin {DontHave, 0}
      <4>1. req'[r].state = "stream"
        BY <2>5, <2>19, <3>6 DEF AfterMessage, Result
      <4>2. ended = {}
        BY <2>5, <3>6, <4>1
      <4>3. T[s].active
        BY <1>3, <3>4, <4>2
      <4>4. Held(s)'
        BY <1>4, <2>6, <4>3 DEF Held, Holders
      <4>5. Hashing(s)'
        BY <2>7, <3>1 DEF Hashing
      <4>6. Streaming(s)'
        BY <2>6, <2>7, <3>1, <3>2 DEF Streaming, Uploading, Holders
      <4>7. Coming(s)'
        BY <2>7, <3>3, <4>6
        DEF Coming, EntriesComing, HashesComing, HashComing, ChunkComing, NoQuestionComing
      <4> QED
        BY <2>8, <2>9, <2>10, <4>4, <4>5, <4>7 DEF Conversation
    <3> QED
      BY <3>5, <3>6
  <2> QED
    BY <2>14, <2>16, <2>17, <2>18, <2>19
<1> QED
  BY <1>9, <1>10, <1>11, ClientOnlyKeeps

LEMMA ReadAnswerKeeps ==
  ASSUME IInv, NEW s \in Sockets, ReadAnswer(s) PROVE IInv'
<1>1. sock["client"][s].born
  BY OpenedFirst DEF ReadAnswer, IInv, SocketSound
<1> QED
  BY <1>1, ReadJunkKeeps, ReadMessageKeeps

-----------------------------------------------------------------------------
(* The peer that answers.                                                  *)

LEMMA ServerTyped ==
  ASSUME IInv
  PROVE  /\ sock["server"] \in AllSockets
         /\ \A s \in Sockets : Answers(s) \in Seq(Msg) /\ Questions(s) \in Seq(Msg)
BY TheEnds DEF IInv, Typed, AllSockets, Answers, Questions

(* The server reads a question: the one of the request that waits.         *)
LEMMA QuestionTaken ==
  ASSUME IInv, NEW s \in Sockets, Questions(s) # <<>>
  PROVE  /\ sock["client"][s].born
         /\ Head(Questions(s)) \in Msg
         /\ Took(s) \in [Ends -> [Sockets -> Seq(Msg)]]
         /\ Took(s)["client"] = inbox["client"]
         /\ Took(s)["server"][s] = Tail(Questions(s))
         /\ \A d \in Ends, t \in Sockets \ {s} : Took(s)[d][t] = inbox[d][t]
<1>1. Questions(s) \in Seq(Msg)
  BY ServerTyped
<1>2. Head(Questions(s)) \in Msg /\ Tail(Questions(s)) \in Seq(Msg)
  BY <1>1, HeadTailProperties
<1>3. Took(s) = [inbox EXCEPT !["server"][s] = Tail(Questions(s))]
  BY DEF Took, Questions
<1>4. sock["client"][s].born
  BY OpenedFirst DEF IInv, SocketSound
<1>5. Took(s)["client"] = inbox["client"]
  BY <1>3, TheEnds DEF IInv, Typed
<1> QED
  BY <1>2, <1>3, <1>4, <1>5, EndUpdated, TheEnds DEF IInv, Typed

LEMMA QuestionOf ==
  ASSUME IInv, NEW s \in Sockets, Questions(s) # <<>>, Conversation(s)
  PROVE  \E r \in Requests :
           /\ r = Head(Questions(s)).req /\ Asker(r, s)
           /\ req[r].kind = "hashes" => req[r].left = NbHashes
           /\ Head(Questions(s)).type = "GET_ENTRIES" => req[r].kind = "entries"
           /\ Head(Questions(s)).type = "GET_HASHES" => req[r].kind = "hashes"
           /\ Head(Questions(s)).type = "GET_CHUNKS" => req[r].kind = "chunk"
           /\ Tail(Questions(s)) = <<>>
           /\ browse[s] = None /\ owed[s] = <<>>
           /\ Answers(s) = <<>> \/ Junk(s)
<1>1. Questions(s) \in Seq(Msg)
  BY ServerTyped
<1>2. PICK r \in Requests : /\ Asker(r, s) /\ Questions(s)[1] = Request(r)
                            /\ req[r].kind = "hashes" => req[r].left = NbHashes
  BY DEF Conversation, Asked
<1>3. /\ Len(Questions(s)) = 1 /\ browse[s] = None /\ owed[s] = <<>>
      /\ Answers(s) = <<>> \/ Junk(s)
  BY DEF Conversation, Asked
<1>4. Head(Questions(s)) = Request(r)
  BY <1>1, <1>2, HeadTailProperties
<1>5. Tail(Questions(s)) = <<>>
  <2>1. Tail(Questions(s)) \in Seq(Msg) /\ Len(Tail(Questions(s))) = 0
    BY <1>1, <1>3, HeadTailProperties
  <2> QED
    BY <2>1, EmptySeq
<1>6. req[r].kind \in Kinds
  BY DEF IInv, Typed, Result
<1>7. /\ Request(r).req = r
      /\ Request(r).type = "GET_ENTRIES" => req[r].kind = "entries"
      /\ Request(r).type = "GET_HASHES" => req[r].kind = "hashes"
      /\ Request(r).type = "GET_CHUNKS" => req[r].kind = "chunk"
  BY <1>6 DEF Request, Message, Kinds
<1> QED
  BY <1>2, <1>3, <1>4, <1>5, <1>7

LEMMA HeardShape ==
  ASSUME IInv, NEW s \in Sockets
  PROVE  /\ Heard(s) \in AllSockets /\ Shaped(sock["server"], Heard(s), s)
         /\ Heard(s)[s].active /\ Heard(s)[s].listening = sock["server"][s].listening
<1>1. /\ sock["server"] \in AllSockets
      /\ Heard(s) \in AllSockets
      /\ Heard(s)[s] = [pooled |-> sock["server"][s].pooled, active |-> TRUE,
              listening |-> sock["server"][s].listening,
              closing |-> sock["server"][s].closing, born |-> sock["server"][s].born]
      /\ \A t \in Sockets \ {s} : Heard(s)[t] = sock["server"][t]
  BY ServerTyped, ActiveShape DEF Heard
<1>2. sock["server"][s] \in PeerMessageSocket
  BY <1>1 DEF AllSockets
<1> QED
  BY <1>1, <1>2 DEF Shaped, PeerMessageSocket

LEMMA SpeakingShape ==
  ASSUME IInv, NEW s \in Sockets
  PROVE  /\ Speaking(s) \in AllSockets /\ Shaped(sock["server"], Speaking(s), s)
         /\ Speaking(s)[s].listening = sock["server"][s].listening
         /\ \/ Speaking(s)[s].active
            \/ Speaking(s)[s] = sock["server"][s]
<1>1. CASE sock["server"][s].listening
  BY <1>1, HeardShape DEF Speaking
<1>2. CASE ~sock["server"][s].listening
  BY <1>2, ServerTyped DEF Speaking, Shaped
<1> QED
  BY <1>1, <1>2

(* An answer is sent, or not.                                              *)
Sends(box, S, s, ms) ==
  inbox' = IF S[s].listening /\ Open(s)
           THEN [box EXCEPT !["client"][s] = @ \o ms] ELSE box

LEMMA AnswerSent ==
  ASSUME IInv, NEW s \in Sockets, NEW S \in AllSockets, NEW ms \in Seq(Msg),
         NEW box \in [Ends -> [Sockets -> Seq(Msg)]],
         box["client"] = inbox["client"],
         \A d \in Ends, t \in Sockets \ {s} : box[d][t] = inbox[d][t],
         Sends(box, S, s, ms)
  PROVE  /\ inbox' \in [Ends -> [Sockets -> Seq(Msg)]]
         /\ Answers(s)' = IF S[s].listening /\ Open(s) THEN Answers(s) \o ms ELSE Answers(s)
         /\ Questions(s)' = box["server"][s]
         /\ \A d \in Ends, t \in Sockets \ {s} : inbox'[d][t] = inbox[d][t]
<1>4. box["client"][s] = Answers(s) /\ Answers(s) \in Seq(Msg)
  BY ServerTyped DEF Answers
<1>5. CASE S[s].listening /\ Open(s)
  <2>1. Answers(s) \o ms \in Seq(Msg)
    BY <1>4, ConcatProperties
  <2>2. inbox' = [box EXCEPT !["client"][s] = Answers(s) \o ms]
    BY <1>4, <1>5 DEF Sends
  <2>3. /\ inbox' \in [Ends -> [Sockets -> Seq(Msg)]]
        /\ inbox'["client"][s] = Answers(s) \o ms
        /\ \A d \in Ends, t \in Sockets : d # "client" \/ t # s => inbox'[d][t] = box[d][t]
    BY <2>1, <2>2, EndUpdated, TheEnds
  <2>4. /\ Answers(s)' = Answers(s) \o ms
        /\ Questions(s)' = box["server"][s]
    BY <2>3, TheEnds DEF Answers, Questions
  <2>5. \A d \in Ends, t \in Sockets \ {s} : inbox'[d][t] = inbox[d][t]
    BY <2>3
  <2> QED
    BY <1>5, <2>3, <2>4, <2>5
<1>6. CASE ~(S[s].listening /\ Open(s))
  <2>1. inbox' = box
    BY <1>6 DEF Sends
  <2> QED
    BY <1>4, <1>6, <2>1 DEF Answers, Questions
<1> QED
  BY <1>5, <1>6

(* The server keeps the socket, or gives it back.                          *)
LEMMA ServerKeeps ==
  ASSUME IInv, NEW s \in Sockets, NEW S \in AllSockets, Shaped(sock["server"], S, s),
         sock' = [sock EXCEPT !["server"] = S]
  PROVE  /\ sock' \in [Ends -> AllSockets] /\ sock'["client"] = sock["client"]
         /\ sock'["server"] = S
         /\ Shaped(sock["server"], sock'["server"], s)
BY EndReplaced, TheEnds DEF IInv, Typed, AllSockets

LEMMA ServerFinishes ==
  ASSUME IInv, NEW s \in Sockets, NEW S \in AllSockets, Shaped(sock["server"], S, s),
         NEW valid \in BOOLEAN,
         sock' = [sock EXCEPT !["server"] = Finished(S, s, FALSE, valid)]
  PROVE  /\ sock' \in [Ends -> AllSockets] /\ sock'["client"] = sock["client"]
         /\ Shaped(sock["server"], sock'["server"], s)
<1> DEFINE U == Finished(S, s, FALSE, valid)
<1>1. Shaped(S, U, s)
  BY FinishedShape
<1>2. sock' = [sock EXCEPT !["server"] = U]
  OBVIOUS
<1> HIDE DEF U
<1>3. Shaped(sock["server"], U, s)
  BY <1>1, ShapedTransitive
<1>4. U \in AllSockets
  BY <1>1 DEF Shaped
<1> QED
  BY <1>2, <1>3, <1>4, ServerKeeps

(* An answer that ends the transaction.                                    *)
LEMMA AnswerEnds ==
  ASSUME IInv, NEW s \in Sockets, NEW S \in AllSockets, NEW ms \in Seq(Msg),
         NEW box \in [Ends -> [Sockets -> Seq(Msg)]],
         Shaped(sock["server"], S, s),
         box["client"] = inbox["client"],
         \A d \in Ends, t \in Sockets \ {s} : box[d][t] = inbox[d][t],
         Answer(box, S, s, ms, TRUE)
  PROVE  /\ inbox' \in [Ends -> [Sockets -> Seq(Msg)]]
         /\ Answers(s)' = IF S[s].listening /\ Open(s) THEN Answers(s) \o ms ELSE Answers(s)
         /\ Questions(s)' = box["server"][s]
         /\ \A d \in Ends, t \in Sockets \ {s} : inbox'[d][t] = inbox[d][t]
         /\ sock' \in [Ends -> AllSockets]
         /\ sock'["client"] = sock["client"]
         /\ Shaped(sock["server"], sock'["server"], s)
<1>1. PICK valid \in BOOLEAN : sock' = [sock EXCEPT !["server"] = Finished(S, s, FALSE, valid)]
  BY DEF Answer, Valid
<1>2. Sends(box, S, s, ms)
  BY DEF Answer, Sends
<1>3. /\ sock' \in [Ends -> AllSockets] /\ sock'["client"] = sock["client"]
      /\ Shaped(sock["server"], sock'["server"], s)
  BY <1>1, ServerFinishes
<1> QED
  BY <1>2, <1>3, AnswerSent

(* The server has read a question and sent ms.                             *)
Replied(s, ms) ==
  /\ inbox' \in [Ends -> [Sockets -> Seq(Msg)]]
  /\ Answers(s)' = IF sock["server"][s].listening /\ Open(s)
                   THEN Answers(s) \o ms ELSE Answers(s)
  /\ Questions(s)' = Tail(Questions(s))
  /\ \A d \in Ends, t \in Sockets \ {s} : inbox'[d][t] = inbox[d][t]
  /\ sock' \in [Ends -> AllSockets]
  /\ sock'["client"] = sock["client"]
  /\ Shaped(sock["server"], sock'["server"], s)

LEMMA ReplyGoesOn ==
  ASSUME IInv, NEW s \in Sockets, Questions(s) # <<>>, NEW ms \in Seq(Msg),
         Sends(Took(s), Heard(s), s, ms),
         sock' = [sock EXCEPT !["server"] = Heard(s)]
  PROVE  Replied(s, ms) /\ sock'["server"][s].active
<1>1. PICK box \in [Ends -> [Sockets -> Seq(Msg)]], S \in AllSockets :
        /\ box = Took(s) /\ S = Heard(s)
        /\ box["client"] = inbox["client"] /\ box["server"][s] = Tail(Questions(s))
        /\ \A d \in Ends, t \in Sockets \ {s} : box[d][t] = inbox[d][t]
        /\ Shaped(sock["server"], S, s) /\ S[s].active
        /\ S[s].listening = sock["server"][s].listening
  BY QuestionTaken, HeardShape
<1>2. Sends(box, S, s, ms) /\ sock' = [sock EXCEPT !["server"] = S]
  BY <1>1
<1>3. /\ inbox' \in [Ends -> [Sockets -> Seq(Msg)]]
      /\ Answers(s)' = IF S[s].listening /\ Open(s) THEN Answers(s) \o ms ELSE Answers(s)
      /\ Questions(s)' = box["server"][s]
      /\ \A d \in Ends, t \in Sockets \ {s} : inbox'[d][t] = inbox[d][t]
  <2>1. /\ box["client"] = inbox["client"]
        /\ \A d \in Ends, t \in Sockets \ {s} : box[d][t] = inbox[d][t]
    BY <1>1
  <2>2. Sends(box, S, s, ms)
    BY <1>2
  <2> QED
    BY <2>1, <2>2, AnswerSent
<1>4. Shaped(sock["server"], S, s) /\ sock' = [sock EXCEPT !["server"] = S]
  BY <1>1, <1>2
<1>5. /\ sock' \in [Ends -> AllSockets] /\ sock'["client"] = sock["client"]
      /\ sock'["server"] = S
  BY <1>4, ServerKeeps
<1> QED
  BY <1>1, <1>3, <1>5 DEF Replied

LEMMA ReplyEnds ==
  ASSUME IInv, NEW s \in Sockets, Questions(s) # <<>>, NEW ms \in Seq(Msg),
         Answer(Took(s), Heard(s), s, ms, TRUE)
  PROVE  Replied(s, ms)
<1>1. PICK box \in [Ends -> [Sockets -> Seq(Msg)]], S \in AllSockets :
        /\ box = Took(s) /\ S = Heard(s)
        /\ box["client"] = inbox["client"] /\ box["server"][s] = Tail(Questions(s))
        /\ \A d \in Ends, t \in Sockets \ {s} : box[d][t] = inbox[d][t]
        /\ Shaped(sock["server"], S, s)
        /\ S[s].listening = sock["server"][s].listening
  BY QuestionTaken, HeardShape
<1>2. Answer(box, S, s, ms, TRUE)
  BY <1>1
<1>3. /\ box["client"] = inbox["client"]
      /\ \A d \in Ends, t \in Sockets \ {s} : box[d][t] = inbox[d][t]
      /\ Shaped(sock["server"], S, s)
  BY <1>1
<1>4. /\ inbox' \in [Ends -> [Sockets -> Seq(Msg)]]
      /\ Answers(s)' = IF S[s].listening /\ Open(s) THEN Answers(s) \o ms ELSE Answers(s)
      /\ Questions(s)' = box["server"][s]
      /\ \A d \in Ends, t \in Sockets \ {s} : inbox'[d][t] = inbox[d][t]
      /\ sock' \in [Ends -> AllSockets]
      /\ sock'["client"] = sock["client"]
      /\ Shaped(sock["server"], sock'["server"], s)
  BY <1>2, <1>3, AnswerEnds
<1> QED
  BY <1>1, <1>4 DEF Replied

(* What was not read and one message more.                                 *)
LEMMA Appended ==
  ASSUME NEW s \in Sockets, NEW m \in Msg, Answers(s) \in Seq(Msg),
         Answers(s) = <<>> \/ Junk(s),
         Answers(s)' \in {Answers(s), Answers(s) \o <<m>>}
  PROVE  Answers(s)' = <<>> \/ Junk(s)' \/ Answers(s)' = <<m>>
<1>1. CASE Answers(s)' = Answers(s)
  BY <1>1 DEF Junk
<1>2. CASE Answers(s)' = Answers(s) \o <<m>> /\ Answers(s) = <<>>
  <2>1. <<m>> \in Seq(Msg)
    OBVIOUS
  <2> QED
    BY <1>2, <2>1, ConcatEmptySeq
<1>3. CASE Answers(s)' = Answers(s) \o <<m>> /\ Junk(s)
  <2>1. Answers(s) # <<>> /\ Answers(s)[1].type = "STREAM"
    BY <1>3 DEF Junk
  <2>2. Len(Answers(s)) \in Nat \ {0} /\ <<m>> \in Seq(Msg) /\ Len(<<m>>) = 1
    BY <2>1, EmptySeq
  <2>3. Len(Answers(s)') = Len(Answers(s)) + 1 /\ Answers(s)'[1] = Answers(s)[1]
        /\ Answers(s)' \in Seq(Msg)
    BY <1>3, <2>2, ConcatProperties
  <2>4. Answers(s)' # <<>>
    BY <2>2, <2>3
  <2> QED
    BY <2>1, <2>3, <2>4 DEF Junk
<1> QED
  BY <1>1, <1>2, <1>3

(* A step of the server in the conversation with the request that waits.   *)
LEMMA ServerTalks ==
  ASSUME Typed, NEW s \in Sockets, NEW r \in Requests, Conversation(s), Asker(r, s),
         req' = req, heard' = heard, sock'["client"] = sock["client"],
         Questions(s)' = <<>>, Serving(s)', Browsing(s)', Hashing(s)',
         EntriesComing(s)', HashesComing(s)', HashComing(s)', ChunkComing(s)',
         NoQuestionComing(s)'
  PROVE  Conversation(s)'
<1>1. \A q \in Requests : q \in Holders(s)' <=> q \in Holders(s)
  BY DEF Holders, Running
<1>2. Held(s)'
  BY <1>1 DEF Held, Conversation, Holders
<1>3. Streaming(s)'
  BY <1>1 DEF Streaming, Conversation, Held, Holders, Running, Asker
<1>4. Heeded(s)' /\ Asked(s)'
  BY DEF Heeded, Conversation, Asked
<1> QED
  BY <1>2, <1>3, <1>4 DEF Conversation, Coming

LEMMA StillAsks ==
  ASSUME NEW s, NEW r \in Requests, NEW kind, AskerOf(r, s, kind), req' = req
  PROVE  AskerOf(r, s, kind)'
<1>1. Holders(s)' = Holders(s)
  BY DEF Holders, Running
<1> QED
  BY <1>1 DEF AskerOf, Asker

LEMMA NotOpen ==
  ASSUME NEW s \in Sockets, Reliable(s), ~Open(s)
  PROVE  Lost(s)
BY DEF Reliable, Open, Lost, Alive

LEMMA StillLost ==
  ASSUME NEW s \in Sockets, Lost(s), cut' = cut, upload' = upload,
         Shaped(sock["server"], sock'["server"], s)
  PROVE  Lost(s)'
BY AliveAtServer, AliveAtServerNext DEF Lost, Shaped

LEMMA MessageTyped ==
  ASSUME NEW type \in MessageTypes, NEW r \in Requests, NEW n \in Int
  PROVE  /\ Message(type, r, n) \in Msg /\ <<Message(type, r, n)>> \in Seq(Msg)
         /\ Message(type, r, n).type = type /\ Message(type, r, n).req = r
         /\ Message(type, r, n).n = n
BY DEF Message, Msg

LEMMA NoMessage == <<>> \in Seq(Msg) /\ \A a \in Seq(Msg) : a \o <<>> = a
BY ConcatEmptySeq

(* The server sends the entries, if it does, and owes nothing more.        *)
LEMMA EntriesTalk ==
  ASSUME Typed, NEW s \in Sockets, NEW r \in Requests, Conversation(s), AskerOf(r, s, "entries"),
         req' = req, heard' = heard, sock'["client"] = sock["client"], upload' = upload,
         ~Uploading(s), Questions(s)' = <<>>, browse'[s] = None, owed'[s] = <<>>,
         Answers(s)' = <<>> \/ Junk(s)' \/ Answers(s)' = <<Message("ENTRIES_RESULT", r, 0)>>
  PROVE  Conversation(s)'
<1> DEFINE m == Message("ENTRIES_RESULT", r, 0)
<1>1. m.type = "ENTRIES_RESULT" /\ m.req = r
  BY DEF Message
<1>2. AskerOf(r, s, "entries")'
  BY StillAsks
<1>3. ~Uploading(s)'
  BY DEF Uploading
<1>4. Serving(s)' /\ Browsing(s)' /\ Hashing(s)'
  BY <1>3 DEF Serving, Browsing, Hashing
<1> HIDE DEF m
<1>5. \/ Answers(s)' = <<>> \/ (Answers(s)' # <<>> /\ Answers(s)'[1].type = "STREAM")
      \/ Answers(s)' # <<>> /\ Answers(s)'[1] = m /\ Len(Answers(s)') = 1
  BY DEF Junk, m
<1>6. /\ EntriesComing(s)' /\ HashesComing(s)' /\ HashComing(s)' /\ ChunkComing(s)'
      /\ NoQuestionComing(s)'
  BY <1>1, <1>2, <1>3, <1>5
  DEF EntriesComing, HashesComing, HashComing, ChunkComing, NoQuestionComing
<1> QED
  BY <1>4, <1>6, ServerTalks DEF AskerOf

LEMMA GetEntriesKeeps ==
  ASSUME IInv, NEW s \in Sockets, GetEntries(s) PROVE IInv'
<1>1. /\ Questions(s) # <<>> /\ Head(Questions(s)).type = "GET_ENTRIES"
      /\ sock["server"][s].listening
      /\ UNCHANGED <<cut, req, nbHash, owed, upload, known, heard, mixed>>
  BY DEF GetEntries, Readable, Questions, history
<1>2. /\ sock["client"][s].born /\ Head(Questions(s)).req \in Requests
      /\ Took(s) \in [Ends -> [Sockets -> Seq(Msg)]]
      /\ Took(s)["client"] = inbox["client"]
      /\ Took(s)["server"][s] = Tail(Questions(s))
      /\ \A d \in Ends, t \in Sockets \ {s} : Took(s)[d][t] = inbox[d][t]
  BY <1>1, QuestionTaken DEF Msg
<1> PICK r \in Requests : r = Head(Questions(s)).req
  BY <1>2
<1> DEFINE m == Message("ENTRIES_RESULT", r, 0)
<1>3. m \in Msg /\ <<m>> \in Seq(Msg)
  BY MessageTyped DEF MessageTypes
<1>4. \/ /\ Answer(Took(s), Heard(s), s, <<>>, FALSE)
         /\ \/ browse[s] # None /\ browse' = browse
            \/ browse' = [browse EXCEPT ![s] = r]
      \/ /\ Answer(Took(s), Heard(s), s, <<m>>, TRUE)
         /\ browse[s] = None /\ browse' = browse
  BY DEF GetEntries, Questions
<1> HIDE DEF m
<1>5. \/ /\ Replied(s, <<>>) /\ sock'["server"][s].active
         /\ \/ browse[s] # None /\ browse' = browse
            \/ browse' = [browse EXCEPT ![s] = r]
      \/ Replied(s, <<m>>) /\ browse[s] = None /\ browse' = browse
  <2>1. ASSUME Answer(Took(s), Heard(s), s, <<m>>, TRUE)
        PROVE  Replied(s, <<m>>)
    BY <1>1, <1>3, <2>1, ReplyEnds
  <2>2. ASSUME Answer(Took(s), Heard(s), s, <<>>, FALSE)
        PROVE  Replied(s, <<>>) /\ sock'["server"][s].active
    <3>1. PICK ms \in Seq(Msg) : ms = <<>>
      BY NoMessage
    <3>2. Sends(Took(s), Heard(s), s, ms) /\ sock' = [sock EXCEPT !["server"] = Heard(s)]
      BY <2>2, <3>1 DEF Answer, Sends
    <3>3. Replied(s, ms) /\ sock'["server"][s].active
      BY <1>1, <3>2, ReplyGoesOn
    <3> QED
      BY <3>1, <3>3
  <2> QED
    BY <1>4, <2>1, <2>2
<1>6. /\ inbox' \in [Ends -> [Sockets -> Seq(Msg)]]
      /\ Questions(s)' = Tail(Questions(s))
      /\ \A d \in Ends, t \in Sockets \ {s} : inbox'[d][t] = inbox[d][t]
      /\ sock' \in [Ends -> AllSockets]
      /\ sock'["client"] = sock["client"]
      /\ Shaped(sock["server"], sock'["server"], s)
      /\ \/ /\ Answers(s)' = Answers(s) /\ sock'["server"][s].active
            /\ \/ browse[s] # None /\ browse' = browse
               \/ browse' = [browse EXCEPT ![s] = r]
         \/ /\ Answers(s)' \in {Answers(s), Answers(s) \o <<m>>}
            /\ browse[s] = None /\ browse' = browse
  <2>1. Answers(s) \o <<>> = Answers(s)
    BY NoMessage, ServerTyped
  <2> QED
    BY <1>5, <2>1 DEF Replied
<1>7. /\ browse' \in [Sockets -> Requests \cup {None}]
      /\ \A t \in Sockets \ {s} : browse'[t] = browse[t]
  BY <1>2, <1>4 DEF IInv, Typed
<1>8. Typed'
  BY <1>1, <1>6, <1>7 DEF IInv, Typed, AllSockets
<1>9. ServerOnly(s)
  BY <1>1, <1>6, <1>7 DEF ServerOnly, SameData
<1>10. sock["server"][s].born \/ upload'[s].state = "none"
  BY <1>1 DEF IInv, SocketSound, Opened
<1>11. ASSUME Reliable(s)
       PROVE  Conversation(s)'
  <2>1. Conversation(s)
    BY <1>11 DEF IInv, SocketSound
  <2>2. /\ AskerOf(r, s, "entries") /\ Tail(Questions(s)) = <<>>
        /\ browse[s] = None /\ owed[s] = <<>>
        /\ Answers(s) = <<>> \/ Junk(s)
    BY <1>1, <2>1, QuestionOf DEF AskerOf
  <2>3. ~Uploading(s)
    BY <1>1, <2>1 DEF Conversation, Serving
  <2>4. Answers(s) \in Seq(Msg)
    BY ServerTyped
  <2>5. CASE Answers(s)' \in {Answers(s), Answers(s) \o <<m>>} /\ browse' = browse
    <3>1. Answers(s)' = <<>> \/ Junk(s)' \/ Answers(s)' = <<m>>
      BY <1>3, <2>2, <2>4, <2>5, Appended
    <3> QED
      BY <1>1, <1>2, <1>6, <2>1, <2>2, <2>3, <2>5, <3>1, EntriesTalk DEF IInv, m
  <2>6. CASE /\ Answers(s)' = Answers(s) /\ sock'["server"][s].active
             /\ browse' = [browse EXCEPT ![s] = r]
    <3>2. Answers(s)' = <<>> \/ Junk(s)'
      BY <2>2, <2>6 DEF Junk
    <3>3. browse'[s] = r
      BY <2>6 DEF IInv, Typed
    <3>4. ~Uploading(s)' /\ owed'[s] = <<>> /\ sock'["server"][s].active
      BY <1>1, <2>2, <2>3, <2>6 DEF Uploading
    <3>5. AskerOf(browse[s], s, "entries")'
      BY <1>1, <2>2, <3>3, StillAsks
    <3>6. Serving(s)' /\ Browsing(s)' /\ Hashing(s)'
      BY <3>2, <3>4, <3>5 DEF Serving, Browsing, Hashing
    <3>7. /\ EntriesComing(s)' /\ HashesComing(s)' /\ HashComing(s)' /\ ChunkComing(s)'
          /\ NoQuestionComing(s)'
      BY <3>2 DEF EntriesComing, HashesComing, HashComing, ChunkComing, NoQuestionComing, Junk
    <3> QED
      BY <1>1, <1>2, <1>6, <2>1, <2>2, <3>6, <3>7, ServerTalks DEF IInv, AskerOf
  <2> QED
    BY <1>6, <2>2, <2>5, <2>6
<1> QED
  BY <1>2, <1>8, <1>9, <1>10, <1>11, ServerOnlyKeeps

LEMMA EntriesResultKeeps ==
  ASSUME IInv, NEW s \in Sockets, EntriesResult(s) PROVE IInv'
<1>1. /\ browse[s] # None /\ browse' = [browse EXCEPT ![s] = None]
      /\ UNCHANGED <<cut, req, nbHash, owed, upload, known, heard, mixed>>
  BY DEF EntriesResult, history
<1>2. PICK r \in Requests : r = browse[s]
  BY <1>1 DEF IInv, Typed
<1> DEFINE m == Message("ENTRIES_RESULT", r, 0)
<1>3. m \in Msg /\ <<m>> \in Seq(Msg)
  BY MessageTyped DEF MessageTypes
<1>4. Answer(inbox, Speaking(s), s, <<m>>, TRUE)
  BY <1>2 DEF EntriesResult
<1> HIDE DEF m
<1>5. /\ inbox' \in [Ends -> [Sockets -> Seq(Msg)]]
      /\ Answers(s)' \in {Answers(s), Answers(s) \o <<m>>}
      /\ Questions(s)' = Questions(s)
      /\ \A d \in Ends, t \in Sockets \ {s} : inbox'[d][t] = inbox[d][t]
      /\ sock' \in [Ends -> AllSockets]
      /\ sock'["client"] = sock["client"]
      /\ Shaped(sock["server"], sock'["server"], s)
  <2>1. inbox \in [Ends -> [Sockets -> Seq(Msg)]] /\ inbox["server"][s] = Questions(s)
    BY DEF IInv, Typed, Questions
  <2> QED
    BY <1>3, <1>4, <2>1, SpeakingShape, AnswerEnds
<1>6. /\ browse' \in [Sockets -> Requests \cup {None}] /\ browse'[s] = None
      /\ \A t \in Sockets \ {s} : browse'[t] = browse[t]
  BY <1>1 DEF IInv, Typed
<1>7. Typed'
  BY <1>1, <1>5, <1>6 DEF IInv, Typed, AllSockets
<1>8. ServerOnly(s)
  BY <1>1, <1>5, <1>6 DEF ServerOnly, SameData
<1>9. /\ sock["server"][s].born \/ upload'[s].state = "none"
      /\ sock["client"][s].born
  BY <1>1, OpenedFirst DEF IInv, SocketSound, Opened
<1>10. ASSUME Reliable(s)
       PROVE  Conversation(s)'
  <2>1. Conversation(s)
    BY <1>10 DEF IInv, SocketSound
  <2>2. /\ AskerOf(r, s, "entries") /\ owed[s] = <<>> /\ ~Uploading(s)
        /\ Answers(s) = <<>> \/ Junk(s)
    BY <1>1, <1>2, <2>1 DEF Conversation, Browsing
  <2>3. Questions(s) = <<>>
    BY <1>1, <2>1 DEF Conversation, Asked
  <2>4. Answers(s)' = <<>> \/ Junk(s)' \/ Answers(s)' = <<m>>
    BY <1>3, <1>5, <2>2, ServerTyped, Appended
  <2> QED
    BY <1>1, <1>5, <1>6, <2>1, <2>2, <2>3, <2>4, EntriesTalk DEF IInv, m
<1> QED
  BY <1>7, <1>8, <1>9, <1>10, ServerOnlyKeeps


(* The hashes the server owes: what it still has of the old ones, then     *)
(* those of the new question.                                              *)
LEMMA Owing ==
  ASSUME NEW q \in Seq(Requests), NEW p \in 0 .. Len(q), NEW r \in Requests
  PROVE  LET H == [k \in 1 .. NbHashes |-> r]
         IN  /\ SubSeq(q, 1, p) \in Seq(Requests)
             /\ SubSeq(q, 1, p) \o H \in Seq(Requests)
             /\ q = <<>> => SubSeq(q, 1, p) = <<>> /\ SubSeq(q, 1, p) \o H = H
             /\ Len(H) = NbHashes /\ DOMAIN H = 1 .. NbHashes
             /\ \A k \in 1 .. NbHashes : H[k] = r
<1> DEFINE H == [k \in 1 .. NbHashes |-> r]
<1>1. NbHashes \in Nat
  BY PoolAssumption
<1>2. H \in Seq(Requests) /\ Len(H) = NbHashes /\ DOMAIN H = 1 .. NbHashes
      /\ \A k \in 1 .. NbHashes : H[k] = r
  BY <1>1
<1>3. Len(q) \in Nat /\ p \in Nat /\ p <= Len(q)
  BY LenProperties
<1>4. \A k \in 1 .. p : q[k] \in Requests
  BY <1>3
<1>5. SubSeq(q, 1, p) \in Seq(Requests)
  BY <1>3, <1>4, SubSeqProperties
<1>6. q = <<>> => SubSeq(q, 1, p) = <<>>
  <2>1. SUFFICES ASSUME q = <<>> PROVE SubSeq(q, 1, p) = <<>>
    OBVIOUS
  <2>2. p = 0
    BY <1>3, <2>1
  <2> QED
    BY <2>2, SubSeqEmpty
<1> HIDE DEF H
<1>7. SubSeq(q, 1, p) \o H \in Seq(Requests) /\ <<>> \o H = H
  BY <1>2, <1>5, ConcatProperties, ConcatEmptySeq
<1> QED
  BY <1>2, <1>5, <1>6, <1>7 DEF H

(* The server sends the number of the hashes, if it does, and owes them.   *)
LEMMA HashesAnnounced ==
  ASSUME Typed, NEW s \in Sockets, NEW r \in Requests, NEW n \in {0, NbHashes},
         Conversation(s), AskerOf(r, s, "hashes"), req[r].left = NbHashes,
         req' = req, heard' = heard, sock'["client"] = sock["client"], upload' = upload,
         ~Uploading(s), Questions(s)' = <<>>, browse'[s] = None,
         owed'[s] \in Seq(Requests), Len(owed'[s]) = n,
         Owes(r, s)',
         nbHash'["server"][s] = n,
         n # 0 => sock'["server"][s].active,
         n # 0 /\ Answers(s)' = <<>> => Lost(s)',
         Answers(s)' = <<>> \/ Junk(s)' \/ Answers(s)' = <<Message("HASHES_RESULT", r, n)>>
  PROVE  Conversation(s)'
<1> DEFINE m == Message("HASHES_RESULT", r, n)
<1>1. m.type = "HASHES_RESULT" /\ m.req = r /\ m.n = n
  BY DEF Message
<1>2. AskerOf(r, s, "hashes")' /\ req'[r].left = NbHashes
  BY StillAsks
<1>3. ~Uploading(s)' /\ NbHashes \in Nat \ {0}
  BY PoolAssumption DEF Uploading
<1>4. owed'[s] # <<>> => n # 0
  BY EmptySeq
<1>5. n = 0 => owed'[s] = <<>>
  BY EmptySeq
<1>6. Serving(s)' /\ Browsing(s)'
  BY <1>3, <1>4 DEF Serving, Browsing
<1>7. Hashing(s)'
  <2>1. SUFFICES ASSUME owed'[s] # <<>> PROVE Hashing(s)'
    BY DEF Hashing
  <2> QED
    BY <1>2, <1>3, <1>4, <2>1 DEF Hashing
<1> HIDE DEF m
<1>8. \/ Answers(s)' = <<>> \/ (Answers(s)' # <<>> /\ Answers(s)'[1].type = "STREAM")
      \/ Answers(s)' # <<>> /\ Answers(s)'[1] = m /\ Len(Answers(s)') = 1
  BY DEF Junk, m
<1>9. HashesComing(s)'
  <2>1. SUFFICES ASSUME Answers(s)' # <<>> /\ Answers(s)'[1].type = "HASHES_RESULT"
                 PROVE  HashesComing(s)'
    BY DEF HashesComing
  <2>2. Answers(s)'[1] = m /\ Len(Answers(s)') = 1
    BY <1>8, <2>1
  <2>3. \A k \in 2 .. Len(Answers(s)') : FALSE
    BY <2>2
  <2>4. n = NbHashes => Len(Answers(s)') - 1 + Len(owed'[s]) <= req'[r].left
    BY <1>2, <1>3, <2>2
  <2> QED
    BY <1>1, <1>2, <1>3, <1>5, <2>2, <2>3, <2>4 DEF HashesComing
<1>10. /\ EntriesComing(s)' /\ HashComing(s)' /\ ChunkComing(s)'
       /\ NoQuestionComing(s)'
  BY <1>1, <1>8 DEF EntriesComing, HashComing, ChunkComing, NoQuestionComing
<1> QED
  BY <1>6, <1>7, <1>9, <1>10, ServerTalks DEF AskerOf

LEMMA GetHashesKeeps ==
  ASSUME IInv, NEW s \in Sockets, GetHashes(s) PROVE IInv'
<1>1. /\ Questions(s) # <<>> /\ Head(Questions(s)).type = "GET_HASHES"
      /\ sock["server"][s].listening
      /\ UNCHANGED <<cut, req, browse, upload, known, heard, mixed>>
  BY DEF GetHashes, Readable, Questions, history
<1>2. sock["client"][s].born /\ Head(Questions(s)).req \in Requests
  BY <1>1, QuestionTaken DEF Msg
<1> PICK r \in Requests : r = Head(Questions(s)).req
  BY <1>2
<1> DEFINE H == [k \in 1 .. NbHashes |-> r]
           m(n) == Message("HASHES_RESULT", r, n)
<1>3. NbHashes \in Int /\ \A n \in {0, NbHashes} : m(n) \in Msg /\ <<m(n)>> \in Seq(Msg)
  BY MessageTyped, PoolAssumption DEF MessageTypes
<1>4. PICK n \in {0, NbHashes}, posted \in 0 .. Len(owed[s]) :
        /\ owed' = [owed EXCEPT ![s] = IF n = 0 THEN SubSeq(owed[s], 1, posted)
                                       ELSE SubSeq(owed[s], 1, posted) \o H]
        /\ nbHash' = [nbHash EXCEPT !["server"][s] = n]
        /\ \/ n = 0 /\ Answer(Took(s), Heard(s), s, <<m(n)>>, TRUE)
           \/ n = NbHashes /\ n # 0 /\ Answer(Took(s), Heard(s), s, <<m(n)>>, FALSE)
  BY PoolAssumption DEF GetHashes, Questions
<1>5. owed[s] \in Seq(Requests)
  BY DEF IInv, Typed
<1>6. /\ SubSeq(owed[s], 1, posted) \in Seq(Requests)
      /\ SubSeq(owed[s], 1, posted) \o H \in Seq(Requests)
      /\ owed[s] = <<>> =>
           SubSeq(owed[s], 1, posted) = <<>> /\ SubSeq(owed[s], 1, posted) \o H = H
      /\ Len(H) = NbHashes /\ DOMAIN H = 1 .. NbHashes
      /\ \A k \in 1 .. NbHashes : H[k] = r
  BY <1>5, Owing
<1> HIDE DEF m, H
<1>7. Replied(s, <<m(n)>>) /\ (n # 0 => sock'["server"][s].active)
  <2>1. CASE n = 0 /\ Answer(Took(s), Heard(s), s, <<m(n)>>, TRUE)
    BY <1>1, <1>3, <2>1, ReplyEnds
  <2>2. CASE n # 0 /\ Answer(Took(s), Heard(s), s, <<m(n)>>, FALSE)
    <3>1. Sends(Took(s), Heard(s), s, <<m(n)>>)
          /\ sock' = [sock EXCEPT !["server"] = Heard(s)]
      BY <2>2 DEF Answer, Sends
    <3> QED
      BY <1>1, <1>3, <3>1, ReplyGoesOn
  <2> QED
    BY <1>4, <2>1, <2>2
<1>8. /\ owed' \in [Sockets -> Seq(Requests)]
      /\ owed'[s] = IF n = 0 THEN SubSeq(owed[s], 1, posted)
                    ELSE SubSeq(owed[s], 1, posted) \o H
      /\ \A t \in Sockets \ {s} : owed'[t] = owed[t]
  BY <1>4, <1>6 DEF IInv, Typed
<1>9. /\ nbHash' \in [Ends -> [Sockets -> Int]] /\ nbHash'["server"][s] = n
      /\ \A d \in Ends, t \in Sockets \ {s} : nbHash'[d][t] = nbHash[d][t]
  BY <1>3, <1>4, EndUpdated, TheEnds DEF IInv, Typed
<1>10. Typed'
  BY <1>1, <1>7, <1>8, <1>9 DEF IInv, Typed, AllSockets, Replied
<1>11. ServerOnly(s)
  BY <1>1, <1>7, <1>8, <1>9 DEF ServerOnly, SameData, Replied
<1>12. sock["server"][s].born \/ upload'[s].state = "none"
  BY <1>1 DEF IInv, SocketSound, Opened
<1>13. ASSUME Reliable(s)
       PROVE  Conversation(s)'
  <2>1. Conversation(s)
    BY <1>13 DEF IInv, SocketSound
  <2>2. /\ AskerOf(r, s, "hashes") /\ req[r].left = NbHashes /\ Tail(Questions(s)) = <<>>
        /\ browse[s] = None /\ owed[s] = <<>>
        /\ Answers(s) = <<>> \/ Junk(s)
    BY <1>1, <2>1, QuestionOf DEF AskerOf
  <2>3. ~Uploading(s)
    BY <1>1, <2>1 DEF Conversation, Serving
  <2>4. owed'[s] = IF n = 0 THEN <<>> ELSE H
    BY <1>6, <1>8, <2>2
  <2>5. /\ owed'[s] \in Seq(Requests) /\ Len(owed'[s]) = n /\ Owes(r, s)'
    BY <1>6, <1>8, <2>4 DEF Owes
  <2>6. Answers(s) \in Seq(Msg)
    BY ServerTyped
  <2>7. Answers(s)' = <<>> \/ Junk(s)' \/ Answers(s)' = <<m(n)>>
    <3>1. Answers(s)' \in {Answers(s), Answers(s) \o <<m(n)>>}
      BY <1>7 DEF Replied
    <3> QED
      BY <1>3, <2>2, <2>6, <3>1, Appended
  <2>8. Answers(s)' = <<>> => Lost(s)'
    <3>1. SUFFICES ASSUME Answers(s)' = <<>> PROVE Lost(s)'
      OBVIOUS
    <3>2. ~Open(s)
      <4>1. Open(s) => Answers(s)' = Answers(s) \o <<m(n)>>
        BY <1>1, <1>7 DEF Replied
      <4>2. Answers(s) \o <<m(n)>> # <<>>
        BY <1>3, <2>6, ConcatProperties, EmptySeq
      <4> QED
        BY <3>1, <4>1, <4>2
    <3>3. Lost(s)
      BY <1>13, <3>2, NotOpen
    <3> QED
      BY <1>1, <1>7, <3>3, StillLost DEF Replied
  <2>9. /\ req' = req /\ heard' = heard /\ upload' = upload
        /\ sock'["client"] = sock["client"] /\ Questions(s)' = <<>> /\ browse'[s] = None
    BY <1>1, <1>7, <2>2 DEF Replied
  <2> QED
    BY <1>7, <1>9, <2>1, <2>2, <2>3, <2>5, <2>7, <2>8, <2>9, HashesAnnounced DEF IInv, m
<1> QED
  BY <1>2, <1>10, <1>11, <1>12, <1>13, ServerOnlyKeeps

LEMMA OneMore ==
  ASSUME NEW a \in Seq(Msg), NEW m \in Msg
  PROVE  /\ a \o <<m>> \in Seq(Msg) /\ Len(a) \in Nat
         /\ Len(a \o <<m>>) = Len(a) + 1 /\ a \o <<m>> # <<>>
         /\ \A k \in 1 .. Len(a) : (a \o <<m>>)[k] = a[k]
         /\ (a \o <<m>>)[Len(a) + 1] = m
         /\ a # <<>> => Len(a) >= 1 /\ (a \o <<m>>)[1] = a[1]
<1>1. <<m>> \in Seq(Msg) /\ Len(<<m>>) = 1 /\ <<m>>[1] = m /\ Len(a) \in Nat
  BY LenProperties
<1>2. /\ a \o <<m>> \in Seq(Msg) /\ Len(a \o <<m>>) = Len(a) + 1
      /\ \A k \in 1 .. Len(a) + 1 :
           (a \o <<m>>)[k] = IF k <= Len(a) THEN a[k] ELSE <<m>>[k - Len(a)]
  BY <1>1, ConcatProperties
<1>3. a # <<>> => Len(a) >= 1
  BY <1>1, EmptySeq
<1>4. (a \o <<m>>)[Len(a) + 1] = m
  BY <1>1, <1>2
<1>5. a \o <<m>> # <<>>
  BY <1>1, <1>2
<1>6. \A k \in 1 .. Len(a) : (a \o <<m>>)[k] = a[k]
  BY <1>1, <1>2
<1> QED
  BY <1>1, <1>2, <1>3, <1>4, <1>5, <1>6

(* The next hash is sent, or not.                                          *)
LEMMA NextHashTalks ==
  ASSUME Typed, NEW s \in Sockets, NEW r \in Requests, Conversation(s), owed[s] # <<>>,
         r = Head(owed[s]),
         req' = req, heard' = heard, sock'["client"] = sock["client"], upload' = upload,
         nbHash'["client"][s] = nbHash["client"][s],
         nbHash'["server"][s] = nbHash["server"][s] - 1,
         browse' = browse, owed'[s] = Tail(owed[s]), Questions(s)' = Questions(s),
         Answers(s) \in Seq(Msg), Lost(s) => Lost(s)', Serving(s)',
         \/ Answers(s)' = Answers(s)
         \/ ~Lost(s) /\ Answers(s)' = Answers(s) \o <<Message("HASH_RESULT", r, 0)>>
  PROVE  Conversation(s)'
<1> DEFINE m == Message("HASH_RESULT", r, 0)
<1>1. /\ Questions(s) = <<>> /\ browse[s] = None /\ ~Uploading(s)
      /\ nbHash["server"][s] = Len(owed[s])
  BY DEF Conversation, Asked, Browsing, Hashing
<1>2. /\ owed[s] \in Seq(Requests) /\ Len(owed[s]) \in Nat \ {0}
      /\ Tail(owed[s]) \in Seq(Requests) /\ Len(Tail(owed[s])) = Len(owed[s]) - 1
      /\ \A k \in 1 .. Len(Tail(owed[s])) : Tail(owed[s])[k] = owed[s][k + 1]
      /\ Head(owed[s]) = owed[s][1]
  <2>1. owed[s] \in Seq(Requests)
    BY DEF Typed
  <2>2. Len(owed[s]) \in Nat \ {0}
    BY <2>1, EmptySeq, LenProperties
  <2> QED
    BY <2>1, <2>2, HeadTailProperties
<1>3. /\ AskerOf(r, s, "hashes") /\ \A k \in 1 .. Len(owed[s]) : owed[s][k] = r
      /\ Answers(s) = <<>> => Lost(s) \/ (Counted(r, s) /\ Len(owed[s]) <= nbHash["client"][s])
  <2>1. PICK q \in Requests :
          /\ AskerOf(q, s, "hashes") /\ Owes(q, s)
          /\ Answers(s) = <<>> =>
               Lost(s) \/ (Counted(q, s) /\ Len(owed[s]) <= nbHash["client"][s])
    BY DEF Conversation, Hashing
  <2>2. DOMAIN owed[s] = 1 .. Len(owed[s])
    BY <1>2, LenProperties
  <2>3. q = r /\ \A k \in 1 .. Len(owed[s]) : owed[s][k] = r
    BY <1>2, <2>1, <2>2 DEF Owes
  <2> QED
    BY <2>1, <2>3
<1>4. /\ AskerOf(r, s, "hashes")' /\ ~Uploading(s)' /\ req'[r].left = req[r].left
      /\ Counted(r, s) => Counted(r, s)'
  BY <1>1, <1>3, StillAsks DEF Uploading, Counted
<1>5. req[r].left \in Int /\ nbHash["client"][s] \in Int
  BY TheEnds DEF Typed, Result
<1>6. Owes(r, s)'
  <2>1. DOMAIN Tail(owed[s]) = 1 .. Len(Tail(owed[s]))
    BY <1>2, LenProperties
  <2>2. \A a \in Nat : \A k \in 1 .. a - 1 : k + 1 \in 1 .. a
    OBVIOUS
  <2>3. \A k \in 1 .. Len(Tail(owed[s])) : k + 1 \in 1 .. Len(owed[s])
    BY <1>2, <2>2
  <2> QED
    BY <1>2, <1>3, <2>1, <2>3 DEF Owes
<1>7. m \in Msg /\ m.type = "HASH_RESULT" /\ m.req = r
  BY MessageTyped DEF MessageTypes
<1> HIDE DEF m
<1>8. /\ Answers(s) \o <<m>> \in Seq(Msg) /\ Len(Answers(s)) \in Nat
      /\ Len(Answers(s) \o <<m>>) = Len(Answers(s)) + 1 /\ Answers(s) \o <<m>> # <<>>
      /\ \A k \in 1 .. Len(Answers(s)) : (Answers(s) \o <<m>>)[k] = Answers(s)[k]
      /\ (Answers(s) \o <<m>>)[Len(Answers(s)) + 1] = m
      /\ Answers(s) # <<>> => Len(Answers(s)) >= 1 /\ (Answers(s) \o <<m>>)[1] = Answers(s)[1]
  BY <1>7, OneMore
<1>9. Answers(s)' = Answers(s) \/ (~Lost(s) /\ Answers(s)' = Answers(s) \o <<m>>)
  BY DEF m
<1>10. Hashing(s)'
  <2>1. Answers(s)' = <<>> =>
          Lost(s)' \/ (Counted(r, s)' /\ Len(owed'[s]) <= nbHash'["client"][s])
    <3>1. SUFFICES ASSUME Answers(s)' = <<>>, ~Lost(s)'
                   PROVE  Counted(r, s)' /\ Len(owed'[s]) <= nbHash'["client"][s]
      OBVIOUS
    <3>2. Answers(s) = <<>> /\ ~Lost(s)
      BY <1>8, <1>9, <3>1
    <3> QED
      BY <1>2, <1>3, <1>4, <1>5, <3>2
  <2> QED
    BY <1>1, <1>2, <1>4, <1>6, <2>1 DEF Hashing
<1>11. Browsing(s)'
  BY <1>1 DEF Browsing
<1>12. CASE Answers(s) = <<>>
  <2>1. Answers(s)' = <<>> \/ (/\ Answers(s)' = Answers(s) \o <<m>> /\ Answers(s)'[1] = m
                              /\ Len(Answers(s)') = 1 /\ Counted(r, s)'
                              /\ Len(owed[s]) <= nbHash["client"][s])
    <3>1. Len(Answers(s)) = 0
      BY <1>12
    <3> QED
      BY <1>3, <1>4, <1>8, <1>9, <1>12, <3>1
  <2>2. /\ EntriesComing(s)' /\ HashesComing(s)' /\ ChunkComing(s)' /\ NoQuestionComing(s)'
    BY <1>7, <2>1 DEF EntriesComing, HashesComing, ChunkComing, NoQuestionComing
  <2>3. HashComing(s)'
    <3>1. SUFFICES ASSUME Answers(s)' # <<>> PROVE HashComing(s)'
      BY DEF HashComing
    <3>2. Len(Answers(s)') + Len(owed'[s]) <= nbHash'["client"][s]
      BY <1>2, <1>5, <2>1, <3>1
    <3> QED
      BY <1>4, <1>6, <1>7, <2>1, <3>1, <3>2 DEF HashComing
  <2> QED
    BY <1>1, <1>3, <1>10, <1>11, <2>2, <2>3, ServerTalks DEF AskerOf
<1>13. CASE Answers(s) # <<>>
  <2> DEFINE h == Answers(s)[1]
  <2>1. /\ Answers(s)' # <<>> /\ Answers(s)'[1] = h /\ h \in Msg
        /\ Len(Answers(s)) >= 1
    BY <1>8, <1>9, <1>13, LenProperties
  <2>2. h.type \notin {"GET_ENTRIES", "GET_HASHES", "GET_CHUNKS", "ENTRIES_RESULT",
                       "CHUNKS_RESULT"}
    BY <1>13 DEF Conversation, Coming, EntriesComing, ChunkComing, NoQuestionComing
  <2>3. Answers(s)'[1].type \in {"HASHES_RESULT", "HASH_RESULT", "STREAM"}
    BY <2>1, <2>2 DEF Msg, MessageTypes
  <2>4. EntriesComing(s)' /\ ChunkComing(s)' /\ NoQuestionComing(s)'
    BY <2>3 DEF EntriesComing, ChunkComing, NoQuestionComing
  <2>5. HashesComing(s)'
    <3>1. SUFFICES ASSUME Answers(s)'[1].type = "HASHES_RESULT" PROVE HashesComing(s)'
      BY DEF HashesComing
    <3>2. /\ Owes(h.req, s) /\ req[h.req].left = NbHashes
          /\ \/ h.n = 0 /\ Len(Answers(s)) = 1 /\ owed[s] = <<>>
             \/ h.n = NbHashes /\ Len(Answers(s)) - 1 + Len(owed[s]) <= req[h.req].left
          /\ \A k \in 2 .. Len(Answers(s)) :
               Answers(s)[k].type = "HASH_RESULT" /\ Answers(s)[k].req = h.req
      BY <1>13, <2>1, <3>1 DEF Conversation, Coming, HashesComing
    <3>3. h.req = r /\ h.n = NbHashes
      BY <1>2, <3>2, LenProperties DEF Owes
    <3> HIDE DEF h
    <3>4. Len(Answers(s)) - 1 + Len(owed[s]) <= req[r].left
      BY <3>2, <3>3, <1>3, <1>5
    <3>5. Len(Answers(s)') - 1 + Len(owed'[s]) <= req'[r].left
      BY <1>2, <1>4, <1>5, <1>8, <1>9, <3>4
    <3>6. \A k \in 2 .. Len(Answers(s)') :
            Answers(s)'[k].type = "HASH_RESULT" /\ Answers(s)'[k].req = r
      BY <1>7, <1>8, <1>9, <3>2, <3>3
    <3> QED
      BY <1>4, <1>6, <2>1, <3>2, <3>3, <3>5, <3>6 DEF HashesComing
  <2>6. HashComing(s)'
    <3>1. SUFFICES ASSUME Answers(s)'[1].type = "HASH_RESULT" PROVE HashComing(s)'
      BY DEF HashComing
    <3>2. /\ Owes(h.req, s) /\ Counted(h.req, s)
          /\ Len(Answers(s)) + Len(owed[s]) <= nbHash["client"][s]
          /\ \A k \in 1 .. Len(Answers(s)) :
               Answers(s)[k].type = "HASH_RESULT" /\ Answers(s)[k].req = h.req
      BY <1>13, <2>1, <3>1 DEF Conversation, Coming, HashComing
    <3>3. h.req = r
      BY <1>2, <3>2, LenProperties DEF Owes
    <3> HIDE DEF h
    <3>4. Counted(r, s)'
      BY <1>4, <3>2, <3>3
    <3>5. Len(Answers(s)') + Len(owed'[s]) <= nbHash'["client"][s]
      BY <1>2, <1>5, <1>8, <1>9, <3>2
    <3>6. \A k \in 1 .. Len(Answers(s)') :
            Answers(s)'[k].type = "HASH_RESULT" /\ Answers(s)'[k].req = r
      BY <1>7, <1>8, <1>9, <3>2, <3>3
    <3> QED
      BY <1>4, <1>6, <2>1, <3>2, <3>3, <3>4, <3>5, <3>6 DEF HashComing
  <2> QED
    BY <1>1, <1>3, <1>10, <1>11, <2>4, <2>5, <2>6, ServerTalks DEF AskerOf
<1> QED
  BY <1>12, <1>13

LEMMA NextHashKeeps ==
  ASSUME IInv, NEW s \in Sockets, NextHash(s) PROVE IInv'
<1>1. /\ owed[s] # <<>> /\ owed' = [owed EXCEPT ![s] = Tail(owed[s])]
      /\ nbHash' = [nbHash EXCEPT !["server"][s] = nbHash["server"][s] - 1]
      /\ UNCHANGED <<cut, req, browse, upload, known, heard, mixed>>
  BY DEF NextHash, history
<1>2. owed[s] \in Seq(Requests) /\ Head(owed[s]) \in Requests /\ Tail(owed[s]) \in Seq(Requests)
      /\ Len(Tail(owed[s])) = Len(owed[s]) - 1 /\ Len(owed[s]) \in Nat
  <2>1. owed[s] \in Seq(Requests)
    BY DEF IInv, Typed
  <2> QED
    BY <1>1, <2>1, HeadTailProperties, LenProperties
<1>3. PICK r \in Requests : r = Head(owed[s])
  BY <1>2
<1> DEFINE m == Message("HASH_RESULT", r, 0)
<1>4. m \in Msg /\ <<m>> \in Seq(Msg)
  BY MessageTyped DEF MessageTypes
<1>5. \/ nbHash["server"][s] = 1 /\ Answer(inbox, Speaking(s), s, <<m>>, TRUE)
      \/ /\ nbHash["server"][s] # 1
         /\ Sends(inbox, Speaking(s), s, <<m>>)
         /\ sock' = [sock EXCEPT !["server"] = Speaking(s)]
  BY <1>3 DEF NextHash, Answer, Sends
<1> HIDE DEF m
<1>6. PICK S \in AllSockets, box \in [Ends -> [Sockets -> Seq(Msg)]] :
        /\ box = inbox /\ S = Speaking(s) /\ Shaped(sock["server"], S, s)
        /\ S[s].listening = sock["server"][s].listening
        /\ S[s].active \/ S[s] = sock["server"][s]
  BY SpeakingShape DEF IInv, Typed
<1>7. /\ inbox' \in [Ends -> [Sockets -> Seq(Msg)]]
      /\ Answers(s)' = IF S[s].listening /\ Open(s) THEN Answers(s) \o <<m>> ELSE Answers(s)
      /\ Questions(s)' = Questions(s)
      /\ \A d \in Ends, t \in Sockets \ {s} : inbox'[d][t] = inbox[d][t]
      /\ sock' \in [Ends -> AllSockets]
      /\ sock'["client"] = sock["client"]
      /\ Shaped(sock["server"], sock'["server"], s)
      /\ nbHash["server"][s] # 1 => sock'["server"] = S
  <2>1. /\ box["client"] = inbox["client"] /\ box["server"][s] = Questions(s)
        /\ \A d \in Ends, t \in Sockets \ {s} : box[d][t] = inbox[d][t]
        /\ Shaped(sock["server"], S, s)
    BY <1>6 DEF Questions
  <2>2. CASE nbHash["server"][s] = 1 /\ Answer(inbox, Speaking(s), s, <<m>>, TRUE)
    <3>1. Answer(box, S, s, <<m>>, TRUE)
      BY <1>6, <2>2
    <3>2. /\ inbox' \in [Ends -> [Sockets -> Seq(Msg)]]
          /\ Answers(s)' = IF S[s].listening /\ Open(s) THEN Answers(s) \o <<m>> ELSE Answers(s)
          /\ Questions(s)' = box["server"][s]
          /\ \A d \in Ends, t \in Sockets \ {s} : inbox'[d][t] = inbox[d][t]
          /\ sock' \in [Ends -> AllSockets]
          /\ sock'["client"] = sock["client"]
          /\ Shaped(sock["server"], sock'["server"], s)
      BY <1>4, <2>1, <3>1, AnswerEnds
    <3> QED
      BY <2>1, <2>2, <3>2
  <2>3. CASE /\ nbHash["server"][s] # 1
             /\ Sends(inbox, Speaking(s), s, <<m>>)
             /\ sock' = [sock EXCEPT !["server"] = Speaking(s)]
    <3>1. Sends(box, S, s, <<m>>) /\ sock' = [sock EXCEPT !["server"] = S]
      BY <1>6, <2>3
    <3>2. /\ inbox' \in [Ends -> [Sockets -> Seq(Msg)]]
          /\ Answers(s)' = IF S[s].listening /\ Open(s) THEN Answers(s) \o <<m>> ELSE Answers(s)
          /\ Questions(s)' = box["server"][s]
          /\ \A d \in Ends, t \in Sockets \ {s} : inbox'[d][t] = inbox[d][t]
      BY <1>4, <2>1, <3>1, AnswerSent
    <3>3. /\ sock' \in [Ends -> AllSockets] /\ sock'["client"] = sock["client"]
          /\ sock'["server"] = S
      BY <2>1, <3>1, ServerKeeps
    <3> QED
      BY <2>1, <3>2, <3>3
  <2> QED
    BY <1>5, <2>2, <2>3
<1>8. /\ owed' \in [Sockets -> Seq(Requests)] /\ owed'[s] = Tail(owed[s])
      /\ \A t \in Sockets \ {s} : owed'[t] = owed[t]
  BY <1>1, <1>2 DEF IInv, Typed
<1>9. /\ nbHash' \in [Ends -> [Sockets -> Int]]
      /\ nbHash'["server"][s] = nbHash["server"][s] - 1
      /\ \A d \in Ends, t \in Sockets : d # "server" \/ t # s => nbHash'[d][t] = nbHash[d][t]
  <2>1. nbHash["server"][s] \in Int /\ nbHash \in [Ends -> [Sockets -> Int]]
    BY TheEnds DEF IInv, Typed
  <2>2. nbHash["server"][s] - 1 \in Int
    BY <2>1
  <2> QED
    BY <1>1, <2>1, <2>2, EndUpdated, TheEnds
<1>10. Typed'
  BY <1>1, <1>7, <1>8, <1>9 DEF IInv, Typed, AllSockets
<1>11. ServerOnly(s)
  BY <1>1, <1>7, <1>8, <1>9 DEF ServerOnly, SameData
<1>12. sock["server"][s].born \/ upload'[s].state = "none"
  BY <1>1 DEF IInv, SocketSound, Opened
<1>13. sock["client"][s].born
  BY <1>1, OpenedFirst DEF IInv, SocketSound
<1>14. ASSUME Reliable(s)
       PROVE  Conversation(s)'
  <2>1. Conversation(s)
    BY <1>14 DEF IInv, SocketSound
  <2>2. ~Uploading(s) /\ nbHash["server"][s] = Len(owed[s]) /\ browse[s] = None
    BY <1>1, <2>1 DEF Conversation, Hashing, Browsing
  <2>3. Lost(s) => Lost(s)'
    BY <1>1, <1>7, StillLost
  <2>4. Open(s) => ~Lost(s)
    BY DEF Open, Lost
  <2>5. \/ Answers(s)' = Answers(s)
        \/ ~Lost(s) /\ Answers(s)' = Answers(s) \o <<m>>
    BY <1>7, <2>4
  <2>6. Serving(s)'
    <3>1. SUFFICES ASSUME owed'[s] # <<>>
                   PROVE  \/ sock'["server"][s].active \/ sock'["server"][s].closing
                          \/ ~sock'["server"][s].pooled
      BY <1>1, <2>2 DEF Serving, Uploading
    <3>2. nbHash["server"][s] # 1
      <4>1. Len(Tail(owed[s])) # 0
        BY <1>2, <1>8, <3>1, EmptySeq
      <4> QED
        BY <1>2, <2>2, <4>1
    <3>3. \/ sock["server"][s].active \/ sock["server"][s].closing \/ ~sock["server"][s].pooled
      BY <1>1, <2>1 DEF Conversation, Serving
    <3> QED
      BY <1>6, <1>7, <3>2, <3>3
  <2>7. Answers(s) \in Seq(Msg)
    BY ServerTyped
  <2> QED
    BY <1>1, <1>3, <1>7, <1>8, <1>9, <2>1, <2>3, <2>5, <2>6, <2>7, TheEnds, NextHashTalks
    DEF IInv, m
<1> QED
  BY <1>10, <1>11, <1>12, <1>13, <1>14, ServerOnlyKeeps

(* The chunk is announced, or there is none, and the server starts to send *)
(* it, or not.                                                             *)
LEMMA ChunkAnnounced ==
  ASSUME Typed, NEW s \in Sockets, NEW r \in Requests, NEW n \in Int, Conversation(s),
         AskerOf(r, s, "chunk"),
         req' = req, heard' = heard, sock'["client"] = sock["client"], owed' = owed,
         browse' = browse, browse[s] = None, owed[s] = <<>>, Questions(s)' = <<>>,
         Uploading(s)' => /\ upload'[s].req = r
                          /\ sock'["server"][s].active /\ ~sock'["server"][s].listening,
         Answers(s)' = <<>> \/ Junk(s)' \/ Answers(s)' = <<Message("CHUNKS_RESULT", r, n)>>
  PROVE  Conversation(s)'
<1> DEFINE m == Message("CHUNKS_RESULT", r, n)
<1>1. m.type = "CHUNKS_RESULT" /\ m.req = r
  BY DEF Message
<1>2. AskerOf(r, s, "chunk")'
  BY StillAsks
<1>3. Serving(s)' /\ Browsing(s)' /\ Hashing(s)'
  BY DEF Serving, Browsing, Hashing
<1> HIDE DEF m
<1>4. \/ Answers(s)' = <<>> \/ (Answers(s)' # <<>> /\ Answers(s)'[1].type = "STREAM")
      \/ Answers(s)' # <<>> /\ Answers(s)'[1] = m /\ Len(Answers(s)') = 1
  BY DEF Junk, m
<1>5. ChunkComing(s)'
  <2>1. SUFFICES ASSUME Answers(s)' # <<>> /\ Answers(s)'[1].type = "CHUNKS_RESULT"
                 PROVE  ChunkComing(s)'
    BY DEF ChunkComing
  <2>2. Answers(s)'[1] = m /\ Len(Answers(s)') = 1
    BY <1>4, <2>1
  <2>3. \A k \in 2 .. Len(Answers(s)') : FALSE
    BY <2>2
  <2> QED
    BY <1>1, <1>2, <2>2, <2>3 DEF ChunkComing
<1>6. /\ EntriesComing(s)' /\ HashesComing(s)' /\ HashComing(s)' /\ NoQuestionComing(s)'
  BY <1>1, <1>4 DEF EntriesComing, HashesComing, HashComing, NoQuestionComing
<1> QED
  BY <1>3, <1>5, <1>6, ServerTalks DEF AskerOf

(* The socket that the uploader is given does not listen any more.         *)
LEMMA DeafShape ==
  ASSUME IInv, NEW s \in Sockets
  PROVE  LET T == [Heard(s) EXCEPT ![s].listening = FALSE]
         IN  /\ T \in AllSockets /\ Shaped(sock["server"], T, s)
             /\ T[s].active /\ ~T[s].listening
<1>1. /\ Heard(s) \in AllSockets /\ Shaped(sock["server"], Heard(s), s) /\ Heard(s)[s].active
  BY HeardShape
<1> DEFINE T == [Heard(s) EXCEPT ![s].listening = FALSE]
<1>2. /\ T \in AllSockets /\ ~T[s].listening
      /\ T[s].active = Heard(s)[s].active /\ T[s].pooled = Heard(s)[s].pooled
      /\ T[s].born = Heard(s)[s].born
      /\ \A t \in Sockets \ {s} : T[t] = Heard(s)[t]
  <2>1. PICK S \in AllSockets : S = Heard(s)
    BY <1>1
  <2>2. S[s] \in PeerMessageSocket
    BY DEF AllSockets
  <2>3. LET U == [S EXCEPT ![s].listening = FALSE]
        IN  /\ U \in AllSockets /\ ~U[s].listening
            /\ U[s].active = S[s].active /\ U[s].pooled = S[s].pooled
            /\ U[s].born = S[s].born
            /\ \A t \in Sockets \ {s} : U[t] = S[t]
    BY <2>2 DEF AllSockets, PeerMessageSocket
  <2> QED
    BY <2>1, <2>3
<1> QED
  BY <1>1, <1>2 DEF Shaped

LEMMA GetChunksKeeps ==
  ASSUME IInv, NEW s \in Sockets, GetChunks(s) PROVE IInv'
<1>1. /\ Questions(s) # <<>> /\ Head(Questions(s)).type = "GET_CHUNKS"
      /\ sock["server"][s].listening /\ Alive("server", s)
      /\ UNCHANGED <<cut, req, nbHash, browse, owed, known, heard, mixed>>
  BY DEF GetChunks, Readable, Questions, history
<1>2. sock["client"][s].born /\ Head(Questions(s)).req \in Requests
  BY <1>1, QuestionTaken DEF Msg
<1>3. PICK r \in Requests : r = Head(Questions(s)).req
  BY <1>2
<1> DEFINE m(n) == Message("CHUNKS_RESULT", r, n)
           T == [Heard(s) EXCEPT ![s].listening = FALSE]
<1>4. \A n \in Int : m(n) \in Msg /\ <<m(n)>> \in Seq(Msg)
  BY MessageTyped DEF MessageTypes
<1>5. known[r] \in 0 .. NbPieces /\ NbPieces \in Nat /\ known[r] \in Int
  BY PoolAssumption DEF IInv, Typed
<1>6. PICK n \in Int :
        \/ Answer(Took(s), Heard(s), s, <<m(n)>>, TRUE) /\ upload' = upload
        \/ /\ inbox' = [Took(s) EXCEPT !["client"][s] = IF Open(s) THEN @ \o <<m(n)>> ELSE @]
           /\ sock' = [sock EXCEPT !["server"] = T]
           /\ upload' = IF sock["server"][s].pooled
                        THEN [upload EXCEPT ![s] = [req |-> r, state |-> "run", sent |-> 0]]
                        ELSE upload
  <2>1. DontHave \in Int
    BY DEF DontHave
  <2> QED
    BY <1>3, <1>5, <2>1 DEF GetChunks, Questions
<1>7. m(n) \in Msg /\ <<m(n)>> \in Seq(Msg)
  BY <1>4
<1>8. T \in AllSockets /\ Shaped(sock["server"], T, s) /\ T[s].active /\ ~T[s].listening
  BY DeafShape
<1> HIDE DEF m, T
<1>9. Replied(s, <<m(n)>>)
  <2>1. CASE Answer(Took(s), Heard(s), s, <<m(n)>>, TRUE)
    BY <1>1, <1>7, <2>1, ReplyEnds
  <2>2. CASE /\ inbox' = [Took(s) EXCEPT !["client"][s] =
                            IF Open(s) THEN @ \o <<m(n)>> ELSE @]
             /\ sock' = [sock EXCEPT !["server"] = T]
    <3>1. PICK box \in [Ends -> [Sockets -> Seq(Msg)]] :
            /\ box = Took(s)
            /\ box["client"] = inbox["client"] /\ box["server"][s] = Tail(Questions(s))
            /\ \A d \in Ends, t \in Sockets \ {s} : box[d][t] = inbox[d][t]
      BY <1>1, QuestionTaken
    <3>2. box["client"][s] = Answers(s) /\ Answers(s) \in Seq(Msg)
      BY <3>1, ServerTyped DEF Answers
    <3>3. Answers(s) \o <<m(n)>> \in Seq(Msg)
      BY <1>7, <3>2, ConcatProperties
    <3>4. PICK a \in Seq(Msg) : a = IF Open(s) THEN Answers(s) \o <<m(n)>> ELSE Answers(s)
      BY <3>2, <3>3
    <3>5. inbox' = [box EXCEPT !["client"][s] = a]
      BY <2>2, <3>1, <3>2, <3>4
    <3>6. /\ inbox' \in [Ends -> [Sockets -> Seq(Msg)]]
          /\ inbox'["client"][s] = a
          /\ \A d \in Ends, t \in Sockets : d # "client" \/ t # s => inbox'[d][t] = box[d][t]
      BY <3>5, EndUpdated, TheEnds
    <3>7. /\ sock' \in [Ends -> AllSockets] /\ sock'["client"] = sock["client"]
          /\ sock'["server"] = T
      BY <1>8, <2>2, ServerKeeps
    <3>8. Answers(s)' = a /\ Questions(s)' = Tail(Questions(s))
      BY <3>1, <3>6, TheEnds DEF Answers, Questions
    <3>9. \A d \in Ends, t \in Sockets \ {s} : inbox'[d][t] = inbox[d][t]
      BY <3>1, <3>6
    <3> QED
      BY <1>1, <1>8, <3>4, <3>6, <3>7, <3>8, <3>9 DEF Replied
  <2> QED
    BY <1>6, <2>1, <2>2
<1>10. \/ upload' = upload
       \/ /\ sock["server"][s].pooled /\ sock'["server"] = T
          /\ upload' = [upload EXCEPT ![s] = [req |-> r, state |-> "run", sent |-> 0]]
  <2>1. CASE upload' = upload
    BY <2>1
  <2>2. CASE /\ sock' = [sock EXCEPT !["server"] = T] /\ sock["server"][s].pooled
             /\ upload' = [upload EXCEPT ![s] = [req |-> r, state |-> "run", sent |-> 0]]
    BY <1>8, <2>2, ServerKeeps
  <2> QED
    BY <1>6, <2>1, <2>2
<1>11. /\ upload' \in [Sockets -> ChunkUploader]
       /\ \A t \in Sockets \ {s} : upload'[t] = upload[t]
       /\ upload'[s] = upload[s]
            \/ (upload'[s].state = "run" /\ upload'[s].req = r /\ upload'[s].sent = 0)
  <2> DEFINE u == [req |-> r, state |-> "run", sent |-> 0]
  <2>1. u \in ChunkUploader /\ u.state = "run" /\ u.req = r /\ u.sent = 0
    BY DEF ChunkUploader
  <2>2. upload \in [Sockets -> ChunkUploader]
    BY DEF IInv, Typed
  <2>3. upload' = upload \/ upload' = [upload EXCEPT ![s] = u]
    BY <1>10
  <2> HIDE DEF u
  <2> QED
    BY <2>1, <2>2, <2>3
<1>12. \A t \in Sockets : upload'[t].state = "run" =>
         upload'[t].req \in Requests /\ upload'[t].sent \in 0 .. NbPieces
  <2>1. ASSUME NEW t \in Sockets, upload'[t].state = "run"
        PROVE  upload'[t].req \in Requests /\ upload'[t].sent \in 0 .. NbPieces
    <3>1. CASE upload'[t] = upload[t]
      BY <2>1, <3>1 DEF IInv, Typed
    <3>2. CASE upload'[t] # upload[t]
      <4>1. upload'[t].req = r /\ upload'[t].sent = 0
        BY <1>11, <3>2
      <4> QED
        BY <1>5, <4>1
    <3> QED
      BY <3>1, <3>2
  <2> QED
    BY <2>1
<1>13. Typed'
  BY <1>1, <1>9, <1>11, <1>12 DEF IInv, Typed, AllSockets, Replied
<1>14. ServerOnly(s)
  BY <1>1, <1>9, <1>11 DEF ServerOnly, SameData, Replied
<1>15. sock["server"][s].born \/ upload'[s].state = "none"
  BY <1>1, <1>10 DEF IInv, SocketSound, Opened
<1>16. ASSUME Reliable(s)
       PROVE  Conversation(s)'
  <2>1. Conversation(s)
    BY <1>16 DEF IInv, SocketSound
  <2>2. /\ AskerOf(r, s, "chunk") /\ Tail(Questions(s)) = <<>>
        /\ browse[s] = None /\ owed[s] = <<>>
        /\ Answers(s) = <<>> \/ Junk(s)
    BY <1>1, <1>3, <2>1, QuestionOf DEF AskerOf
  <2>3. ~Uploading(s)
    BY <1>1, <2>1 DEF Conversation, Serving
  <2>4. Answers(s) \in Seq(Msg)
    BY ServerTyped
  <2>5. Answers(s)' = <<>> \/ Junk(s)' \/ Answers(s)' = <<m(n)>>
    <3>1. Answers(s)' \in {Answers(s), Answers(s) \o <<m(n)>>}
      BY <1>9 DEF Replied
    <3> QED
      BY <1>7, <2>2, <2>4, <3>1, Appended
  <2>6. Uploading(s)' => /\ upload'[s].req = r
                         /\ sock'["server"][s].active /\ ~sock'["server"][s].listening
    <3>1. SUFFICES ASSUME Uploading(s)'
                   PROVE  /\ upload'[s].req = r
                          /\ sock'["server"][s].active /\ ~sock'["server"][s].listening
      OBVIOUS
    <3>2. upload' # upload
      BY <2>3, <3>1 DEF Uploading
    <3> QED
      BY <1>8, <1>10, <1>11, <2>3, <3>1, <3>2 DEF Uploading
  <2>7. /\ req' = req /\ heard' = heard /\ owed' = owed /\ browse' = browse
        /\ sock'["client"] = sock["client"] /\ Questions(s)' = <<>>
    BY <1>1, <1>9, <2>2 DEF Replied
  <2> QED
    BY <2>1, <2>2, <2>5, <2>6, <2>7, ChunkAnnounced DEF IInv, m
<1> QED
  BY <1>2, <1>13, <1>14, <1>15, <1>16, ServerOnlyKeeps

(* What is sent of a chunk comes after what was sent.                      *)
LEMMA DataAppended ==
  ASSUME NEW a \in Seq(Msg), NEW data \in Seq(Msg), NEW q,
         \A k \in 1 .. Len(data) : data[k].type = "STREAM" /\ data[k].req = q
  PROVE  /\ a \o data \in Seq(Msg)
         /\ a # <<>> => (a \o data) # <<>> /\ (a \o data)[1] = a[1]
         /\ a = <<>> /\ a \o data # <<>> => (a \o data)[1].type = "STREAM"
         /\ \A k \in 1 .. Len(a \o data) :
              \/ k \in 1 .. Len(a) /\ (a \o data)[k] = a[k]
              \/ (a \o data)[k].type = "STREAM" /\ (a \o data)[k].req = q
<1>1. Len(a) \in Nat /\ Len(data) \in Nat
  BY LenProperties
<1>2. /\ a \o data \in Seq(Msg) /\ Len(a \o data) = Len(a) + Len(data)
      /\ \A k \in 1 .. Len(a) + Len(data) :
           (a \o data)[k] = IF k <= Len(a) THEN a[k] ELSE data[k - Len(a)]
  BY ConcatProperties
<1>3. ASSUME NEW k \in 1 .. Len(a \o data)
      PROVE  \/ k \in 1 .. Len(a) /\ (a \o data)[k] = a[k]
             \/ (a \o data)[k].type = "STREAM" /\ (a \o data)[k].req = q
  <2>1. CASE k <= Len(a)
    BY <1>1, <1>2, <2>1
  <2>2. CASE ~(k <= Len(a))
    <3>1. k - Len(a) \in 1 .. Len(data)
      BY <1>1, <1>2, <2>2
    <3>2. (a \o data)[k] = data[k - Len(a)]
      BY <1>1, <1>2, <2>2
    <3> QED
      BY <3>1, <3>2
  <2> QED
    BY <2>1, <2>2
<1>4. ASSUME a # <<>> PROVE (a \o data) # <<>> /\ (a \o data)[1] = a[1]
  <2>1. Len(a) >= 1
    BY <1>1, <1>4, EmptySeq
  <2>2. (a \o data)[1] = a[1] /\ Len(a \o data) # 0
    BY <1>1, <1>2, <2>1
  <2> QED
    BY <2>2, EmptySeq
<1>5. ASSUME a = <<>>, a \o data # <<>> PROVE (a \o data)[1].type = "STREAM"
  <2>1. a \o data = data
    BY <1>5, ConcatEmptySeq
  <2>2. 1 \in 1 .. Len(data)
    BY <1>1, <1>5, <2>1, EmptySeq
  <2> QED
    BY <2>1, <2>2
<1> QED
  BY <1>2, <1>3, <1>4, <1>5

LEMMA UploadBufferKeeps ==
  ASSUME IInv, NEW s \in Sockets, UploadBuffer(s) PROVE IInv'
<1>1. /\ upload[s].state = "run" /\ upload[s].sent < known[upload[s].req]
      /\ UNCHANGED <<sock, cut, req, nbHash, browse, owed, known, heard, mixed>>
  BY DEF UploadBuffer, history
<1>2. PICK q \in Requests, sent \in 0 .. NbPieces :
        q = upload[s].req /\ sent = upload[s].sent /\ sent < known[q]
  BY <1>1 DEF IInv, Typed
<1>3. NbPieces \in Nat /\ PerBuffer \in Nat \ {0}
  BY PoolAssumption
<1>4. PICK filled \in Nat :
        /\ filled = IF sent + PerBuffer > NbPieces THEN NbPieces - sent ELSE PerBuffer
        /\ sent + filled \in 0 .. NbPieces
  BY <1>3
<1> DEFINE data == [k \in 1 .. filled |-> Message("STREAM", q, 0)]
<1>5. /\ upload' = [upload EXCEPT ![s].sent = sent + filled]
      /\ inbox' = IF Open(s) THEN [inbox EXCEPT !["client"][s] = @ \o data] ELSE inbox
  BY <1>2, <1>4 DEF UploadBuffer
<1>6. /\ data \in Seq(Msg)
      /\ \A k \in 1 .. Len(data) : data[k].type = "STREAM" /\ data[k].req = q
  <2>1. /\ Message("STREAM", q, 0) \in Msg
        /\ Message("STREAM", q, 0).type = "STREAM" /\ Message("STREAM", q, 0).req = q
    BY MessageTyped DEF MessageTypes
  <2>2. data \in Seq(Msg) /\ Len(data) = filled
    BY <2>1
  <2> QED
    BY <2>1, <2>2
<1> HIDE DEF data
<1>7. Answers(s) \in Seq(Msg)
  BY ServerTyped
<1>8. /\ Answers(s) \o data \in Seq(Msg)
      /\ Answers(s) # <<>> => Answers(s) \o data # <<>>
                              /\ (Answers(s) \o data)[1] = Answers(s)[1]
      /\ Answers(s) = <<>> /\ Answers(s) \o data # <<>> =>
           (Answers(s) \o data)[1].type = "STREAM"
      /\ \A k \in 1 .. Len(Answers(s) \o data) :
           \/ k \in 1 .. Len(Answers(s)) /\ (Answers(s) \o data)[k] = Answers(s)[k]
           \/ (Answers(s) \o data)[k].type = "STREAM" /\ (Answers(s) \o data)[k].req = q
  BY <1>6, <1>7, DataAppended
<1>9. /\ inbox' \in [Ends -> [Sockets -> Seq(Msg)]]
      /\ Answers(s)' = IF Open(s) THEN Answers(s) \o data ELSE Answers(s)
      /\ Questions(s)' = Questions(s)
      /\ \A d \in Ends, t \in Sockets \ {s} : inbox'[d][t] = inbox[d][t]
  <2>1. inbox \in [Ends -> [Sockets -> Seq(Msg)]]
    BY DEF IInv, Typed
  <2>2. CASE Open(s)
    <3>1. inbox' = [inbox EXCEPT !["client"][s] = Answers(s) \o data]
      BY <1>5, <2>2 DEF Answers
    <3>2. /\ inbox' \in [Ends -> [Sockets -> Seq(Msg)]]
          /\ inbox'["client"][s] = Answers(s) \o data
          /\ \A d \in Ends, t \in Sockets : d # "client" \/ t # s => inbox'[d][t] = inbox[d][t]
      BY <1>8, <2>1, <3>1, EndUpdated, TheEnds
    <3>3. Answers(s)' = Answers(s) \o data /\ Questions(s)' = Questions(s)
      BY <3>2, TheEnds DEF Answers, Questions
    <3>4. \A d \in Ends, t \in Sockets \ {s} : inbox'[d][t] = inbox[d][t]
      BY <3>2
    <3> QED
      BY <2>2, <3>2, <3>3, <3>4
  <2>3. CASE ~Open(s)
    <3>1. inbox' = inbox
      BY <1>5, <2>3
    <3> QED
      BY <2>1, <2>3, <3>1 DEF Answers, Questions
  <2> QED
    BY <2>2, <2>3
<1>10. /\ upload' \in [Sockets -> ChunkUploader]
       /\ upload'[s].state = "run" /\ upload'[s].req = q /\ upload'[s].sent = sent + filled
       /\ \A t \in Sockets \ {s} : upload'[t] = upload[t]
  <2>1. upload \in [Sockets -> ChunkUploader]
    BY DEF IInv, Typed
  <2>2. PICK u \in ChunkUploader : u = upload[s] /\ u.state = "run" /\ u.req = q
    BY <1>1, <1>2, <2>1
  <2> DEFINE w == [u EXCEPT !.sent = sent + filled]
  <2>3. /\ w \in ChunkUploader
        /\ w.state = "run" /\ w.req = q /\ w.sent = sent + filled
    <3>1. sent + filled \in Int
      BY <1>3, <1>4
    <3> QED
      BY <2>2, <3>1 DEF ChunkUploader
  <2>4. upload' = [upload EXCEPT ![s] = w]
    BY <1>5, <2>1, <2>2
  <2> HIDE DEF w
  <2> QED
    BY <2>1, <2>3, <2>4
<1>11. \A t \in Sockets : upload'[t].state = "run" =>
         upload'[t].req \in Requests /\ upload'[t].sent \in 0 .. NbPieces
  BY <1>4, <1>10 DEF IInv, Typed
<1>12. Typed'
  BY <1>1, <1>9, <1>10, <1>11 DEF IInv, Typed
<1>13. ServerOnly(s)
  <2>1. Shaped(sock["server"], sock'["server"], s)
    BY <1>1, ServerTyped DEF Shaped
  <2> QED
    BY <1>1, <1>9, <1>10, <2>1 DEF ServerOnly, SameData
<1>14. sock["server"][s].born /\ sock["client"][s].born
  BY <1>1, OpenedFirst DEF IInv, SocketSound, Opened
<1>15. ASSUME Reliable(s)
       PROVE  Conversation(s)'
  <2>1. Conversation(s)
    BY <1>15 DEF IInv, SocketSound
  <2>2. Uploading(s) /\ Uploading(s)' /\ upload[s].req = q /\ upload'[s].req = q
    BY <1>1, <1>2, <1>10 DEF Uploading
  <2>3. browse[s] = None /\ owed[s] = <<>>
    BY <2>1, <2>2 DEF Conversation, Browsing, Hashing
  <2>4. \A e \in Requests : e \in Holders(s)' <=> e \in Holders(s)
    BY <1>1 DEF Holders, Running
  <2>5. Held(s)' /\ Heeded(s)' /\ Serving(s)' /\ Browsing(s)' /\ Hashing(s)'
    BY <1>1, <2>1, <2>2, <2>3, <2>4
    DEF Conversation, Held, Heeded, Serving, Browsing, Hashing, Holders
  <2>6. /\ Answers(s) # <<>> => Answers(s)' # <<>> /\ Answers(s)'[1] = Answers(s)[1]
        /\ Answers(s) = <<>> /\ Answers(s)' # <<>> => Answers(s)'[1].type = "STREAM"
        /\ \A k \in 1 .. Len(Answers(s)') :
             \/ k \in 1 .. Len(Answers(s)) /\ Answers(s)'[k] = Answers(s)[k]
             \/ Answers(s)'[k].type = "STREAM" /\ Answers(s)'[k].req = q
    BY <1>8, <1>9
  <2>7. Asked(s)'
    <3>1. SUFFICES ASSUME Questions(s) # <<>> PROVE Asked(s)'
      BY <1>9 DEF Asked
    <3>2. Answers(s)' = <<>> \/ Junk(s)'
      BY <2>1, <2>6, <3>1 DEF Conversation, Asked, Junk
    <3>3. Holders(s)' = Holders(s)
      BY <1>1 DEF Holders, Running
    <3> QED
      BY <1>1, <1>9, <2>1, <2>3, <3>1, <3>2, <3>3 DEF Conversation, Asked, Asker, Request
  <2>8. Answers(s)' # <<>> => Answers(s)'[1].type \in {"STREAM", "CHUNKS_RESULT"}
    <3>1. SUFFICES ASSUME Answers(s) # <<>>
                   PROVE  Answers(s)[1].type \in {"STREAM", "CHUNKS_RESULT"}
      BY <2>6
    <3>2. Answers(s)[1] \in Msg
      <4>1. 1 \in 1 .. Len(Answers(s))
        BY <1>7, <3>1, EmptySeq, LenProperties
      <4> QED
        BY <1>7, <4>1
    <3> QED
      BY <2>1, <2>2, <3>1, <3>2
      DEF Conversation, Coming, EntriesComing, HashesComing, HashComing, NoQuestionComing,
          Msg, MessageTypes
  <2>9. EntriesComing(s)' /\ HashesComing(s)' /\ HashComing(s)' /\ NoQuestionComing(s)'
    BY <2>8 DEF EntriesComing, HashesComing, HashComing, NoQuestionComing
  <2>10. ChunkComing(s)'
    <3>1. SUFFICES ASSUME Answers(s)' # <<>> /\ Answers(s)'[1].type = "CHUNKS_RESULT"
                   PROVE  ChunkComing(s)'
      BY DEF ChunkComing
    <3>2. Answers(s) # <<>> /\ Answers(s)'[1] = Answers(s)[1]
      BY <2>6, <3>1
    <3>3. /\ AskerOf(Answers(s)[1].req, s, "chunk") /\ Answers(s)[1].req = q
          /\ \A k \in 2 .. Len(Answers(s)) :
               Answers(s)[k].type = "STREAM" /\ Answers(s)[k].req = q
      BY <2>1, <2>2, <3>1, <3>2 DEF Conversation, Coming, ChunkComing
    <3>4. AskerOf(q, s, "chunk")'
      BY <1>1, <3>3, StillAsks
    <3>5. Len(Answers(s)) \in Nat /\ Answers(s)' \in Seq(Msg) /\ Len(Answers(s)') \in Nat
      BY <1>7, <1>8, <1>9, LenProperties
    <3>6. \A k \in 2 .. Len(Answers(s)') :
            Answers(s)'[k].type = "STREAM" /\ Answers(s)'[k].req = q
      BY <2>6, <3>3, <3>5
    <3> QED
      BY <1>1, <2>2, <2>3, <3>2, <3>3, <3>4, <3>6 DEF ChunkComing
  <2>11. Streaming(s)'
    <3>1. SUFFICES ASSUME NEW e \in Requests, e \in Holders(s), req[e].state = "stream"
                   PROVE  /\ upload'[s].req = e
                          /\ \A k \in 1 .. Len(Answers(s)') :
                               Answers(s)'[k].type = "STREAM" /\ Answers(s)'[k].req = e
      BY <1>1, <2>4 DEF Streaming, Holders
    <3>2. /\ e = q
          /\ \A k \in 1 .. Len(Answers(s)) :
               Answers(s)[k].type = "STREAM" /\ Answers(s)[k].req = e
      BY <2>1, <2>2, <3>1 DEF Conversation, Coming, Streaming
    <3> QED
      BY <2>2, <2>6, <3>2
  <2> QED
    BY <2>5, <2>7, <2>9, <2>10, <2>11 DEF Conversation, Coming
<1> QED
  BY <1>12, <1>13, <1>14, <1>15, ServerOnlyKeeps

-----------------------------------------------------------------------------
LEMMA InitSound == Init => IInv
<1> SUFFICES ASSUME Init PROVE IInv
  OBVIOUS
<1>1. PICK kind \in [Requests -> Kinds] :
        req = [r \in Requests |-> [kind |-> kind[r], state |-> "new", socket |-> 0, left |-> 0]]
  BY DEF Init
<1>2. /\ NoSocket \in PeerMessageSocket
      /\ ~NoSocket.pooled /\ ~NoSocket.born /\ ~NoSocket.listening
  BY DEF NoSocket, PeerMessageSocket
<1>3. NoUpload \in ChunkUploader /\ NoUpload.state = "none"
  BY DEF NoUpload, ChunkUploader
<1>4. /\ <<>> \in Seq(Msg) /\ <<>> \in Seq(Requests)
      /\ 0 \in Int
  OBVIOUS
<1>5. /\ req \in [Requests -> Result]
      /\ \A r \in Requests : req[r].state = "new" /\ req[r].socket = 0
  BY <1>1 DEF Result, States
<1>6. \A s \in Sockets :
        /\ sock["client"][s] = NoSocket /\ sock["server"][s] = NoSocket
        /\ inbox["client"][s] = <<>> /\ inbox["server"][s] = <<>>
        /\ browse[s] = None /\ owed[s] = <<>> /\ upload[s] = NoUpload
  BY TheEnds DEF Init
<1>7. Typed
  <2>1. sock \in [Ends -> [Sockets -> PeerMessageSocket]]
    BY <1>2 DEF Init
  <2>2. inbox \in [Ends -> [Sockets -> Seq(Msg)]]
    BY <1>4 DEF Init
  <2>3. /\ nbHash \in [Ends -> [Sockets -> Int]]
        /\ browse \in [Sockets -> Requests \cup {None}]
        /\ cut \in SUBSET Sockets
        /\ known \in [Requests -> 0 .. NbPieces]
        /\ heard \in [Requests -> SUBSET Requests] /\ mixed \in SUBSET Sockets
    BY <1>4 DEF Init
  <2>4. owed \in [Sockets -> Seq(Requests)]
    BY <1>4 DEF Init
  <2>5. upload \in [Sockets -> ChunkUploader]
    BY <1>3 DEF Init
  <2>6. \A s \in Sockets : upload[s].state # "run"
    BY <1>3, <1>6
  <2> QED
    BY <1>5, <2>1, <2>2, <2>3, <2>4, <2>5, <2>6 DEF Typed
<1>8. ASSUME NEW r \in Requests PROVE RequestSound(r)
  <2>1. heard[r] = {} /\ req[r].state = "new" /\ req[r].socket = 0
    BY <1>5 DEF Init
  <2>2. \A s \in Sockets : s # 0
    BY DEF Sockets
  <2> QED
    BY <2>1, <2>2 DEF RequestSound
<1>9. ASSUME NEW s \in Sockets PROVE SocketSound(s)
  <2>1. Opened(s)
    BY <1>2, <1>3, <1>6 DEF Opened, Answers, Questions
  <2>2. ~Reliable(s)
    BY <1>2, <1>6 DEF Reliable
  <2> QED
    BY <2>1, <2>2 DEF SocketSound
<1> QED
  BY <1>7, <1>8, <1>9 DEF IInv

LEMMA StutterSound == ASSUME IInv, UNCHANGED vars PROVE IInv'
<1>1. /\ sock' = sock /\ inbox' = inbox /\ cut' = cut /\ req' = req /\ nbHash' = nbHash
      /\ browse' = browse /\ owed' = owed /\ upload' = upload /\ known' = known
      /\ heard' = heard /\ mixed' = mixed
  BY DEF vars, service, history
<1>2. Typed'
  BY <1>1 DEF IInv, Typed
<1>3. ASSUME NEW r \in Requests PROVE RequestSound(r)'
  BY <1>1 DEF IInv, RequestSound
<1>4. ASSUME NEW s \in Sockets PROVE SocketSound(s)'
  <2>1. Aside(s)
    BY <1>1 DEF Aside, SameRequests
  <2> QED
    BY <2>1, AsideKeeps DEF IInv
<1> QED
  BY <1>2, <1>3, <1>4 DEF IInv

LEMMA NextSound == ASSUME IInv, [Next]_vars PROVE IInv'
<1>1. CASE UNCHANGED vars
  BY <1>1, StutterSound
<1>2. ASSUME NEW r \in Requests,
             \/ Start(r) \/ Refuse(r) \/ Drop(r) \/ Timeout(r)
             \/ ReadStream(r) \/ AbortStream(r) \/ ChunkGrows(r)
      PROVE  IInv'
  <2>1. CASE Start(r)
    BY <2>1, StartKeeps
  <2>2. CASE Refuse(r)
    BY <2>2, RefuseKeeps
  <2>3. CASE Drop(r)
    BY <2>3, DropKeeps
  <2>4. CASE Timeout(r)
    BY <2>4, TimeoutKeeps
  <2>5. CASE ReadStream(r)
    BY <2>5, ReadStreamKeeps
  <2>6. CASE AbortStream(r)
    BY <2>6, AbortStreamKeeps
  <2>7. CASE ChunkGrows(r)
    BY <2>7, ChunkGrowsKeeps
  <2> QED
    BY <1>2, <2>1, <2>2, <2>3, <2>4, <2>5, <2>6, <2>7
<1>3. ASSUME NEW s \in Sockets,
             \/ ReadAnswer(s) \/ Accept(s)
             \/ GetEntries(s) \/ EntriesResult(s) \/ GetHashes(s) \/ NextHash(s)
             \/ GetChunks(s)
             \/ UploadBuffer(s) \/ UploadFinished(s) \/ UploadTimeout(s)
             \/ Cut(s)
      PROVE  IInv'
  <2>1. CASE ReadAnswer(s)
    BY <2>1, ReadAnswerKeeps
  <2>2. CASE Accept(s)
    BY <2>2, AcceptKeeps
  <2>3. CASE GetEntries(s)
    BY <2>3, GetEntriesKeeps
  <2>4. CASE EntriesResult(s)
    BY <2>4, EntriesResultKeeps
  <2>5. CASE GetHashes(s)
    BY <2>5, GetHashesKeeps
  <2>6. CASE NextHash(s)
    BY <2>6, NextHashKeeps
  <2>7. CASE GetChunks(s)
    BY <2>7, GetChunksKeeps
  <2>8. CASE UploadBuffer(s)
    BY <2>8, UploadBufferKeeps
  <2>9. CASE UploadFinished(s)
    BY <2>9, UploadFinishedKeeps
  <2>10. CASE UploadTimeout(s)
    BY <2>10, UploadTimeoutKeeps
  <2>11. CASE Cut(s)
    BY <2>11, CutKeeps
  <2> QED
    BY <1>3, <2>1, <2>2, <2>3, <2>4, <2>5, <2>6, <2>7, <2>8, <2>9, <2>10, <2>11
<1>4. ASSUME NEW e \in Ends, NEW s \in Sockets,
             Inactive(e, s) \/ Disconnected(e, s) \/ SocketClosed(e, s)
      PROVE  IInv'
  <2>1. CASE Inactive(e, s)
    BY <2>1, InactiveKeeps
  <2>2. CASE Disconnected(e, s)
    BY <2>2, DisconnectedKeeps
  <2>3. CASE SocketClosed(e, s)
    BY <2>3, SocketClosedKeeps
  <2> QED
    BY <1>4, <2>1, <2>2, <2>3
<1> QED
  BY <1>1, <1>2, <1>3, <1>4 DEF Next

(* At any time, what is on a reliable connection is one conversation: with *)
(* the request that waits on it, or with one that timed out or was dropped *)
(* and had none after it until all of its answer had come; whatever the    *)
(* other connections, the closings and the losses                          *)
(* (ConnectionPool::getASocket, PeerMessageSocket::onNewMessage).          *)
THEOREM InvariantHolds == Spec => []IInv
<1>1. Init => IInv
  BY InitSound
<1>2. IInv /\ [Next]_vars => IInv'
  BY NextSound
<1> QED
  BY <1>1, <1>2, PTL DEF Spec

(* Every variable keeps its type: every message is one the peers know, of  *)
(* a request that was made, and no chunk has more known bytes than it has  *)
(* bytes (PeerMessageSocket::onNewMessage, IChunk::getKnownBytes).         *)
THEOREM TypeCorrect == Spec => []TypeOK
<1>1. IInv => TypeOK
  <2> SUFFICES ASSUME IInv PROVE TypeOK
    OBVIOUS
  <2>1. ASSUME NEW e \in Ends, NEW s \in Sockets
        PROVE  /\ sock[e][s] \in PeerMessageSocket
               /\ \A k \in 1 .. Len(inbox[e][s]) :
                    inbox[e][s][k].type \in MessageTypes /\ inbox[e][s][k].req \in Requests
               /\ nbHash[e][s] \in Int
    <3>1. /\ sock[e][s] \in PeerMessageSocket /\ nbHash[e][s] \in Int
          /\ inbox[e][s] \in Seq(Msg)
      BY DEF IInv, Typed
    <3>2. \A k \in 1 .. Len(inbox[e][s]) : inbox[e][s][k] \in Msg
      BY <3>1
    <3> QED
      BY <3>1, <3>2 DEF Msg
  <2>2. DOMAIN sock = Ends /\ cut \subseteq Sockets /\ mixed \subseteq Sockets
    BY DEF IInv, Typed
  <2>3. ASSUME NEW r \in Requests
        PROVE  /\ req[r].kind \in Kinds
               /\ req[r].state \in {"new", "asked", "stream", "timedout", "dropped", "ended"}
               /\ req[r].socket \in Sockets \cup {0}
               /\ known[r] \in 0 .. NbPieces
               /\ heard[r] \subseteq Requests
    BY DEF IInv, Typed, Result, States
  <2>4. \A s \in Sockets : browse[s] \in Requests \cup {None}
    BY DEF IInv, Typed
  <2> QED
    BY <2>1, <2>2, <2>3, <2>4 DEF TypeOK
<1> QED
  BY <1>1, InvariantHolds, PTL

(* getASocket returns a socket that is not active.  Two requests never     *)
(* wait on one socket that is not closed, however many were dropped or     *)
(* timed out on it, unless one was made on it before the answer of one     *)
(* that was given up had come (ConnectionPool::getASocket,                 *)
(* PeerMessageSocket::finished).                                           *)
THEOREM SocketNotShared == Spec => []SocketIsNotShared
<1>1. IInv => SocketIsNotShared
  <2> SUFFICES ASSUME IInv, NEW s \in Sockets, Reliable(s)
               PROVE  Cardinality(Holders(s)) <= 1
    BY DEF SocketIsNotShared
  <2>1. \A r, q \in Holders(s) : r = q
    BY DEF IInv, SocketSound, Conversation, Held
  <2>2. CASE Holders(s) = {}
    BY <2>2, FS_EmptySet
  <2>3. CASE Holders(s) # {}
    <3>1. PICK r \in Holders(s) : TRUE
      BY <2>3
    <3>2. Holders(s) = {r}
      BY <2>1, <3>1
    <3>3. Cardinality({r}) = 1
      BY FS_Singleton
    <3> QED
      BY <3>2, <3>3
  <2> QED
    BY <2>2, <2>3
<1> QED
  BY <1>1, InvariantHolds, PTL

(* No answer says which question it answers.  A result object is only      *)
(* given what the other peer sent for its own question, on a socket that   *)
(* is not closed and on which no request was made before the answer of one *)
(* that timed out or was dropped had come: the late answers that come to   *)
(* an idle socket go to nobody (PeerMessageSocket::onNewMessage).          *)
THEOREM AnswersAreMatched == Spec => []AnswersMatch
<1>1. IInv => AnswersMatch
  <2> SUFFICES ASSUME IInv, NEW r \in Requests, heard[r] # {}, Reliable(req[r].socket)
               PROVE  heard[r] = {r}
    BY DEF AnswersMatch
  <2>1. req[r].socket \in Sockets
    <3>1. req[r].socket \in Sockets \cup {0}
      BY DEF IInv, Typed, Result
    <3>2. req[r].socket # 0
      BY DEF IInv, RequestSound
    <3> QED
      BY <3>1, <3>2
  <2>2. Heeded(req[r].socket)
    BY <2>1 DEF IInv, SocketSound, Conversation
  <2>3. heard[r] \subseteq {r}
    BY <2>2 DEF Heeded
  <2> QED
    BY <2>3
<1> QED
  BY <1>1, InvariantHolds, PTL

(* The pool of the peer that answers only closes for idleness sockets that *)
(* owe nothing, so that it never takes an answer from a request that still *)
(* waits for it: here too unless a request was made before the answer of   *)
(* one given up had come (ConnectionPool::socketBecomeIdle).               *)
THEOREM IdleOwes == Spec => []IdleOwesNothing
<1>1. IInv => IdleOwesNothing
  <2> SUFFICES ASSUME IInv, NEW s \in Sockets, Reliable(s), sock["server"][s].pooled,
                      ~sock["server"][s].active, ~sock["server"][s].closing
               PROVE  browse[s] = None /\ owed[s] = <<>> /\ upload[s].state # "run"
    BY DEF IdleOwesNothing
  <2>1. Serving(s)
    BY DEF IInv, SocketSound, Conversation
  <2> QED
    BY <2>1 DEF Serving, Uploading
<1> QED
  BY <1>1, InvariantHolds, PTL
=============================================================================
