----------------------------- MODULE FlowSocket -----------------------------
(***************************************************************************)
(* The Unix socket between the exporter (unipe/src/main.rs) and the engine *)
(* (unipe_ai/ingest/uds.py).  Every tick the exporter writes one frame, a  *)
(* length and a body, to each client in turn, holding the lock that its    *)
(* accept task needs too; the engine reads frame after frame and connects  *)
(* again when its connection ends.  Either side may stop, or be killed,    *)
(* and start again at any moment.                                          *)
(*                                                                         *)
(* A connection is a bounded buffer of units between its two ends: a frame *)
(* may be cut between them.  A batch is a number; ticks whose snapshot     *)
(* failed or that find no client are not seen here.                        *)
(***************************************************************************)
EXTENDS Naturals, Sequences, SequencesExt

CONSTANTS
    Conn,        \* connections
    NoConn,
    Cap,         \* units a socket buffer holds
    Access,      \* whether an engine may open a socket of mode 0600: its user's
    Stranger,    \* whether another program may connect and never read
    MaxBatch     \* bound: batches are numbered up to here, then alike

ASSUME ParameterAssumption ==
    /\ Cap \in Nat \ {0} /\ MaxBatch \in Nat \ {0} /\ NoConn \notin Conn
    /\ Access \subseteq BOOLEAN /\ Stranger \in BOOLEAN

VARIABLES
    \* exporter
    expo,      \* down, wait (for its tick), write (publishing, lock held)
    path,      \* the socket file: absent, bound, or left over from a kill
    backlog,   \* connections not accepted yet
    clients,   \* the vector of streams, while writing those still to come
    live,      \* streams this tick has been written to
    frame,     \* units of the frame still to be written to the first client
    batch,     \* number of the last batch
    \* connections
    buffer,    \* units in flight
    reads,     \* connections whose reading end is open
    writes,    \* connections whose writing end is open
    \* engine
    eng,       \* down, connect, length, body, handle, failed
    may,       \* whether its user may open the socket
    sock,      \* its connection
    got        \* the batch it handled last

exporter == <<expo, path, backlog, clients, live, frame, batch>>
conns    == <<buffer, reads, writes>>
engine   == <<eng, may, sock, got>>
vars     == <<exporter, conns, engine>>

Frame(b) == <<[part |-> "length", batch |-> b], [part |-> "body", batch |-> b]>>

Free == Conn \ (reads \cup writes)

Init ==
    /\ expo = "down" /\ path = "absent" /\ backlog = {}
    /\ clients = <<>> /\ live = <<>> /\ frame = <<>> /\ batch = 0
    /\ buffer = [c \in Conn |-> <<>>] /\ reads = {} /\ writes = {}
    /\ eng = "down" /\ may = FALSE /\ sock = NoConn /\ got = 0

-----------------------------------------------------------------------------
(* bind_flow_socket: whatever is at the path is removed first.             *)
Bind ==
    /\ expo = "down" /\ expo' = "wait" /\ path' = "bound"
    /\ UNCHANGED <<backlog, clients, live, frame, batch, conns, engine>>

(* The accept task: it gets the lock only between two publications.        *)
Accept ==
    /\ expo = "wait"
    /\ \E c \in backlog :
        /\ backlog' = backlog \ {c}
        /\ clients' = Append(clients, c)
    /\ UNCHANGED <<expo, path, live, frame, batch, conns, engine>>

(* A mistake in Publish: a tick without a snapshot repeats the last one.   *)
PublishAgain ==
    /\ expo = "wait" /\ clients # <<>> /\ expo' = "write"
    /\ batch' \in {IF batch < MaxBatch THEN batch + 1 ELSE batch} \cup ({batch} \ {0})
    /\ frame' = Frame(batch')
    /\ live' = <<>>
    /\ UNCHANGED <<path, backlog, clients, conns, engine>>

(* A tick with clients: publish_flows takes the lock and a new batch.      *)
Publish ==
    /\ expo = "wait" /\ clients # <<>> /\ expo' = "write"
    /\ batch' = IF batch < MaxBatch THEN batch + 1 ELSE batch
    /\ frame' = Frame(batch')
    /\ live' = <<>>
    /\ UNCHANGED <<path, backlog, clients, conns, engine>>

(* write_all to the first client: as much as its buffer takes, then it     *)
(* waits; the next client's turn comes when the frame is out.              *)
Write ==
    /\ expo = "write" /\ clients # <<>>
    /\ LET c == Head(clients)
       IN  /\ c \in reads /\ Len(buffer[c]) < Cap
           /\ buffer' = [buffer EXCEPT ![c] = Append(@, Head(frame))]
           /\ \/ /\ Len(frame) > 1
                 /\ frame' = Tail(frame) /\ UNCHANGED <<clients, live>>
              \/ /\ Len(frame) = 1
                 /\ frame' = Frame(batch)
                 /\ clients' = Tail(clients) /\ live' = Append(live, c)
    /\ UNCHANGED <<expo, path, backlog, batch, reads, writes, engine>>

(* A mistake in WriteFails: the client is dropped and its stream left open.*)
WriteFailsLeaks ==
    /\ expo = "write" /\ clients # <<>> /\ Head(clients) \notin reads
    /\ clients' = Tail(clients)
    /\ buffer' = [buffer EXCEPT ![Head(clients)] = <<>>]
    /\ frame' = Frame(batch)
    /\ UNCHANGED <<expo, path, backlog, live, batch, reads, writes, engine>>

(* write_all fails, the other end being closed: the client is dropped.     *)
WriteFails ==
    /\ expo = "write" /\ clients # <<>> /\ Head(clients) \notin reads
    /\ clients' = Tail(clients)
    /\ writes' = writes \ {Head(clients)}
    /\ buffer' = [buffer EXCEPT ![Head(clients)] = <<>>]
    /\ frame' = Frame(batch)
    /\ UNCHANGED <<expo, path, backlog, live, batch, reads, engine>>

Published ==
    /\ expo = "write" /\ clients = <<>> /\ expo' = "wait"
    /\ clients' = live /\ live' = <<>> /\ frame' = <<>>
    /\ UNCHANGED <<path, backlog, batch, conns, engine>>

(* The exporter's end: its connections are closed.  Ctrl-C is seen only    *)
(* between two ticks, and removes the socket file; a kill leaves it.       *)
ExporterEnds ==
    /\ \/ expo = "wait" /\ path' = "absent"
       \/ expo # "down" /\ path' = "left"
    /\ expo' = "down"
    /\ backlog' = {} /\ clients' = <<>> /\ live' = <<>> /\ frame' = <<>>
    /\ writes' = {} /\ buffer' = [c \in Conn |-> IF c \in reads THEN buffer[c] ELSE <<>>]
    /\ UNCHANGED <<batch, reads, engine>>

-----------------------------------------------------------------------------
EngineStarts ==
    /\ eng = "down" /\ eng' = "connect" /\ got' = 0 /\ may' \in Access
    /\ UNCHANGED <<exporter, conns, sock>>

Open(c) ==
    /\ backlog' = backlog \cup {c}
    /\ reads' = reads \cup {c} /\ writes' = writes \cup {c}

(* connect(): tried again while nobody listens; any other refusal, such as *)
(* that of a socket of another user, is not caught.                        *)
Connect ==
    /\ eng = "connect" /\ path = "bound" /\ may
    /\ \E c \in Free : Open(c) /\ sock' = c
    /\ eng' = "length"
    /\ UNCHANGED <<expo, path, clients, live, frame, batch, buffer, may, got>>

ConnectRefused ==
    /\ eng = "connect" /\ path # "absent" /\ ~may
    /\ eng' = "failed"
    /\ UNCHANGED <<exporter, conns, may, sock, got>>

(* _recvall of the four bytes of a length, or of as many as it said.       *)
Receive ==
    /\ eng \in {"length", "body"} /\ buffer[sock] # <<>>
    /\ buffer' = [buffer EXCEPT ![sock] = Tail(@)]
    /\ \/ eng = "length" /\ eng' = "body" /\ UNCHANGED got
       \/ eng = "body" /\ eng' = "handle" /\ got' = Head(buffer[sock]).batch
    /\ UNCHANGED <<exporter, reads, writes, may, sock>>

(* Mistakes in Disconnected: the rest of a frame is expected from the next *)
(* connection; the dead one is not closed, and read again.                 *)
DisconnectedMidFrame ==
    /\ eng \in {"length", "body"} /\ buffer[sock] = <<>> /\ sock \notin writes
    /\ path = "bound"
    /\ \E c \in Free : /\ backlog' = backlog \cup {c}
                       /\ reads' = (reads \ {sock}) \cup {c}
                       /\ writes' = writes \cup {c} /\ sock' = c
    /\ UNCHANGED <<eng, may, got, expo, path, clients, live, frame, batch, buffer>>
DisconnectedUnclosed ==
    /\ eng \in {"length", "body"} /\ buffer[sock] = <<>> /\ sock \notin writes
    /\ eng' = "length"
    /\ UNCHANGED <<exporter, conns, may, sock, got>>

(* The stream ends, between two frames or inside one: what was read of a   *)
(* frame is dropped with the connection, and a new one is made.            *)
Disconnected ==
    /\ eng \in {"length", "body"} /\ buffer[sock] = <<>> /\ sock \notin writes
    /\ eng' = "connect" /\ sock' = NoConn
    /\ reads' = reads \ {sock}
    /\ UNCHANGED <<exporter, buffer, writes, may, got>>

(* The engine loop has handled the batch it was given.                     *)
Handled ==
    /\ eng = "handle" /\ eng' = "length"
    /\ UNCHANGED <<exporter, conns, may, sock, got>>

EngineEnds ==
    /\ eng # "down" /\ eng' = "down" /\ sock' = NoConn
    /\ reads' = reads \ {sock}
    /\ buffer' = IF sock = NoConn THEN buffer ELSE [buffer EXCEPT ![sock] = <<>>]
    /\ UNCHANGED <<exporter, writes, may, got>>

(* Another program connects, and does not read.  The connections are many: *)
(* it never takes the last.                                                *)
StrangerConnects ==
    /\ Stranger /\ path = "bound"
    /\ \E c \in Free : Free # {c} /\ Open(c)
    /\ UNCHANGED <<expo, path, clients, live, frame, batch, buffer, engine>>

StrangerLeaves ==
    /\ \E c \in reads \ {sock} :
        /\ reads' = reads \ {c}
        /\ buffer' = [buffer EXCEPT ![c] = <<>>]
    /\ UNCHANGED <<exporter, writes, engine>>

Next ==
    \/ Bind \/ Accept \/ Publish \/ Write \/ WriteFails \/ Published \/ ExporterEnds
    \/ EngineStarts \/ Connect \/ ConnectRefused \/ Receive \/ Disconnected
    \/ Handled \/ EngineEnds
    \/ StrangerConnects \/ StrangerLeaves

(* Both programs keep running their loops.  The accept task queues for the *)
(* lock with the ticks, and tokio's Mutex serves in order of arrival.      *)
Fairness ==
    /\ WF_vars(Publish) /\ WF_vars(Write) /\ WF_vars(WriteFails) /\ WF_vars(Published)
    /\ SF_vars(Accept)
    /\ WF_vars(Connect) /\ WF_vars(ConnectRefused) /\ WF_vars(Receive) /\ WF_vars(Disconnected)
    /\ WF_vars(Handled)

Spec == Init /\ [][Next]_vars /\ Fairness

-----------------------------------------------------------------------------
(* Type correctness of every variable.                                     *)
Unit == [part : {"length", "body"}, batch : 0 .. MaxBatch]

TypeOK ==
    /\ expo \in {"down", "wait", "write"} /\ path \in {"absent", "bound", "left"}
    /\ backlog \subseteq Conn /\ clients \in Seq(Conn) /\ live \in Seq(Conn)
    /\ frame \in Seq(Unit) /\ batch \in 0 .. MaxBatch
    /\ reads \subseteq Conn /\ writes \subseteq Conn
    /\ buffer \in [Conn -> Seq(Unit)] /\ \A c \in Conn : Len(buffer[c]) <= Cap
    /\ eng \in {"down", "connect", "length", "body", "handle", "failed"} /\ may \in BOOLEAN
    /\ sock \in Conn \cup {NoConn} /\ got \in 0 .. MaxBatch

(* The engine never takes a body for a length or the reverse: a frame that *)
(* was cut off is never continued, by either side.                         *)
NeverMisframed ==
    /\ TypeOK
    /\ eng \in {"length", "body"} /\ buffer[sock] # <<>> =>
          /\ Head(buffer[sock]).part = eng
          /\ \A i \in 1 .. Len(buffer[sock]) - 1 :
                buffer[sock][i].part # buffer[sock][i + 1].part

(* Each end of a connection is held by one owner: the exporter knows every *)
(* stream it can write to once, and forgets those whose client went away.  *)
EveryStreamOwnedOnce ==
    LET held == clients \o live
    IN  /\ \A i, j \in DOMAIN held : held[i] = held[j] => i = j
        /\ writes = backlog \cup ToSet(held) /\ backlog \cap ToSet(held) = {}

(* Batches are handled in the order they were published, none twice, over  *)
(* all reconnections of an engine.                                         *)
BatchesInOrder ==
    [][eng' = "handle" /\ eng # "handle" /\ got < MaxBatch => got' > got]_vars

(* While both programs keep running and nobody else stays connected, the   *)
(* engine goes on getting batches, whatever was refused, cut off, killed   *)
(* or left behind before: "yield flow batches forever; reconnect ...".     *)
Running == expo # "down" /\ eng \notin {"down", "failed"}

EngineIsFed ==
    <>[](Running /\ reads \subseteq {sock}) => []<>(eng = "handle")

=============================================================================
