------------------------------ MODULE Gateway ------------------------------
(***************************************************************************)
(* The gateway (ferrite-gateway): receivers put the chunks of all devices  *)
(* into one channel, a loop gathers what comes close together into one     *)
(* request, forwards it, and buffers it when the server cannot be reached  *)
(* (main.rs, forwarder.rs, buffer.rs, http_ingest.rs); and how the server  *)
(* decides whose a chunk is (ingest.rs).                                   *)
(*                                                                         *)
(* Two kinds of device send through it: the board on a serial port, which  *)
(* hears no answer, and the Linux agent, which POSTs.                      *)
(***************************************************************************)
EXTENDS Naturals, Sequences, FiniteSets

CONSTANTS
  Box,         \* the Linux device that POSTs
  Board,       \* the device on the serial port
  MaxSent,     \* bound: reports of the agent
  MaxSessions, \* bound: upload sessions of the board
  Capacity,    \* places in the channel (256)
  MaxRetries,  \* attempts to forward a request (3)
  MaxCrashes,  \* bound: crashes of the gateway
  AuthChoices, \* which devices seal and which have a credential
  Nobody

ASSUME GatewayAssumption ==
  /\ Box # Board
  /\ MaxSent \in Nat
  /\ MaxSessions \in 0 .. MaxSent
  /\ Capacity \in Nat \ {0}
  /\ MaxRetries \in Nat
  /\ MaxCrashes \in Nat
  /\ AuthChoices \subseteq
       [{Box, Board} -> {"clear", "sealed", "unprovisioned"}]

VARIABLES
  auth,    \* each device: "clear"; "sealed"; "unprovisioned", which has a
           \* credential on the server and does not seal yet
  gateway, \* the forwarding loop
  channel, \* chunks on their way to the loop
  buffer,  \* buffered_chunks: requests, oldest first
  posts,   \* connections: the chunks each has still to put in the channel
  board,   \* how many chunks the board has sent
  stored,  \* <<chunk, device>>: chunks the server stored, and as whose
  refused, \* history: chunks the server refused or had no device for
  wrecked, \* history: chunks of which a failing gateway lost a copy
  crashes

server == <<stored, refused>>
ruin   == <<wrecked, crashes>>
gatewayVars == <<auth, gateway, channel, buffer, posts, board, server, ruin>>

Sources == {Box, Board}

(* A report or session is a DeviceInfo and then what is reported. *)
Chunk == [of : Sources, n : 1 .. MaxSent, kind : {"info", "data"}]
Batch(d, n) == << [of |-> d, n |-> n, kind |-> "info"],
                  [of |-> d, n |-> n, kind |-> "data"] >>

(* at: the row drain_buffer has come to. *)
At(stage) == [stage |-> stage, body |-> << >>, attempt |-> 0, at |-> 1]

GatewayTypeOK ==
  /\ auth \in AuthChoices
  /\ gateway \in [stage : {"off", "draining", "waiting", "gathering",
                           "forwarding"},
                  body : Seq(Chunk), attempt : 0 .. MaxRetries, at : Nat]
  /\ channel \in Seq(Chunk)
  /\ Len(channel) <= Capacity
  /\ buffer \in Seq(Seq(Chunk))
  /\ DOMAIN posts \subseteq {"asked", "left"}
  /\ \A c \in DOMAIN posts : posts[c] \in Seq(Chunk)
  /\ board \in 0 .. 2 * MaxSessions
  /\ stored \subseteq Chunk \X Sources
  /\ refused \subseteq Chunk
  /\ wrecked \subseteq Chunk
  /\ crashes \in 0 .. MaxCrashes

GatewayInit ==
  /\ auth \in AuthChoices
  /\ gateway = At("off")
  /\ channel = << >>
  /\ buffer = << >>
  /\ posts = << >>
  /\ board = 0
  /\ stored = {} /\ refused = {} /\ wrecked = {}
  /\ crashes = 0

-----------------------------------------------------------------------------
(* The server: open_and_group and process_device_chunks.                   *)
ElementsOf(s) == {s[i] : i \in DOMAIN s}
HasCredential(d) == auth[d] # "clear"
Sealed(c) == auth[c.of] = "sealed"

(* A clear DeviceInfo of a device with a credential is thrown out first.   *)
Admitted(c) ==
  /\ ~Sealed(c)
  /\ c.kind = "info" => ~HasCredential(c.of)

(* Whose the clear chunks of a request are: the last DeviceInfo's device.  *)
Context(body) ==
  LET infos == {i \in DOMAIN body : Admitted(body[i]) /\ body[i].kind = "info"}
      last  == CHOOSE i \in infos : \A j \in infos : j <= i
  IN IF infos = {} THEN Nobody ELSE body[last].of

(* Mutation of Ownership: the context owns the whole request. *)
OwnershipByContext(body) ==
  LET context == Context(body)
  IN IF context = Nobody THEN {<<c, c.of>> : c \in ElementsOf(body)}
     ELSE {<<c, context>> : c \in ElementsOf(body)}

(* A sealed chunk is its device's; the clear ones go to the context, and   *)
(* nowhere without one.  A DeviceInfo speaks for itself.                   *)
Ownership(body) ==
  LET context == Context(body)
      clear   == {k \in ElementsOf(body) : Admitted(k)}
  IN {<<c, c.of>> : c \in {k \in ElementsOf(body) : Sealed(k)}} \cup
     IF context = Nobody \/ HasCredential(context) THEN {}
     ELSE {<<c, IF c.kind = "info" THEN c.of ELSE context>> : c \in clear}

(* The server takes a request, and stores what it can place. *)
Ingest(body) ==
  LET owned == Ownership(body)
  IN /\ stored' = stored \cup owned
     /\ refused' = refused \cup
          {c \in ElementsOf(body) : \A d \in Sources : <<c, d>> \notin owned}

(* One request: what becomes of the body, and what the sender hears: a     *)
(* status, or nothing (no connection, a 5xx, or an answer lost on its way).*)
Exchange(body, answer) ==
  \/ answer \in {"2xx", "none"} /\ Ingest(body)
  \/ answer \in {"429", "400", "none"} /\ UNCHANGED server

(* What makes forward_chunk return Ok: the server took it (true), or turned *)
(* it down with a 4xx (false), which no caller tells from it.               *)
Verdict(body) ==
  \/ Exchange(body, "2xx")
  \/ /\ refused' = refused \cup ElementsOf(body)
     /\ UNCHANGED stored

-----------------------------------------------------------------------------
(* The gateway starts: it opens the buffer and drains it before the loop.  *)
StartGateway ==
  /\ gateway.stage = "off"
  /\ gateway' = At("draining")
  /\ UNCHANGED <<auth, channel, buffer, posts, board, server, ruin>>

(* What forward_chunk is working on: a row of the buffer, or the batch.    *)
Forwarding ==
  \/ gateway.stage = "draining" /\ gateway.at <= Len(buffer)
  \/ gateway.stage = "forwarding"
Body == IF gateway.stage = "draining" THEN buffer[gateway.at]
                                      ELSE gateway.body

(* One attempt of forward_chunk without a verdict; it will try again. *)
Attempt ==
  /\ Forwarding
  /\ gateway.attempt < MaxRetries
  /\ Exchange(Body, "none")
  /\ gateway' = [gateway EXCEPT !.attempt = @ + 1]
  /\ UNCHANGED <<auth, channel, buffer, posts, board, ruin>>

Without(s, i) == SubSeq(s, 1, i - 1) \o SubSeq(s, i + 1, Len(s))

(* drain_buffer has a verdict on a row: the row is removed, and stays if   *)
(* that fails.                                                             *)
DrainVerdict ==
  /\ gateway.stage = "draining" /\ gateway.at <= Len(buffer)
  /\ gateway.attempt < MaxRetries
  /\ Verdict(Body)
  /\ \/ /\ buffer' = Without(buffer, gateway.at)
        /\ gateway' = [gateway EXCEPT !.attempt = 0]
        /\ UNCHANGED ruin
     \/ /\ crashes < MaxCrashes
        /\ crashes' = crashes + 1
        /\ gateway' = [gateway EXCEPT !.attempt = 0, !.at = @ + 1]
        /\ UNCHANGED <<buffer, wrecked>>
  /\ UNCHANGED <<auth, channel, posts, board>>

(* The rows peeked are done: peek again, until there are none.             *)
DrainAgain ==
  /\ gateway.stage = "draining" /\ gateway.at > Len(buffer)
  /\ gateway' = At(IF buffer = << >> THEN "waiting" ELSE "draining")
  /\ UNCHANGED <<auth, channel, buffer, posts, board, server, ruin>>

(* The server is still unreachable: draining is over until the next start. *)
DrainStops ==
  /\ gateway.stage = "draining" /\ gateway.at <= Len(buffer)
  /\ gateway.attempt = MaxRetries
  /\ gateway' = At("waiting")
  /\ UNCHANGED <<auth, channel, buffer, posts, board, server, ruin>>

(* The loop takes a chunk from the channel, and more while they come. *)
Receive ==
  /\ gateway.stage \in {"waiting", "gathering"}
  /\ channel # << >>
  /\ gateway' = [gateway EXCEPT !.stage = "gathering",
                                !.body = Append(@, Head(channel))]
  /\ channel' = Tail(channel)
  /\ UNCHANGED <<auth, buffer, posts, board, server, ruin>>

(* Nothing came for 200 ms, or the batch is 2 s old at its last chunk. *)
Close ==
  /\ gateway.stage = "gathering"
  /\ channel = << >> \/ Len(gateway.body) >= 2
  /\ gateway' = [gateway EXCEPT !.stage = "forwarding"]
  /\ UNCHANGED <<auth, channel, buffer, posts, board, server, ruin>>

(* The server took the batch or turned it down; either way it is gone. *)
BatchVerdict ==
  /\ gateway.stage = "forwarding"
  /\ gateway.attempt < MaxRetries
  /\ Verdict(Body)
  /\ gateway' = At("waiting")
  /\ UNCHANGED <<auth, channel, buffer, posts, board, ruin>>

(* Mutation of BufferBatch: the buffer keeps one batch only. *)
BufferBatchOnce ==
  /\ gateway.stage = "forwarding"
  /\ gateway.attempt = MaxRetries
  /\ gateway' = At("waiting")
  /\ buffer' = IF buffer = << >> THEN << Body >> ELSE buffer
  /\ UNCHANGED <<auth, channel, posts, board, server, ruin>>

(* The attempts are used up: the batch is buffered, or lost if that fails. *)
BufferBatch ==
  /\ gateway.stage = "forwarding"
  /\ gateway.attempt = MaxRetries
  /\ gateway' = At("waiting")
  /\ \/ buffer' = Append(buffer, Body) /\ UNCHANGED ruin
     \/ /\ crashes < MaxCrashes
        /\ crashes' = crashes + 1
        /\ wrecked' = wrecked \cup ElementsOf(Body)
        /\ UNCHANGED buffer
  /\ UNCHANGED <<auth, channel, posts, board, server>>

(* Chunks the gateway has in memory only. *)
InFlight ==
  ElementsOf(channel) \cup ElementsOf(gateway.body) \cup
    UNION {ElementsOf(posts[c]) : c \in DOMAIN posts}

Crash ==
  /\ gateway.stage # "off"
  /\ crashes < MaxCrashes
  /\ crashes' = crashes + 1
  /\ gateway' = At("off")
  /\ channel' = << >>
  /\ posts' = << >>
  /\ wrecked' = wrecked \cup InFlight
  /\ UNCHANGED <<auth, buffer, board, server>>

-----------------------------------------------------------------------------
Running == gateway.stage # "off"

(* usb_reader_task: the next chunk of the board's upload. *)
BoardSends ==
  /\ Running
  /\ board < 2 * MaxSessions
  /\ Len(channel) < Capacity
  /\ channel' = Append(channel, Batch(Board, (board \div 2) + 1)
                                     [(board % 2) + 1])
  /\ board' = board + 1
  /\ UNCHANGED <<auth, gateway, buffer, posts, server, ruin>>

(* handle_connection: a POST has been read. *)
Accept(batch) ==
  /\ Running
  /\ "asked" \notin DOMAIN posts
  /\ posts' = [c \in DOMAIN posts \cup {"asked"} |->
                 IF c = "asked" THEN batch ELSE posts[c]]
  /\ UNCHANGED <<auth, gateway, channel, buffer, board, server, ruin>>

(* ... puts its chunks into the channel, one by one ... *)
Feed(c) ==
  /\ c \in DOMAIN posts
  /\ posts[c] # << >>
  /\ Len(channel) < Capacity
  /\ channel' = Append(channel, Head(posts[c]))
  /\ posts' = [posts EXCEPT ![c] = Tail(@)]
  /\ UNCHANGED <<auth, gateway, buffer, board, server, ruin>>

Drop(c) == [k \in DOMAIN posts \ {c} |-> posts[k]]

(* ... and answers 200, whatever becomes of them. *)
Reply(c) ==
  /\ c \in DOMAIN posts
  /\ posts[c] = << >>
  /\ posts' = Drop(c)
  /\ UNCHANGED <<auth, gateway, channel, buffer, board, server, ruin>>

(* The sender goes away; the connection's task carries on without it. One  *)
(* such connection at a time (bound).                                      *)
Abandon ==
  /\ "asked" \in DOMAIN posts
  /\ "left" \notin DOMAIN posts
  /\ posts' = [c \in {"left"} |-> posts["asked"]]
  /\ UNCHANGED <<auth, gateway, channel, buffer, board, server, ruin>>

GatewayStep ==
  \/ StartGateway \/ Attempt \/ DrainVerdict \/ DrainAgain \/ DrainStops
  \/ Receive \/ Close \/ BatchVerdict \/ BufferBatch
  \/ BoardSends
  \/ Feed("asked") \/ Feed("left") \/ Reply("left")

-----------------------------------------------------------------------------
(* A device that seals is never mistaken for another, whatever else is in  *)
(* the request, and nothing sent in clear is stored under a device that    *)
(* has a credential (ingest.rs:644-652).                                   *)
SealedIsOwn ==
  \A pair \in stored :
    /\ Sealed(pair[1]) => pair[2] = pair[1].of
    /\ HasCredential(pair[2]) => Sealed(pair[1])

(* Not met.  Every chunk is stored as its own device's: "uses the          *)
(* DeviceInfo chunk to associate all chunks with the right device"         *)
(* (main.rs:168-170).                                                      *)
RightDevice == \A pair \in stored : pair[2] = pair[1].of
=============================================================================
