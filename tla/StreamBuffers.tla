---------------------------- MODULE StreamBuffers ----------------------------
(***************************************************************************)
(* The buffers between a producer of chunks and the client of a stream     *)
(* (chat_service/services/streaming_optimizer.py): each stream has an      *)
(* optimizer with a buffer of bounded capacity and a flag of the client's  *)
(* flow control.  A chunk is the number under which it was offered.        *)
(***************************************************************************)
EXTENDS Naturals, Sequences, Ranks

CONSTANTS
    Streams,     \* ids of streams
    Capacity,    \* capacity of a buffer, 100
    ChunkSize,   \* chunk_size, 64
    Lengths,     \* lengths of chunks to split
    MaxChunks    \* bound on the chunks offered

ASSUME StreamAssumption ==
    /\ Capacity \in Nat \ {0}
    /\ ChunkSize \in Nat \ {0}
    /\ Lengths \subseteq Nat
    /\ MaxChunks \in Nat

VARIABLES
    opened,     \* streams that have an optimizer
    buffered,   \* streams whose optimizer has a buffer
    buffer,     \* the content of the buffers
    flow,       \* _client_flow: "unknown", "go" or "pause"
    offered,    \* chunks offered so far
    flushed,    \* chunks each stream has handed on
    accepted    \* chunks each stream has taken since its buffer was new

streamVars == <<opened, buffered, buffer, flow, offered, flushed, accepted>>

StreamInit ==
    /\ opened = {}
    /\ buffered = {}
    /\ buffer = [s \in Streams |-> <<>>]
    /\ flow = [s \in Streams |-> "unknown"]
    /\ offered = 0
    /\ flushed = [s \in Streams |-> <<>>]
    /\ accepted = [s \in Streams |-> <<>>]

Forgotten(s) ==
    /\ buffered' = buffered \ {s}
    /\ buffer' = [buffer EXCEPT ![s] = <<>>]
    /\ flushed' = [flushed EXCEPT ![s] = <<>>]
    /\ accepted' = [accepted EXCEPT ![s] = <<>>]

\* create_stream, also for an id in use: a new optimizer replaces the old one.
CreateStream(s) ==
    /\ opened' = opened \cup {s}
    /\ flow' = [flow EXCEPT ![s] = "unknown"]
    /\ Forgotten(s)
    /\ UNCHANGED offered

\* cancel_stream: the buffers go, the flag of the flow stays.
CancelStream(s) ==
    /\ s \in opened
    /\ Forgotten(s)
    /\ UNCHANGED <<opened, flow, offered>>

(***************************************************************************)
(* can_enqueue: the first chunk makes the buffer and lets it flow, which   *)
(* forgets a pause that came before; then a paused stream and a full       *)
(* buffer refuse the chunk.                                                *)
(***************************************************************************)
\* Mutant: a full buffer drops its oldest chunk.
Pushed_Ring(s, chunk) ==
    IF Len(buffer[s]) >= Capacity THEN Append(Tail(buffer[s]), chunk) ELSE Append(buffer[s], chunk)

Pushed(s, chunk) ==
    IF Len(buffer[s]) >= Capacity THEN buffer[s] ELSE Append(buffer[s], chunk)

FlowOf(s) == IF s \in buffered THEN flow[s] ELSE "go"

Enqueue(s) ==
    /\ s \in opened
    /\ offered < MaxChunks
    /\ offered' = offered + 1
    /\ buffered' = buffered \cup {s}
    /\ flow' = [flow EXCEPT ![s] = FlowOf(s)]
    /\ IF FlowOf(s) = "pause"
       THEN UNCHANGED <<buffer, accepted>>
       ELSE /\ buffer' = [buffer EXCEPT ![s] = Pushed(s, offered + 1)]
            /\ accepted' = [accepted EXCEPT ![s] =
                               IF Pushed(s, offered + 1) = buffer[s] THEN @ ELSE Append(@, offered + 1)]
    /\ UNCHANGED <<opened, flushed>>

HandleBackpressure(s, permitted) ==
    /\ s \in opened
    /\ flow' = [flow EXCEPT ![s] = IF permitted THEN "go" ELSE "pause"]
    /\ UNCHANGED <<opened, buffered, buffer, offered, flushed, accepted>>

Flush(s) ==
    /\ s \in buffered
    /\ flushed' = [flushed EXCEPT ![s] = @ \o buffer[s]]
    /\ buffer' = [buffer EXCEPT ![s] = <<>>]
    /\ UNCHANGED <<opened, buffered, flow, offered, accepted>>

StreamNext ==
    \E s \in Streams :
        \/ CreateStream(s) \/ CancelStream(s) \/ Enqueue(s) \/ Flush(s)
        \/ \E permitted \in BOOLEAN : HandleBackpressure(s, permitted)

StreamSpec == StreamInit /\ [][StreamNext]_streamVars

-----------------------------------------------------------------------------
\* optimize_chunk: the lengths of the pieces of a chunk.
Pieces(length) ==
    IF length <= ChunkSize THEN <<length>>
    ELSE [i \in 1..((length + ChunkSize - 1) \div ChunkSize) |->
             IF i * ChunkSize <= length THEN ChunkSize ELSE length % ChunkSize]

PiecesAreRight ==
    \A length \in Lengths :
        LET p == Pieces(length)
        IN  /\ RunningSum(p)[Len(p)] = length
            /\ \A i \in DOMAIN p : p[i] <= ChunkSize /\ (length > 0 => p[i] > 0)

StreamTypeOK ==
    /\ opened \subseteq Streams
    /\ buffered \subseteq opened
    /\ buffer \in [Streams -> Seq(1..MaxChunks)]
    /\ flow \in [Streams -> {"unknown", "go", "pause"}]
    /\ offered \in 0..MaxChunks
    /\ flushed \in [Streams -> Seq(1..MaxChunks)]
    /\ accepted \in [Streams -> Seq(1..MaxChunks)]

(***************************************************************************)
(* Types; what a stream took and what it handed on differ by its buffer,   *)
(* whatever was refused, paused or cancelled in between; a buffer stays    *)
(* within its capacity; a split chunk loses nothing.                       *)
(***************************************************************************)
StreamInv ==
    /\ StreamTypeOK
    /\ \A s \in Streams :
           /\ accepted[s] = flushed[s] \o buffer[s]
           /\ Len(buffer[s]) <= Capacity
           /\ s \in buffered => flow[s] # "unknown"
    /\ PiecesAreRight
=============================================================================
