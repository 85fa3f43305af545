--------------------------- MODULE EncryptedStream ---------------------------
(***************************************************************************)
(* One encrypted streaming reply over a data channel                      *)
(* (peer/src/cluster_dc_e2ee.rs): the provider cuts the backend's text    *)
(* into numbered chunks of at most STREAM_CHUNK_BYTES bytes on character  *)
(* boundaries (flush_encrypted_response_chunks, called from               *)
(* dispatch_cluster_encrypted_proxy_body); the consumer puts them back in *)
(* order (handle_encrypted_stream_chunk) once it holds the keys and has   *)
(* seen the acknowledgement.  A character is its position in the text the *)
(* provider keeps and has a width in bytes; a piece of the backend's      *)
(* stream that is not whole UTF-8 is dropped and `place' says where the   *)
(* characters kept stood.  Encryption itself is abstracted.               *)
(***************************************************************************)
EXTENDS Naturals, Sequences, FiniteSets, SequencesExt

CONSTANTS
    MaxChars,       \* bound: characters the backend produces
    MaxWidth,       \* bytes of the widest character (4 in UTF-8)
    ChunkBytes,     \* STREAM_CHUNK_BYTES
    MaxPiece,       \* bound: characters of one piece from the backend
    Ordered         \* the data channel delivers in order (it is created so)

ASSUME EncryptedStreamAssumption ==
    /\ MaxChars \in Nat /\ MaxPiece \in Nat
    /\ MaxWidth \in Nat \ {0}
    /\ ChunkBytes \in Nat /\ ChunkBytes >= MaxWidth
    /\ Ordered \in BOOLEAN

VARIABLES
    width,          \* width of each character of the text that is kept
    phase,          \* where the provider's task is
    produced,       \* characters the backend's stream has brought
    kept,           \* those of them appended to `pending'
    place,          \* history: where in the backend's text each one kept stood
    taken,          \* characters cut off `pending' and sent
    seq,            \* the next sequence number
    eof,            \* the backend's stream has ended
    chan,           \* messages in the data channel
    up,             \* the channel is open
    keyed,          \* pending_encrypted_consumer holds the request's keys
    streaming,      \* pending_encrypted_streams holds the request
    nextSeq,        \* ctx.next_seq
    reorder,        \* ctx.reorder
    handed,         \* characters sent to the HTTP handler
    result,         \* "none", "ok" or "error", as the HTTP handler sees it
    reports         \* roles that reported token usage to the lobby

textVars     == <<produced, kept, place>>
providerVars == <<phase, textVars, taken, seq, eof>>
consumerVars == <<keyed, streaming, nextSeq, reorder, handed, result>>
vars == <<width, providerVars, chan, up, consumerVars, reports>>

Phases == {"admit", "ack", "forward", "read", "flush", "ended", "failed"}

\* Bytes of the first n characters.
Offset == LET o[n \in 0..MaxChars] == IF n = 0 THEN 0 ELSE o[n-1] + width[n]
          IN  o
Bytes(from, to) == Offset[to] - Offset[from]

Chunk(n, from, to, done) ==
    [type |-> "chunk", seq |-> n, from |-> from, to |-> to, done |-> done]
Ack   == [type |-> "ack"]
Error == [type |-> "error"]

-----------------------------------------------------------------------------
Init ==
    /\ width \in [1..MaxChars -> 1..MaxWidth]
    /\ phase = "admit"
    /\ produced = 0 /\ kept = 0 /\ place = <<>>
    /\ taken = 0 /\ seq = 0 /\ eof = FALSE
    /\ chan = <<>> /\ up = TRUE
    /\ keyed = FALSE /\ streaming = FALSE
    /\ nextSeq = 0 /\ reorder = {}
    /\ handed = <<>> /\ result = "none"
    /\ reports = {}

-----------------------------------------------------------------------------
(* The provider's task *)

Sends(m) == up /\ chan' = Append(chan, m)

\* send_encrypted_stream_error ignores a failed send.
SendsError == chan' = IF up THEN Append(chan, Error) ELSE chan

\* Authentication, blocked peer, maintenance, approved model, backend: each
\* refusal is one error message.
Refuse ==
    /\ phase \in {"admit", "forward"}
    /\ phase' = "failed"
    /\ SendsError
    /\ UNCHANGED <<width, textVars, taken, seq, eof, up, consumerVars, reports>>

Admit ==
    /\ phase = "admit"
    /\ phase' = "ack"
    /\ UNCHANGED <<width, textVars, taken, seq, eof, chan, up,
                   consumerVars, reports>>

Acknowledge ==
    /\ phase = "ack"
    /\ Sends(Ack)
    /\ phase' = "forward"
    /\ UNCHANGED <<width, textVars, taken, seq, eof, up, consumerVars, reports>>

Forward ==
    /\ phase = "forward"
    /\ phase' = "read"
    /\ UNCHANGED <<width, textVars, taken, seq, eof, chan, up,
                   consumerVars, reports>>

\* A piece of the backend's stream is kept or, where it begins or ends within
\* a character, dropped without a word.
ReadPiece ==
    /\ phase = "read"
    /\ \E n \in 0..MaxPiece :
         /\ produced + n <= MaxChars
         /\ produced' = produced + n
         /\ \/ kept' = kept + n /\ place' = place \o [i \in 1..n |-> produced + i]
            \/ MaxWidth > 1 /\ UNCHANGED <<kept, place>>
    /\ phase' = "flush"
    /\ UNCHANGED <<width, taken, seq, eof, chan, up, consumerVars, reports>>

\* The backend ends, or fails in mid-stream: the loop does not tell them apart.
ReadEnd ==
    /\ phase = "read"
    /\ eof' = TRUE
    /\ phase' = "flush"
    /\ UNCHANGED <<width, textVars, taken, seq, chan, up, consumerVars, reports>>

\* Variant: the chunk is cut at the first boundary AFTER STREAM_CHUNK_BYTES.
CutAfter == CHOOSE e \in taken..kept :
              /\ Bytes(taken, e) >= ChunkBytes \/ e = kept
              /\ \A f \in taken..kept : Bytes(taken, f) >= ChunkBytes => e <= f

\* The end of the longest prefix of `pending' within one chunk.
Cut == CHOOSE e \in taken..kept :
         /\ Bytes(taken, e) <= ChunkBytes
         /\ \A f \in taken..kept : Bytes(taken, f) <= ChunkBytes => f <= e

MustCut == taken < kept /\ (Bytes(taken, kept) >= ChunkBytes \/ eof)

\* Variant: the sequence number is not advanced after a short final chunk.
FlushChunkStuckSeq ==
    /\ phase = "flush" /\ MustCut
    /\ Sends(Chunk(seq, taken, Cut, eof /\ Cut = kept))
    /\ taken' = Cut
    /\ seq' = IF Cut = kept THEN seq ELSE seq + 1
    /\ UNCHANGED <<width, phase, textVars, eof, up, consumerVars, reports>>

FlushChunk ==
    /\ phase = "flush" /\ MustCut
    /\ Sends(Chunk(seq, taken, Cut, eof /\ Cut = kept))
    /\ taken' = Cut
    /\ seq' = seq + 1
    /\ UNCHANGED <<width, phase, textVars, eof, up, consumerVars, reports>>

\* The loop leaves the rest in `pending' until more text comes; after the
\* final flush the provider reports the usage.
FlushStops ==
    /\ phase = "flush" /\ ~MustCut
    /\ phase' = IF eof THEN "ended" ELSE "read"
    /\ reports' = IF eof THEN reports \cup {"provider"} ELSE reports
    /\ UNCHANGED <<width, textVars, taken, seq, eof, chan, up, consumerVars>>

\* A failed send or encryption ends the task without telling the consumer.
SendFails ==
    /\ phase = "ack" \/ (phase = "flush" /\ MustCut)
    /\ phase' = "failed"
    /\ UNCHANGED <<width, textVars, taken, seq, eof, chan, up,
                   consumerVars, reports>>

-----------------------------------------------------------------------------
(* The channel *)

ChannelCloses ==
    /\ up
    /\ up' = FALSE
    /\ chan' = <<>>
    /\ UNCHANGED <<width, providerVars, consumerVars, reports>>

-----------------------------------------------------------------------------
(* The consumer *)

\* pending_encrypted_consumer.insert, after the request has been sent.
StoreKeys ==
    /\ ~keyed /\ result = "none"
    /\ keyed' = TRUE
    /\ UNCHANGED <<width, providerVars, chan, up, streaming, nextSeq, reorder,
                   handed, result, reports>>

OnAck(m) ==
    /\ m.type = "ack"
    /\ IF keyed
       THEN streaming' = TRUE /\ nextSeq' = 0 /\ reorder' = {}
       ELSE UNCHANGED <<streaming, nextSeq, reorder>>
    /\ UNCHANGED <<keyed, handed, result, reports>>

OnError(m) ==
    /\ m.type = "error"
    /\ keyed' = FALSE
    /\ result' = IF keyed /\ result = "none" THEN "error" ELSE result
    /\ UNCHANGED <<streaming, nextSeq, reorder, handed, reports>>

\* "missing encrypted stream state", or a chunk that does not decrypt.
OnBadChunk(m) ==
    /\ m.type = "chunk"
    /\ keyed' = FALSE /\ streaming' = FALSE
    /\ result' = IF result = "none" THEN "error" ELSE result
    /\ UNCHANGED <<nextSeq, reorder, handed, reports>>

\* The chunks that are now in line: from nextSeq, without a gap, up to the
\* first one marked done.
InLine(buffer) ==
    {c \in buffer :
        /\ c.seq >= nextSeq
        /\ \A n \in nextSeq..c.seq : \E b \in buffer :
             b.seq = n /\ (b.done => n = c.seq)}

\* They are taken one by one, in the order of their numbers.
Ready(line) ==
    [i \in 1..Cardinality(line) |-> CHOOSE c \in line : c.seq = nextSeq + i - 1]

Characters(c) == [i \in 1..(c.to - c.from) |-> c.from + i]

\* Variant: chunks are handed over as they come, without the reorder buffer.
OnChunkAtOnce(m) ==
    /\ m.type = "chunk" /\ streaming
    /\ handed' = handed \o Characters(m)
    /\ IF m.done
       THEN /\ streaming' = FALSE /\ keyed' = FALSE /\ result' = "ok"
            /\ reports' = reports \cup {"consumer"}
       ELSE UNCHANGED <<streaming, keyed, result, reports>>
    /\ UNCHANGED <<nextSeq, reorder>>

OnChunk(m) ==
    LET buffer == {c \in reorder : c.seq # m.seq} \cup {m}
        line   == InLine(buffer)
        ready  == Ready(line)
    IN
    /\ m.type = "chunk" /\ streaming
    /\ handed' = handed \o FlattenSeq([i \in DOMAIN ready |-> Characters(ready[i])])
    /\ nextSeq' = nextSeq + Len(ready)
    /\ reorder' = buffer \ line
    /\ IF \E c \in line : c.done
       THEN /\ streaming' = FALSE /\ keyed' = FALSE /\ result' = "ok"
            /\ reports' = reports \cup {"consumer"}
       ELSE UNCHANGED <<streaming, keyed, result, reports>>

Receive(i) ==
    /\ Ordered => i = 1
    /\ chan' = RemoveAt(chan, i)
    /\ LET m == chan[i] IN
         \/ OnAck(m)
         \/ OnError(m)
         \/ OnBadChunk(m)
         \/ OnChunk(m)
    /\ UNCHANGED <<width, providerVars, up>>

-----------------------------------------------------------------------------
ProviderStep ==
    \/ Refuse \/ Admit \/ Acknowledge \/ Forward
    \/ ReadPiece \/ ReadEnd \/ FlushChunk \/ FlushStops \/ SendFails

ConsumerStep == \E i \in DOMAIN chan : Receive(i)

Next == ProviderStep \/ ConsumerStep \/ StoreKeys \/ ChannelCloses

Spec == Init /\ [][Next]_vars

\* Both tasks are polled by tokio, and the channel delivers while it is open.
FairSpec == Spec /\ WF_vars(ProviderStep) /\ WF_vars(ConsumerStep)

-----------------------------------------------------------------------------
(* Properties *)

\* Every variable keeps its type.
TypeOK ==
    /\ width \in [1..MaxChars -> 1..MaxWidth]
    /\ phase \in Phases
    /\ produced \in 0..MaxChars
    /\ kept \in 0..produced /\ taken \in 0..kept
    /\ place \in Seq(1..MaxChars) /\ Len(place) = kept
    /\ seq \in 0..MaxChars /\ nextSeq \in 0..seq
    /\ eof \in BOOLEAN /\ up \in BOOLEAN
    /\ keyed \in BOOLEAN /\ streaming \in BOOLEAN
    /\ handed \in Seq(1..MaxChars)
    /\ result \in {"none", "ok", "error"}
    /\ reports \subseteq {"provider", "consumer"}

\* No chunk is longer than STREAM_CHUNK_BYTES: a longer one could exceed
\* MAX_DC_WIRE_BYTES once encrypted, and its send would fail.
ChunksFit ==
    \A i \in DOMAIN chan : chan[i].type = "chunk" =>
        Bytes(chan[i].from, chan[i].to) \in 1..ChunkBytes

\* Both, of the channel and of what each side keeps of the reply.
StreamInv == TypeOK /\ ChunksFit

\* The reply is a ByteStream: what the HTTP handler has received is a prefix
\* of the pieces of the backend's text that were whole UTF-8, and "complete"
\* means all of those, whatever the order of the chunks and wherever an error
\* or a lost channel strikes.  Nothing tells the caller of a dropped piece.
Stream == INSTANCE ByteStream WITH
            Length <- MaxChars, ended <- eof,
            handed <- [i \in DOMAIN handed |-> place[handed[i]]]
ImplementsByteStream == Stream!Spec

\* A stream that was acknowledged and closed with a chunk marked done ends for
\* the consumer, unless the channel is lost first.
DoneEndsStream ==
    (streaming /\ \E i \in DOMAIN chan : chan[i].type = "chunk" /\ chan[i].done)
        ~> (result # "none" \/ ~up)

=============================================================================
