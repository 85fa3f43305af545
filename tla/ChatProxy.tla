----------------------------- MODULE ChatProxy -----------------------------
(***************************************************************************)
(* A request to the HTTP proxy of this node (llm_proxy.rs): where it is    *)
(* sent, and what becomes of the reply on its way to the client            *)
(* (agent_compat.rs, forward_ollama_chat_via_openai).                      *)
(*                                                                         *)
(* The request is for one model.  Handlers decide in several steps, each   *)
(* of which reads one of the list of local models, the routes of the       *)
(* registry and the models of the network, which change in between.        *)
(*                                                                         *)
(* A reply is a sequence of lines, cut by the transport wherever it        *)
(* likes: inside a line, inside a character, or before the newline.  The   *)
(* text of a line is a sequence of words, an opening brace and the rest of *)
(* a tool call; "call" directly after a brace makes it complete.           *)
(***************************************************************************)
EXTENDS Integers, Sequences, FiniteSets, SequencesExt

\* The requests: the entry point, whether the reply is streamed, what may be known of the
\* model, how often that changes before the request is sent on, and how many lines the
\* reply has at most.  Words are those of a reply, one for each line.
CONSTANTS Requests, Words

VARIABLES
  request, \* the entry point, the stream flag and the bounds
  offer,   \* what the handlers read: the list, the routes, the network, p2p_mode
  changes, \* how often the offer has changed
  views,   \* history: the offers there have been since the request came
  pc,      \* where the handler stands
  target,  \* where the request was sent, or how it was answered
  sent,    \* the lines the source of the reply has sent
  buffer,  \* the line of which only a part has arrived, if any
  state,   \* SseTransformState: the text held back
  done,    \* done_sent
  out      \* what the client has received

hvars == <<request, offer, changes, views, pc, target, sent, buffer, state, done, out>>

\* A model is hosted by an "ollama" server or a "cell" (an OpenAI-compatible one), as far
\* as the routes say; servers are the kinds of server attached.  The list of local models,
\* the merged catalogue and the routes are written one after the other.
Offering == [listed : BOOLEAN, merged : BOOLEAN, routed : {"none", "ollama", "cell"},
             servers : SUBSET {"ollama", "cell"}, hidden : BOOLEAN,
             network : SUBSET {"cluster", "swarm"}, mode : {"cluster", "swarm", "both"}]

\* The model is asked about, not used, by show and tags.
Uses == {"agent", "chat", "generate", "embed", "embeddings", "pull"}
Entries == Uses \cup {"show", "tags"}

\* The server that hosts a model is attached, and a reply has no more lines than words.
ASSUME ChatProxyAssumption ==
  /\ Words \in Seq({Words[i] : i \in DOMAIN Words})
  /\ \A i \in DOMAIN Words : Words[i] \notin {"{", "call"}
  /\ \A r \in Requests :
       /\ r.entry \in Entries /\ r.stream \in BOOLEAN
       /\ r.offers \subseteq {o \in Offering : o.routed # "none" => o.routed \in o.servers}
       /\ r.changes \in Nat /\ r.lines \in 0..Len(Words)
Text(content, finish) == [kind |-> "text", content |-> content, finish |-> finish]
Plain(kind) == [kind |-> kind, content |-> <<>>, finish |-> FALSE]
Lines(i) ==
  {Text(<<Words[i]>>, FALSE), Text(<<Words[i]>>, TRUE), Text(<<"{">>, FALSE),
   Text(<<Words[i], "{">>, FALSE), Text(<<"{", "call">>, FALSE), Text(<<"call">>, FALSE),
   Text(<<>>, TRUE), Plain("tools"), Plain("done"), Plain("bare"), Plain("other")}

----------------------------------------------------------------------------
ChatInit ==
  /\ request \in Requests
  /\ offer \in request.offers
  /\ changes = 0 /\ views = {offer}
  /\ pc = "new"
  /\ target = "none"
  /\ sent = <<>> /\ buffer = <<>>
  /\ state = [held |-> <<>>, hold |-> FALSE]
  /\ done = FALSE
  /\ out = <<>>

Reply == <<sent, buffer, state, done, out>>
Go(next) == pc' = next /\ UNCHANGED <<request, offer, changes, views, target>> /\ UNCHANGED Reply
End(result) ==
  /\ pc' = "over" /\ target' = result
  /\ UNCHANGED <<request, offer, changes, views>> /\ UNCHANGED Reply
SendTo(place) ==
  /\ pc' = "reply" /\ target' = place
  /\ UNCHANGED <<request, offer, changes, views>> /\ UNCHANGED Reply

\* A rebuild, a detach, an announcement or a setting.
OfferChanges ==
  /\ pc \notin {"reply", "over", "failed"} /\ changes < request.changes
  /\ \E new \in request.offers : offer' = new /\ views' = views \cup {new}
  /\ changes' = changes + 1
  /\ UNCHANGED <<request, pc, target>> /\ UNCHANGED Reply

Routed == offer.routed # "none"

Enter ==
  /\ pc = "new"
  /\ \/ /\ request.entry = "agent"
        /\ Go(IF offer.listed THEN "require" ELSE "dispatch")
     \/ /\ request.entry = "chat"
        /\ Go(IF Routed THEN "require" ELSE "proxy")
     \/ /\ request.entry = "generate"
        /\ Go(IF offer.listed THEN "ollama" ELSE "proxy")
     \/ /\ request.entry \in {"embed", "embeddings", "pull"}
        /\ Go("require")
     \/ /\ request.entry = "show"
        /\ Go(IF ~offer.listed /\ offer.network # {} THEN "remote" ELSE "describe")
     \/ /\ request.entry = "tags"
        /\ IF offer.hidden THEN End("absent") ELSE Go("tags")

\* generate looks for an Ollama server before it lets the request through.
RequireOllama ==
  /\ pc = "ollama"
  /\ IF "ollama" \in offer.servers THEN Go("proxy") ELSE End("503")

RequireBackend ==
  /\ pc = "require"
  /\ \/ /\ ~Routed
        /\ End("404")
     \/ /\ Routed
        /\ \/ request.entry = "agent" /\ SendTo("host")
           \/ /\ request.entry = "chat"
              /\ IF offer.routed = "ollama" THEN Go("proxy") ELSE SendTo("host")
           \/ request.entry = "embeddings" /\ Go("forward")
           \/ /\ request.entry \in {"embed", "pull"}
              /\ IF offer.routed = "ollama" THEN Go("forward") ELSE End("501")

\* forward_local_json looks for the server again.
Forward ==
  /\ pc = "forward"
  /\ IF Routed THEN SendTo("host") ELSE End("404")

\* What a network says of the model is an answer; it is looked for a second time.
ShowRemote ==
  /\ pc = "remote"
  /\ End(IF offer.network # {} THEN "info" ELSE "404")

Describe ==
  /\ pc = "describe"
  /\ IF offer.servers = {} THEN End("503")
     ELSE Go(IF "ollama" \in offer.servers THEN "forward" ELSE "describe local")

DescribeLocal ==
  /\ pc = "describe local"
  /\ End(IF offer.listed THEN "info" ELSE "404")

\* Listing: is there a server; what does the merged catalogue say; what do the list of
\* local models and the networks say.
Tags ==
  /\ pc = "tags"
  /\ Go(IF offer.servers = {} THEN "tags of networks" ELSE "tags of servers")

TagsOfServers ==
  /\ pc = "tags of servers"
  /\ Go(IF offer.merged THEN "tagged here" ELSE "tagged nowhere")

\* A variant adds what the networks offer without a look at the list.
TimesWithAllOffers(here) ==
  LET there == offer.network # {} IN
  IF here /\ there THEN "twice" ELSE IF here \/ there THEN "once" ELSE "absent"
Times(here) ==
  LET there == offer.network # {} /\ ~offer.listed IN
  IF here /\ there THEN "twice" ELSE IF here \/ there THEN "once" ELSE "absent"

TagsMerged ==
  \/ pc = "tagged here" /\ End(Times(TRUE))
  \/ pc = "tagged nowhere" /\ End(Times(FALSE))
  \/ /\ pc = "tags of networks"
     /\ End(IF offer.network # {} THEN "once" ELSE "absent")

\* handle_proxy_request decides by the list once more.  A variant lets a chat with a
\* local model go to the networks.
ProxyListAfterRoutes ==
  /\ pc = "proxy"
  /\ Go(IF offer.listed /\ request.entry # "chat" THEN "local" ELSE "dispatch")
ProxyList ==
  /\ pc = "proxy"
  /\ Go(IF offer.listed THEN "local" ELSE "dispatch")

ProxyLocal ==
  /\ pc = "local"
  /\ \/ offer.routed = "ollama" /\ SendTo("host")
     \/ offer.routed # "ollama" /\ "ollama" \in offer.servers /\ SendTo("spare")
     \/ offer.routed # "ollama" /\ "ollama" \notin offer.servers /\ End("503")

\* The swarm comes first where both networks may be used.
ScopeOf(o) ==
  LET usable == IF o.mode = "both" THEN o.network ELSE o.network \cap {o.mode} IN
  IF "swarm" \in usable THEN "swarm" ELSE IF "cluster" \in usable THEN "cluster" ELSE "502"
Scope == ScopeOf(offer)

Dispatch ==
  /\ pc = "dispatch"
  /\ IF Scope = "502" THEN End("502") ELSE SendTo(Scope)

----------------------------------------------------------------------------
\* How the reply is carried on.
Remote == target \in {"cluster", "swarm"}
Carrier == IF request.entry = "agent" THEN IF request.stream THEN "rewrite" ELSE "collect"
           ELSE IF request.entry = "chat" /\ target = "host" /\ offer.routed = "cell"
             THEN IF request.stream THEN "translate" ELSE "content"
           ELSE "raw"
Streamed == Carrier \in {"rewrite", "translate", "raw"}

Shown(line) == IF line.kind = "text" /\ line.content = <<>> THEN Plain("stop") ELSE line

\* The text held back is a tool call when its first object is one.
IsCall(held) == Len(held) > 1 /\ held[1] = "{" /\ held[2] = "call"

Answer(s, lines) == [state |-> s, lines |-> lines]
Released == [held |-> <<>>, hold |-> FALSE]
CompleteSuppressed(s) ==
  Answer(Released, <<Plain(IF IsCall(s.held) THEN "call" ELSE "stop")>>)

FlushOnStreamEnd(s) ==
  IF s.hold /\ s.held # <<>> THEN CompleteSuppressed(s) ELSE Answer(s, <<>>)

\* What stands before the first brace goes on, the rest is held back.
Split(s, line) ==
  LET brace == CHOOSE i \in DOMAIN line.content :
                 /\ line.content[i] = "{"
                 /\ \A j \in 1..(i - 1) : line.content[j] # "{"
      before == SubSeq(line.content, 1, brace - 1)
      rest == SubSeq(line.content, brace, Len(line.content))
  IN Answer([held |-> s.held \o rest, hold |-> TRUE],
            IF before = <<>> THEN <<>> ELSE <<[line EXCEPT !.content = before]>>)

\* A variant that begins to hold in spite of a text held already.
ProcessTextAnew(s, line) ==
  IF "{" \in {line.content[i] : i \in DOMAIN line.content}
    THEN Split(Released, line)
  ELSE IF line.finish /\ s.hold
    THEN CompleteSuppressed(s)
  ELSE Answer(s, <<Shown(line)>>)
ProcessText(s, line) ==
  IF line.content # <<>> /\ s.hold
    THEN Answer([s EXCEPT !.held = @ \o line.content], <<>>)
  ELSE IF "{" \in {line.content[i] : i \in DOMAIN line.content}
    THEN Split(s, line)
  ELSE IF line.finish /\ s.hold
    THEN CompleteSuppressed(s)
  ELSE Answer(s, <<Shown(line)>>)
ProcessLine(s, line) ==
  IF line.kind = "text" THEN ProcessText(s, line)
  ELSE IF line.kind \in {"done", "bare"}
    THEN LET flushed == FlushOnStreamEnd(s) IN
         Answer(flushed.state, Append(flushed.lines, Plain("done")))
  ELSE Answer(s, <<line>>)

\* forward_ollama_chat_via_openai passes text on and knows only "data: [DONE]".
\* A variant drops the text that comes with the end.
TranslateUnfinished(s, line) ==
  Answer(s, IF line.kind = "text" /\ line.content # <<>> /\ ~line.finish
            THEN <<line>>
            ELSE IF line.kind = "done" THEN <<line>> ELSE <<>>)
Translate(s, line) ==
  Answer(s, IF line.kind = "text" /\ line.content # <<>>
            THEN <<[line EXCEPT !.finish = FALSE]>>
            ELSE IF line.kind = "done" THEN <<line>> ELSE <<>>)

Carry(s, line) == CASE Carrier = "rewrite" -> ProcessLine(s, line)
                    [] Carrier = "translate" -> Translate(s, line)
                    [] OTHER -> Answer(s, <<line>>)

\* A remote reply looks for [DONE] among the lines it puts out as well.
SeesDone(line, lines) ==
  \/ line.kind = "done"
  \/ Remote /\ \E i \in DOMAIN lines : lines[i].kind = "done"

Arrive(line) ==
  LET answer == Carry(state, line) IN
  /\ state' = answer.state
  /\ out' = out \o answer.lines
  /\ done' = (done \/ SeesDone(line, answer.lines))
  /\ pc' = IF Carrier = "translate" /\ line.kind = "done" THEN "over" ELSE pc

SourceOpen == /\ pc = "reply" /\ buffer = <<>> /\ Len(sent) < request.lines
              /\ \A i \in DOMAIN sent : sent[i].kind \notin {"done", "bare"}

\* A line arrives whole.
Whole ==
  /\ SourceOpen
  /\ \E line \in Lines(Len(sent) + 1) : sent' = Append(sent, line) /\ Arrive(line)
  /\ UNCHANGED <<request, offer, changes, views, target, buffer>>

\* Or a part of it: a piece, a piece that ends inside a character, all but the newline.
Part ==
  /\ SourceOpen /\ Streamed
  /\ \E line \in Lines(Len(sent) + 1), part \in {"piece", "character", "line"} :
       /\ part = "character" => line.content # <<>> /\ line.content[1] \notin {"{", "call"}
       /\ sent' = Append(sent, line)
       /\ buffer' = <<[line |-> line, part |-> part]>>
  /\ UNCHANGED <<request, offer, changes, views, pc, target, state, done, out>>

\* Bytes become text piece by piece here: a character in two pieces is damaged.  A peer's
\* reply arrives as text.
Damaged(cut) == IF cut.part = "character" /\ ~Remote /\ Carrier \in {"rewrite", "translate"}
                THEN [cut.line EXCEPT !.content[1] = "damaged"] ELSE cut.line
Rest ==
  /\ pc = "reply" /\ buffer # <<>>
  /\ Arrive(Damaged(buffer[1]))
  /\ buffer' = <<>>
  /\ UNCHANGED <<request, offer, changes, views, target, sent>>

\* The line left over when the reply ends.
Left == IF buffer = <<>> THEN <<>>
        ELSE IF buffer[1].part = "line" THEN <<buffer[1].line>> ELSE <<Plain("broken")>>

\* A variant that leaves [DONE] to the source.
FinalizeFlush(s, sawDone) == FlushOnStreamEnd(s).lines
FinalizeStream(s, sawDone) ==
  LET flushed == FlushOnStreamEnd(s) IN
  flushed.lines \o (IF sawDone THEN <<>> ELSE <<Plain("done")>>)

\* The loop is left: what remains is processed, then the stream is finished off.
Finish(before) ==
  LET left == IF Left = <<>> THEN Answer(state, <<>>) ELSE Carry(state, Left[1])
      sawDone == done \/ (Remote /\ Left # <<>> /\ SeesDone(Left[1], left.lines))
  IN
  CASE Carrier = "rewrite" ->
         out' = out \o before \o left.lines \o FinalizeStream(left.state, sawDone)
    [] Carrier = "translate" -> out' = Append(out, Plain("done"))
    [] Carrier = "raw" -> out' = out \o left.lines \o before

\* A reply that is not streamed is read to its end, then rewritten.
Content(lines) == LET texts == [i \in DOMAIN lines |-> lines[i].content] IN FlattenSeq(texts)
Rewritten(lines) ==
  LET content == Content(lines)
      braces == {i \in DOMAIN content : content[i] = "{"}
      first == CHOOSE i \in braces : \A j \in braces : i <= j
  IN
  IF \E i \in DOMAIN lines : lines[i].kind = "tools" THEN <<Plain("tools")>>
  ELSE IF braces # {} /\ IsCall(SubSeq(content, first, Len(content))) THEN <<Plain("call")>>
  ELSE <<Text(content, TRUE)>>

Gathered(lines) == IF Carrier = "collect" THEN Rewritten(lines) ELSE <<Text(Content(lines), TRUE)>>

SourceEnds ==
  /\ pc = "reply"
  /\ IF Streamed THEN Finish(<<>>) ELSE out' = Gathered(sent)
  /\ pc' = "over"
  /\ UNCHANGED <<request, offer, changes, views, target, sent, buffer, state, done>>

\* The source fails: the connection of the client is broken off, or the error is a part
\* of a peer's reply.  A reply for an Ollama client of a cell just ends there; not streamed
\* it becomes an empty answer that is complete.
SourceFails ==
  /\ pc = "reply"
  /\ \/ /\ Carrier = "translate" \/ (Streamed /\ Remote)
        /\ Finish(<<Plain("error")>>)
     \/ /\ Carrier \in {"rewrite", "raw"} /\ ~Remote
        /\ out' = Append(out, Plain("aborted"))
     \/ /\ Carrier = "collect"
        /\ out' = <<Plain("error")>>
     \/ /\ Carrier = "content"
        /\ out' = <<Text(<<>>, TRUE)>>
  /\ pc' = "failed"
  /\ UNCHANGED <<request, offer, changes, views, target, sent, buffer, state, done>>

ChatNext == \/ OfferChanges \/ Enter \/ RequireOllama \/ RequireBackend \/ Forward
        \/ ShowRemote \/ Describe \/ DescribeLocal \/ Tags \/ TagsOfServers \/ TagsMerged
        \/ ProxyList \/ ProxyLocal \/ Dispatch \/ Whole \/ Part \/ Rest \/ SourceEnds \/ SourceFails
ChatSpec == ChatInit /\ [][ChatNext]_hvars /\ WF_hvars(ChatNext)

----------------------------------------------------------------------------
Places == {"host", "spare", "cluster", "swarm"}

\* The state is well formed: text is held back only by a rewritten reply, and only with the
\* brace it began with.
ChatTypeOK ==
  /\ request \in Requests /\ offer \in Offering
  /\ pc \in {"new", "require", "ollama", "proxy", "local", "dispatch", "forward", "remote",
            "describe", "describe local", "tags", "tags of servers", "tags of networks",
            "tagged here", "tagged nowhere", "reply", "over", "failed"}
  /\ target \in Places \cup {"none", "404", "501", "502", "503", "info", "absent", "once",
                              "twice"}
  /\ state.hold <=> state.held # <<>>
  /\ state.hold => Carrier = "rewrite" /\ state.held[1] = "{"

Decided == pc \in {"reply", "over", "failed"}

\* The model is hosted by a server of a kind, or by none, all the while a request is handled;
\* and all the while a network offers it, or none does.
HostedBy(kind) == \A o \in views : o.listed /\ o.merged /\ o.routed = kind
Elsewhere == \A o \in views : ~o.listed /\ ~o.merged /\ o.routed = "none"
Everywhere == \A o \in views : o.network # {}
Nowhere == \A o \in views : o.network = {}

\* Whatever else changes between the steps of its handler: a request for the model of an
\* Ollama server reaches it.  One for a cell's does if the entry point serves cells, and is
\* refused by embed and pull; generate hands it to any Ollama server attached, which does not
\* have the model.  One for a model of other nodes alone reaches a network that offered it,
\* or is told there was none; embed, embeddings and pull know no other nodes.  Nothing
\* leaves this node but for a model that was not listed here (chat_completion, generate,
\* handle_agent_chat_request, handle_proxy_request).
SentWhereItBelongs ==
  Decided /\ request.entry \in Uses =>
    /\ HostedBy("ollama") => target = "host"
    /\ HostedBy("cell") =>
         /\ request.entry \in {"agent", "chat", "embeddings"} => target = "host"
         /\ request.entry \in {"embed", "pull"} => target = "501"
         /\ request.entry = "generate" => target \in {"spare", "503"}
    /\ Elsewhere => IF request.entry \in {"embed", "embeddings", "pull"} THEN target = "404"
                    ELSE \E o \in views : target = ScopeOf(o)
    /\ target \in {"cluster", "swarm"} =>
         /\ \E o \in views : ~o.listed
         /\ \E o \in views : target = ScopeOf(o)

\* A request on its way to a server or a network.
RouteInv == ChatTypeOK /\ SentWhereItBelongs

\* A model that is here or in a network all the while is listed once, and can be described;
\* one that is nowhere is neither.  Both go by the networks of every mode, also by those that
\* p2p_mode keeps requests from.  Left out is a cell's model while an Ollama server is
\* attached too: show posts /api/show to the cell, which does not know it (list_models,
\* v1_models, show_model_info).
ListedAreDescribed ==
  /\ Decided /\ request.entry = "tags" /\ (\A o \in views : ~o.hidden) =>
       /\ HostedBy("ollama") \/ HostedBy("cell") \/ (Elsewhere /\ Everywhere) => target = "once"
       /\ Elsewhere /\ Nowhere => target = "absent"
  /\ Decided /\ request.entry = "show" =>
       /\ HostedBy("ollama") => target = "host"
       /\ HostedBy("cell") /\ (\A o \in views : "ollama" \notin o.servers) => target = "info"
       /\ Elsewhere /\ Everywhere => target = "info"
       /\ Elsewhere /\ Nowhere => target \in {"404", "503"}

Over == pc \in {"over", "failed"} /\ target \in Places
Cut == Left # <<>> /\ Left[1].kind = "broken"
Broken == \E i \in DOMAIN out : out[i].kind \in {"error", "aborted"}

\* The text of a line is held back from the first brace on until the source says the text
\* is finished, by a line of its own.
Braced(i) == \E k \in DOMAIN sent[i].content : sent[i].content[k] = "{"
Releases(i) == \/ sent[i].kind \in {"done", "bare"}
               \/ sent[i].kind = "text" /\ sent[i].content = <<>>
HeldFrom(j, i) == j < i /\ Braced(j) /\ \A k \in (j + 1)..(i - 1) : ~Releases(k)
Opens(j) == Braced(j) /\ ~ \E h \in DOMAIN sent : HeldFrom(h, j)
WordShown(i) ==
  /\ sent[i].content # <<>> /\ sent[i].content[1] \notin {"{", "call"}
  /\ ~ \E j \in DOMAIN sent : HeldFrom(j, i)
\* What follows the brace that opens in line j, up to where the text is finished.
From(j) == LET here == sent[j].content
               at == CHOOSE k \in DOMAIN here : here[k] = "{"
               held == {i \in DOMAIN sent : HeldFrom(j, i) /\ ~Releases(i)}
               later == SetToSortSeq(held, <)
           IN SubSeq(here, at, Len(here)) \o FlattenSeq([n \in DOMAIN later |-> sent[later[n]].content])

WordsOf(lines) == SelectSeq(FlattenSeq([i \in DOMAIN lines |-> lines[i].content]),
                            LAMBDA a : a \notin {"{", "call"})
Same(a, b) == Len(a) = Len(b) /\ \A i \in DOMAIN a : a[i] \in {b[i], "damaged"}
Calls(lines) == Cardinality({i \in DOMAIN lines : lines[i].kind = "call"})

\* Wherever the transport cuts it, a rewritten reply shows the words that no brace holds
\* back, in order and once, and every complete tool call written as text once as a call
\* (SseTransformState::process_line, flush_on_stream_end).
ShownAsWritten ==
  Over /\ Carrier = "rewrite" /\ ~Broken /\ ~Cut =>
    /\ Same(WordsOf(out), WordsOf(SelectSeq([i \in DOMAIN sent |->
              IF WordShown(i) THEN [sent[i] EXCEPT !.content = <<@[1]>>] ELSE Plain("other")],
              LAMBDA line : line.kind = "text")))
    /\ Calls(out) = Cardinality({j \in DOMAIN sent : Opens(j) /\ IsCall(From(j))})

\* A rewritten stream that is not broken off ends with [DONE], or with a peer's error that
\* came after it, and a peer's has no other [DONE].  A
\* local one has two when the source writes [DONE] without its prefix or its newline
\* (finalize_stream: clients hang if the stream never ends with [DONE]).
EndsWithDone ==
  Over /\ Carrier = "rewrite" /\ ~(~Remote /\ Broken) =>
    /\ \E i \in DOMAIN out : /\ out[i].kind = "done"
                            /\ \/ i = Len(out)
                               \/ out[i + 1].kind = "error"
    /\ \/ Cardinality({i \in DOMAIN out : out[i].kind = "done"}) = 1
       \/ ~Remote /\ (\/ \E i \in DOMAIN sent : sent[i].kind = "bare"
                      \/ Left # <<>> /\ Left[1].kind = "done")

\* Streamed or not, an answer says the same as long as no brace is in it: the words a
\* client of either kind is shown are those the source wrote, unless a piece of the last
\* line is all that came.  A failure shows, as an error or a stream broken off, with one
\* exception, the Ollama client of a cell that is not streamed: where the body cannot be
\* read it is given an empty answer (forward_ollama_chat_via_openai, rewrite_chat_response).
PlainTextKept ==
  Over /\ ~Broken /\ Left = <<>> /\ Carrier # "raw"
       /\ (\A i \in DOMAIN sent : ~Braced(i) /\ sent[i].kind # "tools") =>
    IF pc = "failed" /\ Carrier = "content" THEN WordsOf(out) = <<>>
    ELSE Same(WordsOf(out), WordsOf(sent))
=============================================================================
