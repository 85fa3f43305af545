---------------------------- MODULE MCChatProxy ----------------------------
\* Where requests go, with everything that can be known of a model; and what becomes of
\* replies of up to four lines, for each way a reply is carried.
EXTENDS ChatProxy

MCWords == <<"w1", "w2", "w3", "w4">>

Request(entry, stream, offers, changing, lines) ==
  [entry |-> entry, stream |-> stream, offers |-> offers, changes |-> changing,
   lines |-> lines]

\* The server that hosts a model is attached.
Possible == {o \in Offering : o.routed # "none" => o.routed \in o.servers}
\* Where the model may be used, the swarm being the network that p2p_mode may rule out; the
\* listings, which do not read the mode.
Usable == {o \in Possible : /\ o.merged = o.listed /\ ~o.hidden
                            /\ o.mode # "swarm" /\ o.network # {"cluster"}}
Listable == {o \in Possible : o.mode = "both" /\ o.network # {"swarm"}}
Here(kind) == [listed |-> TRUE, merged |-> TRUE, routed |-> kind, servers |-> {kind},
               hidden |-> FALSE, network |-> {}, mode |-> "both"]
Away == [listed |-> FALSE, merged |-> FALSE, routed |-> "none", servers |-> {},
         hidden |-> FALSE, network |-> {"cluster"}, mode |-> "cluster"]

\* A model that moves: both kinds of server, one kind alone, a network, and half way.
Moving == {Here("ollama"), Here("cell"), Away, [Here("cell") EXCEPT !.servers = {"ollama", "cell"}],
           [Away EXCEPT !.listed = TRUE], [Here("ollama") EXCEPT !.listed = FALSE, !.network = {"swarm"}]}

MCRequests ==
  {Request(e, TRUE, Usable, 1, 0) : e \in Uses} \cup
  {Request(e, TRUE, Moving, 3, 0) : e \in Entries} \cup
  {Request(e, FALSE, Listable, 1, 0) : e \in {"show", "tags"}} \cup
  {Request("agent", TRUE, {o}, 0, 4) : o \in {Here("ollama"), Away}} \cup
  {Request("agent", FALSE, {o}, 0, 3) : o \in {Here("ollama"), Away}} \cup
  {Request("chat", stream, {Here("cell")}, 0, 3) : stream \in BOOLEAN} \cup
  {Request("generate", TRUE, {o}, 0, 2) : o \in {Here("ollama"), Away}}
=============================================================================
