-------------------------------- MODULE PubSub --------------------------------
(***************************************************************************)
(* Publish/subscribe (redis-stable/src/pubsub.c).  Who is subscribed to    *)
(* what is recorded twice: with the client, and with the server, by        *)
(* channel and as a list of patterns.  The record w passed through the     *)
(* operators holds                                                         *)
(*   conn      per client, channels (a set) and patterns (a list), and     *)
(*             pubsub, its CLIENT_PUBSUB flag                              *)
(*   channels  server.pubsub_channels: the clients of each channel         *)
(*   patterns  server.pubsub_patterns: a list of <<client, pattern>>       *)
(*   sent      the messages <<client, channel or pattern>> sent so far     *)
(***************************************************************************)
EXTENDS Integers, Sequences, FiniteSets
LOCAL INSTANCE SequencesExt

CONSTANTS Channels,
          Matches    \* the channels that match a pattern, by pattern

Patterns == DOMAIN Matches

clientSubscriptionsCount(w, c) ==
    Cardinality(w.conn[c].channels) + Len(w.conn[c].patterns)

-------------------------------------------------------------------------------
pubsubSubscribeChannel(w, c, ch) ==
    IF ch \in w.conn[c].channels THEN w
    ELSE [w EXCEPT !.conn[c].channels = @ \cup {ch}, !.channels[ch] = Append(@, c)]

pubsubUnsubscribeChannel(w, c, ch) ==
    IF ch \notin w.conn[c].channels THEN w
    ELSE [w EXCEPT !.conn[c].channels = @ \ {ch},
                   !.channels[ch] = SelectSeq(@, LAMBDA d : d # c)]

pubsubSubscribePattern(w, c, p) ==
    IF p \in Range(w.conn[c].patterns) THEN w
    ELSE [w EXCEPT !.conn[c].patterns = Append(@, p), !.patterns = Append(@, <<c, p>>)]

(* Mutant: the server forgets the first pattern of the client.             *)
UnsubscribeFirst(w, c, p) ==
    IF p \notin Range(w.conn[c].patterns) THEN w
    ELSE [w EXCEPT !.conn[c].patterns = SelectSeq(@, LAMBDA q : q # p),
                   !.patterns = RemoveAt(@, SelectInSeq(@, LAMBDA e : e[1] = c))]

pubsubUnsubscribePattern(w, c, p) ==
    IF p \notin Range(w.conn[c].patterns) THEN w
    ELSE [w EXCEPT !.conn[c].patterns = SelectSeq(@, LAMBDA q : q # p),
                   !.patterns = SelectSeq(@, LAMBDA e : e # <<c, p>>)]

pubsubUnsubscribeAllChannels(w, c) ==
    FoldLeft(LAMBDA v, ch : pubsubUnsubscribeChannel(v, c, ch), w, SetToSeq(w.conn[c].channels))

pubsubUnsubscribeAllPatterns(w, c) ==
    FoldLeft(LAMBDA v, p : pubsubUnsubscribePattern(v, c, p), w, w.conn[c].patterns)

(* First the clients of the channel, then the matching patterns.           *)
pubsubPublishMessage(w, ch) ==
    LET direct == FoldLeft(LAMBDA l, c : Append(l, <<c, ch>>), <<>>, w.channels[ch])
        matching == SelectSeq(w.patterns, LAMBDA e : ch \in Matches[e[2]])
    IN  [w EXCEPT !.sent = @ \o direct \o matching]

-------------------------------------------------------------------------------
(* Commands.  UNSUBSCRIBE and PUNSUBSCRIBE without arguments drop all.     *)

subscribeCommand(w, c, chs) ==
    [FoldLeft(LAMBDA v, ch : pubsubSubscribeChannel(v, c, ch), w, chs)
        EXCEPT !.conn[c].pubsub = TRUE]

(* The flag goes with the last subscription.                               *)
FlagPubsub(w, c) ==
    IF clientSubscriptionsCount(w, c) = 0 THEN [w EXCEPT !.conn[c].pubsub = FALSE] ELSE w

unsubscribeCommand(w, c, chs) ==
    FlagPubsub(IF chs = <<>> THEN pubsubUnsubscribeAllChannels(w, c)
               ELSE FoldLeft(LAMBDA v, ch : pubsubUnsubscribeChannel(v, c, ch), w, chs), c)

psubscribeCommand(w, c, ps) ==
    [FoldLeft(LAMBDA v, p : pubsubSubscribePattern(v, c, p), w, ps)
        EXCEPT !.conn[c].pubsub = TRUE]

punsubscribeCommand(w, c, ps) ==
    FlagPubsub(IF ps = <<>> THEN pubsubUnsubscribeAllPatterns(w, c)
               ELSE FoldLeft(LAMBDA v, p : pubsubUnsubscribePattern(v, c, p), w, ps), c)

publishCommand(w, ch) == pubsubPublishMessage(w, ch)

PubSubProc(w, c, cmd) ==
    CASE cmd[1] = "SUBSCRIBE" -> subscribeCommand(w, c, cmd[2])
      [] cmd[1] = "UNSUBSCRIBE" -> unsubscribeCommand(w, c, cmd[2])
      [] cmd[1] = "PSUBSCRIBE" -> psubscribeCommand(w, c, cmd[2])
      [] cmd[1] = "PUNSUBSCRIBE" -> punsubscribeCommand(w, c, cmd[2])
      [] cmd[1] = "PUBLISH" -> publishCommand(w, cmd[2])
===============================================================================
