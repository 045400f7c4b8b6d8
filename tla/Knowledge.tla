------------------------------ MODULE Knowledge ------------------------------
(***************************************************************************)
(* The knowledge rule of pkg/knowledge/knowledge.go: the loaded assets,    *)
(* the channel-name cache channelIDMap, getChannelName and the callback    *)
(* defaultKnowledgeHandler that the dispatcher invokes for every message.  *)
(*                                                                         *)
(* A knowledge asset is a record                                           *)
(*   [on |-> TokenMatch, watchThreads |-> BOOLEAN,                         *)
(*    context |-> NoContext | [channels |-> set of channel names,          *)
(*                             tokens |-> the tokens of the terms that     *)
(*                                        GetPathContextTerms returns],    *)
(*    requireIn |-> set of channel names ({} when RequireInChannel is      *)
(*                  empty)]                                                *)
(* A message event is a record with at least the fields channel (an id)    *)
(* and thread (ThreadTimeStamp # "").                                      *)
(***************************************************************************)
EXTENDS MatchTree

CONSTANTS
  Assets,       \* knowledgeAssets, in load (directory walk) order
  NoContext     \* asset.ChannelContext == nil

VARIABLES
  channelIDMap, \* the cache of getChannelName: channel id -> name
  channelName   \* the name Slack currently reports for each channel id

(* getChannelName caching the failed lookup's empty name, kept as a mutant.*)
getChannelNameCachesFailure(cache, ch, clientOk, lookupOk) ==
  CASE ~clientOk -> [ok |-> FALSE, name |-> "", cache |-> cache]
    [] ch \in DOMAIN cache -> [ok |-> TRUE, name |-> cache[ch], cache |-> cache]
    [] OTHER -> [ok |-> lookupOk, name |-> IF lookupOk THEN channelName[ch] ELSE "",
        cache |-> [c \in DOMAIN cache \cup {ch} |->
                      IF c = ch THEN (IF lookupOk THEN channelName[ch] ELSE "")
                      ELSE cache[c]]]

(* The outcome of getChannelName for channel id ch. getCachedClient comes  *)
(* first: the package's slackClient is never set (line 155 declares a new  *)
(* one), so util.GetClient runs on every call and its failure (clientOk =  *)
(* FALSE) is an error even when the name is cached. Then the cached name,  *)
(* or the name fetched by GetConversationInfo (cached on success), or an   *)
(* error when that call fails (lookupOk = FALSE).                          *)
getChannelName(cache, ch, clientOk, lookupOk) ==
  CASE ~clientOk -> [ok |-> FALSE, name |-> "", cache |-> cache]
    [] ch \in DOMAIN cache -> [ok |-> TRUE, name |-> cache[ch], cache |-> cache]
    [] lookupOk -> [ok |-> TRUE, name |-> channelName[ch],
                    cache |-> [c \in DOMAIN cache \cup {ch} |->
                                  IF c = ch THEN channelName[ch] ELSE cache[c]]]
    [] OTHER -> [ok |-> FALSE, name |-> "", cache |-> cache]

(* The asset's RequireInChannel list is empty or names the channel.       *)
InRequiredChannel(entry, name) ==
  entry.requireIn = {} \/ name \in entry.requireIn

(* The loop of defaultKnowledgeHandler from asset idx. args carries the    *)
(* tokens appended so far: the slice is never reset between assets. ch is  *)
(* the local channel name ("" until first looked up), first the index of   *)
(* the first matching asset (0 when none yet). The result is the           *)
(* callback's outcome ("reply", "empty", "error" or "panic"), the asset    *)
(* that answers and the cache after the call.                              *)
RECURSIVE KnowledgeLoop(_, _, _, _, _, _, _, _)
KnowledgeLoop(idx, args, ch, first, evt, cache, clientOk, lookupOk) ==
  IF idx > Len(Assets)
    THEN [outcome |-> IF first = 0 THEN "empty" ELSE "reply",
          asset |-> first, cache |-> cache]
  ELSE
  LET entry  == Assets[idx]
      needCh == ch = "" /\ (entry.context # NoContext \/ entry.requireIn # {})
      look   == getChannelName(cache, evt.channel, clientOk, lookupOk)
      name   == IF needCh THEN look.name ELSE ch
      cache2 == IF needCh THEN look.cache ELSE cache
      args2  == IF entry.context # NoContext /\ name \in entry.context.channels
                  THEN args \o entry.context.tokens ELSE args
      r      == IsTokenMatch(entry.on, NormalizeTokens(args2))
      next(a, f) == KnowledgeLoop(idx + 1, a, name, f, evt, cache2, clientOk, lookupOk)
  IN
  CASE ~entry.watchThreads /\ evt.thread ->
         KnowledgeLoop(idx + 1, args, ch, first, evt, cache, clientOk, lookupOk)
    [] needCh /\ ~look.ok ->
         [outcome |-> "error", asset |-> 0, cache |-> look.cache]
    [] ~InRequiredChannel(entry, name) ->
         next(args2, first)
    [] r = Panic ->
         [outcome |-> "panic", asset |-> 0, cache |-> cache2]
    [] OTHER ->
         next(args2, IF r /\ first = 0 THEN idx ELSE first)

(* defaultKnowledgeEventHandler / defaultKnowledgeHandler: the outcome of  *)
(* the knowledge callback for the argument tokens args of message evt.     *)
defaultKnowledgeHandler(args, evt, clientOk, lookupOk) ==
  KnowledgeLoop(1, args, "", 0, evt, channelIDMap, clientOk, lookupOk)
=============================================================================
