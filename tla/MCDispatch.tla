----------------------------- MODULE MCDispatch -----------------------------
(* One message and one guild, two worker threads behind a queue of one, and *)
(* three bots: one that caches messages and looks at the updated ones, one *)
(* that caches guilds and looks at the updated ones, and one with commands *)
(* that names the empty one before it sets a prefix and again afterwards.  *)
EXTENDS Dispatch

CONSTANTS w1, w2

MCWorkers == {w1, w2}
MCIds == {1}
MCTraffic == {"READY", "GUILD_CREATE", "GUILD_UPDATE"} \cup MessageEvents
MCScripts ==
  {<<<<"cache", {"MESSAGES"}>>, <<"on", "MESSAGE_UPDATE">>>>,
   <<<<"cache", {"GUILDS"}>>, <<"on", "GUILD_UPDATE">>>>,
   <<<<"command", "">>, <<"prefix", "!">>, <<"command", "help">>,
     <<"command", "">>>>}
=============================================================================
