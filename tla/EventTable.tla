----------------------------- MODULE EventTable -----------------------------
(***************************************************************************)
(* The Gateway's dispatch events and the intents that the setter of each   *)
(* event's callback adds (winecord-events.c), in the order of that file.   *)
(* An event whose setter adds no intent is sent to every client.           *)
(***************************************************************************)
EXTENDS TLC

LOCAL Asks(events, intents) == [e \in events |-> intents]

ModerationIntents ==
  Asks({"READY", "APPLICATION_COMMAND_PERMISSIONS_UPDATE"}, {})
  @@ Asks({"AUTO_MODERATION_RULE_CREATE", "AUTO_MODERATION_RULE_UPDATE",
           "AUTO_MODERATION_RULE_DELETE"}, {"AUTO_MODERATION_CONFIGURATION"})
  @@ Asks({"AUTO_MODERATION_ACTION_EXECUTION"}, {"AUTO_MODERATION_EXECUTION"})

ChannelIntents ==
  Asks({"CHANNEL_CREATE", "CHANNEL_UPDATE", "CHANNEL_DELETE", "THREAD_CREATE",
        "THREAD_UPDATE", "THREAD_DELETE", "THREAD_LIST_SYNC",
        "THREAD_MEMBER_UPDATE"}, {"GUILDS"})
  @@ Asks({"CHANNEL_PINS_UPDATE"}, {"GUILDS", "DIRECT_MESSAGES"})
  @@ Asks({"THREAD_MEMBERS_UPDATE"}, {"GUILDS", "GUILD_MEMBERS"})

GuildIntents ==
  Asks({"GUILD_CREATE", "GUILD_UPDATE", "GUILD_DELETE", "GUILD_ROLE_CREATE",
        "GUILD_ROLE_UPDATE", "GUILD_ROLE_DELETE"}, {"GUILDS"})
  @@ Asks({"GUILD_BAN_ADD", "GUILD_BAN_REMOVE"}, {"GUILD_BANS"})
  @@ Asks({"GUILD_EMOJIS_UPDATE", "GUILD_STICKERS_UPDATE"},
          {"GUILD_EMOJIS_AND_STICKERS"})
  @@ Asks({"GUILD_INTEGRATIONS_UPDATE"}, {"GUILD_INTEGRATIONS"})
  @@ Asks({"GUILD_MEMBER_ADD", "GUILD_MEMBER_UPDATE", "GUILD_MEMBER_REMOVE"},
          {"GUILD_MEMBERS"})
  @@ Asks({"GUILD_MEMBERS_CHUNK"}, {})

SchedulingIntents ==
  Asks({"GUILD_SCHEDULED_EVENT_CREATE", "GUILD_SCHEDULED_EVENT_UPDATE",
        "GUILD_SCHEDULED_EVENT_DELETE", "GUILD_SCHEDULED_EVENT_USER_ADD",
        "GUILD_SCHEDULED_EVENT_USER_REMOVE"}, {"GUILD_SCHEDULED_EVENTS"})
  @@ Asks({"INTEGRATION_CREATE", "INTEGRATION_UPDATE", "INTEGRATION_DELETE"},
          {"GUILD_INTEGRATIONS"})
  @@ Asks({"INTERACTION_CREATE"}, {})
  @@ Asks({"INVITE_CREATE", "INVITE_DELETE"}, {"GUILD_INVITES"})

MessageIntents ==
  Asks({"MESSAGE_CREATE", "MESSAGE_UPDATE", "MESSAGE_DELETE"},
       {"GUILD_MESSAGES", "DIRECT_MESSAGES"})
  @@ Asks({"MESSAGE_DELETE_BULK"}, {"GUILD_MESSAGES"})
  @@ Asks({"MESSAGE_REACTION_ADD", "MESSAGE_REACTION_REMOVE",
           "MESSAGE_REACTION_REMOVE_ALL", "MESSAGE_REACTION_REMOVE_EMOJI"},
          {"GUILD_MESSAGE_REACTIONS", "DIRECT_MESSAGE_REACTIONS"})

PresenceIntents ==
  Asks({"PRESENCE_UPDATE"}, {"GUILD_PRESENCES"})
  @@ Asks({"STAGE_INSTANCE_CREATE", "STAGE_INSTANCE_UPDATE",
           "STAGE_INSTANCE_DELETE"}, {"GUILDS"})
  @@ Asks({"TYPING_START"}, {"GUILD_MESSAGE_TYPING", "DIRECT_MESSAGE_TYPING"})
  @@ Asks({"USER_UPDATE"}, {})
  @@ Asks({"VOICE_STATE_UPDATE", "VOICE_SERVER_UPDATE"}, {"GUILD_VOICE_STATES"})
  @@ Asks({"WEBHOOKS_UPDATE"}, {"GUILD_WEBHOOKS"})

(* The intents of an event's setter; its domain is the dispatch[] table.   *)
IntentsOf == ModerationIntents @@ ChannelIntents @@ GuildIntents
             @@ SchedulingIntents @@ MessageIntents @@ PresenceIntents

Events == DOMAIN IntentsOf
=============================================================================
