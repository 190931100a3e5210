--------------------------- MODULE EndpointTable ---------------------------
(***************************************************************************)
(* The REST calls of the library: for each public function of src/source/  *)
(* wineberry/discord that ends in winecord_rest_run, the HTTP methods it   *)
(* may choose ("MIMEPOST" when it has attachments), the sections of its    *)
(* endpoint's format string, and what it does about its parameters.        *)
(*                                                                         *)
(* "%u" stands for an identifier, "%s" for a text and "%q" for a "%s" that *)
(* receives a query, which may be empty.  The last field says what the     *)
(* function sends and checks:                                              *)
(*   "none"    no body;                                                    *)
(*   "asks"    no body, and a parameter that must be given;                *)
(*   "params"  a body made of parameters that must be given;               *)
(*   "body"    a body made of parameters that are not checked;             *)
(*   "fixed"   a literal body.                                             *)
(* The arguments of the endpoint are checked too, but for those Unguarded  *)
(* names by their position.                                                *)
(*                                                                         *)
(* create_stage_instance and modify_stage_instance are not listed: they    *)
(* call themselves where they should form the body and reach no request.   *)
(***************************************************************************)
C(name, methods, path, form) ==
  [name |-> name, methods |-> methods, path |-> path, form |-> form,
   loose |-> {}]

Unguarded(call, positions) == [call EXCEPT !.loose = positions]

GlobalCommandCalls == {
   C("get_global_application_commands", {"GET"},
     <<"applications", "%u", "commands">>, "none"),
   C("create_global_application_command", {"POST"},
     <<"applications", "%u", "commands">>, "params"),
   C("get_global_application_command", {"GET"},
     <<"applications", "%u", "commands", "%u">>, "none"),
   C("edit_global_application_command", {"PATCH"},
     <<"applications", "%u", "commands", "%u">>, "body"),
   C("delete_global_application_command", {"DELETE"},
     <<"applications", "%u", "commands", "%u">>, "none"),
   C("bulk_overwrite_global_application_commands", {"PUT"},
     <<"applications", "%u", "commands">>, "params")}

GuildCommandCalls == {
   C("get_guild_application_commands", {"GET"},
     <<"applications", "%u", "guilds", "%u", "commands">>, "none"),
   C("create_guild_application_command", {"POST"},
     <<"applications", "%u", "guilds", "%u", "commands">>, "params"),
   C("get_guild_application_command", {"GET"},
     <<"applications", "%u", "guilds", "%u", "commands", "%u">>, "none"),
   C("edit_guild_application_command", {"PATCH"},
     <<"applications", "%u", "guilds", "%u", "commands", "%u">>, "body"),
   C("delete_guild_application_command", {"DELETE"},
     <<"applications", "%u", "guilds", "%u", "commands", "%u">>, "none"),
   C("bulk_overwrite_guild_application_commands", {"PUT"},
     <<"applications", "%u", "guilds", "%u", "commands">>, "params")}

CommandPermissionCalls == {
   C("get_guild_application_command_permissions", {"GET"},
     <<"applications", "%u", "guilds", "%u", "commands", "permissions">>,
     "none"),
   C("get_application_command_permissions", {"GET"},
     <<"applications", "%u", "guilds", "%u", "commands", "%u", "permissions">>,
     "none")}

AuditLogCalls == {
   C("get_guild_audit_log", {"GET"},
     <<"guilds", "%u", "audit-logs%q">>, "none")}

AutoModerationCalls == {
   C("list_auto_moderation_rules_for_guild", {"GET"},
     <<"guilds", "%u", "auto-moderation", "rules">>, "none"),
   C("get_auto_moderation_rule", {"GET"},
     <<"guilds", "%u", "auto-moderation", "rules", "%u">>, "none"),
   C("create_auto_moderation_rule", {"POST"},
     <<"guilds", "%u", "auto-moderation", "rules">>, "params"),
   C("modify_auto_moderation_rule", {"PATCH"},
     <<"guilds", "%u", "auto-moderation", "rules", "%u">>, "params"),
   C("delete_auto_moderation_rule", {"DELETE"},
     <<"guilds", "%u", "auto-moderation", "rules", "%u">>, "none")}

ChannelCalls == {
   C("get_channel", {"GET"}, <<"channels", "%u">>, "none"),
   C("modify_channel", {"PATCH"}, <<"channels", "%u">>, "params"),
   C("delete_channel", {"DELETE"}, <<"channels", "%u">>, "none"),
   C("get_channel_messages", {"GET"},
     <<"channels", "%u", "messages%q">>, "none"),
   C("get_channel_message", {"GET"},
     <<"channels", "%u", "messages", "%u">>, "none")}

PostingCalls == {
   C("create_message", {"MIMEPOST", "POST"},
     <<"channels", "%u", "messages">>, "params"),
   C("crosspost_message", {"POST"},
     <<"channels", "%u", "messages", "%u", "crosspost">>, "none"),
   Unguarded(C("create_reaction", {"PUT"},
     <<"channels", "%u", "messages", "%u", "reactions", "%s", "@me">>,
     "none"), {3}),
   Unguarded(C("delete_own_reaction", {"DELETE"},
     <<"channels", "%u", "messages", "%u", "reactions", "%s", "@me">>,
     "none"), {3})}

ReactionCalls == {
   Unguarded(C("delete_user_reaction", {"DELETE"},
     <<"channels", "%u", "messages", "%u", "reactions", "%s", "%u">>,
     "none"), {3}),
   Unguarded(C("get_reactions", {"GET"},
     <<"channels", "%u", "messages", "%u", "reactions", "%s%q">>,
     "none"), {3}),
   C("delete_all_reactions", {"DELETE"},
     <<"channels", "%u", "messages", "%u", "reactions">>, "none")}

EditingCalls == {
   Unguarded(C("delete_all_reactions_for_emoji", {"DELETE"},
     <<"channels", "%u", "messages", "%u", "reactions", "%s">>, "none"), {3}),
   C("edit_message", {"PATCH"},
     <<"channels", "%u", "messages", "%u">>, "params"),
   C("delete_message", {"DELETE"},
     <<"channels", "%u", "messages", "%u">>, "none"),
   Unguarded(C("bulk_delete_messages", {"POST"},
     <<"channels", "%u", "messages", "bulk-delete">>, "params"), {1}),
   C("edit_channel_permissions", {"PUT"},
     <<"channels", "%u", "permissions", "%u">>, "params")}

InviteAndPinCalls == {
   C("get_channel_invites", {"GET"}, <<"channels", "%u", "invites">>, "none"),
   C("create_channel_invite", {"POST"},
     <<"channels", "%u", "invites">>, "body"),
   C("delete_channel_permission", {"DELETE"},
     <<"channels", "%u", "permissions", "%u">>, "none"),
   C("follow_news_channel", {"POST"},
     <<"channels", "%u", "followers">>, "params"),
   C("trigger_typing_indicator", {"POST"},
     <<"channels", "%u", "typing">>, "none"),
   C("get_pinned_messages", {"GET"}, <<"channels", "%u", "pins">>, "none"),
   C("pin_message", {"PUT"}, <<"channels", "%u", "pins", "%u">>, "none"),
   C("unpin_message", {"DELETE"}, <<"channels", "%u", "pins", "%u">>, "none")}

ThreadCalls == {
   C("group_dm_add_recipient", {"PUT"},
     <<"channels", "%u", "recipients", "%u">>, "params"),
   C("group_dm_remove_recipient", {"DELETE"},
     <<"channels", "%u", "recipients", "%u">>, "none"),
   C("start_thread_with_message", {"POST"},
     <<"channels", "%u", "messages", "%u", "threads">>, "params"),
   C("start_thread_without_message", {"POST"},
     <<"channels", "%u", "threads">>, "params"),
   C("join_thread", {"PUT"},
     <<"channels", "%u", "thread-members", "@me">>, "none"),
   C("add_thread_member", {"PUT"},
     <<"channels", "%u", "thread-members", "%u">>, "none"),
   C("leave_thread", {"DELETE"},
     <<"channels", "%u", "thread-members", "@me">>, "none")}

ThreadListCalls == {
   C("remove_thread_member", {"DELETE"},
     <<"channels", "%u", "thread-members", "%u">>, "none"),
   C("list_thread_members", {"GET"},
     <<"channels", "%u", "thread-members">>, "none"),
   C("list_active_threads", {"GET"},
     <<"channels", "%u", "threads", "active">>, "none"),
   C("list_public_archived_threads", {"GET"},
     <<"channels", "%u", "threads", "archived", "public%q">>, "none"),
   C("list_private_archived_threads", {"GET"},
     <<"channels", "%u", "threads", "archived", "private%q">>, "none")}

JoinedThreadCalls == {
   C("list_joined_private_archived_threads", {"GET"},
     <<"channels", "%u", "users", "@me", "threads", "archived", "private%q">>,
     "none")}

EmojiCalls == {
   C("list_guild_emojis", {"GET"}, <<"guilds", "%u", "emojis">>, "none"),
   C("get_guild_emoji", {"GET"}, <<"guilds", "%u", "emojis", "%u">>, "none"),
   C("create_guild_emoji", {"POST"}, <<"guilds", "%u", "emojis">>, "params"),
   C("modify_guild_emoji", {"PATCH"},
     <<"guilds", "%u", "emojis", "%u">>, "params"),
   C("delete_guild_emoji", {"DELETE"},
     <<"guilds", "%u", "emojis", "%u">>, "none")}

GatewayCalls == {
   C("disconnect_guild_member", {"PATCH"},
     <<"guilds", "%u", "members", "%u">>, "fixed"),
   C("get_gateway", {"GET"}, <<"gateway">>, "asks"),
   C("get_gateway_bot", {"GET"}, <<"gateway", "bot">>, "asks")}

GuildTemplateCalls == {
   C("get_guild_template", {"GET"}, <<"guilds", "templates", "%s">>, "none"),
   C("create_guild_from_guild_template", {"POST"},
     <<"guilds", "templates", "%s">>, "body"),
   C("get_guild_templates", {"GET"}, <<"guilds", "%u", "templates">>, "none"),
   C("create_guild_template", {"POST"},
     <<"guilds", "%u", "templates">>, "body"),
   C("sync_guild_template", {"PUT"},
     <<"guilds", "%u", "templates", "%s">>, "none"),
   C("modify_guild_template", {"PATCH"},
     <<"guilds", "%u", "templates", "%s">>, "body"),
   C("delete_guild_template", {"DELETE"},
     <<"guilds", "%u", "templates", "%s">>, "none")}

GuildCalls == {
   C("create_guild", {"POST"}, <<"guilds">>, "params"),
   C("get_guild", {"GET"}, <<"guilds", "%u">>, "none"),
   C("get_guild_preview", {"GET"}, <<"guilds", "%u", "preview">>, "none"),
   C("modify_guild", {"PATCH"}, <<"guilds", "%u">>, "params"),
   C("delete_guild", {"DELETE"}, <<"guilds", "%u">>, "none"),
   C("get_guild_channels", {"GET"}, <<"guilds", "%u", "channels">>, "none"),
   C("create_guild_channel", {"POST"},
     <<"guilds", "%u", "channels">>, "params"),
   C("modify_guild_channel_positions", {"PATCH"},
     <<"guilds", "%u", "channels">>, "params")}

MemberCalls == {
   C("get_guild_member", {"GET"}, <<"guilds", "%u", "members", "%u">>, "none"),
   C("list_guild_members", {"GET"}, <<"guilds", "%u", "members%q">>, "none"),
   C("search_guild_members", {"GET"},
     <<"guilds", "%u", "members", "search%q">>, "none"),
   C("add_guild_member", {"PUT"},
     <<"guilds", "%u", "members", "%u">>, "params"),
   C("modify_guild_member", {"PATCH"},
     <<"guilds", "%u", "members", "%u">>, "params")}

MembershipCalls == {
   C("modify_current_member", {"PATCH"},
     <<"guilds", "%u", "members", "@me">>, "params"),
   C("modify_current_user_nick", {"PATCH"},
     <<"guilds", "%u", "members", "@me", "nick">>, "params"),
   C("add_guild_member_role", {"PUT"},
     <<"guilds", "%u", "members", "%u", "roles", "%u">>, "none"),
   C("remove_guild_member_role", {"DELETE"},
     <<"guilds", "%u", "members", "%u", "roles", "%u">>, "none"),
   C("remove_guild_member", {"DELETE"},
     <<"guilds", "%u", "members", "%u">>, "none"),
   C("get_guild_bans", {"GET"}, <<"guilds", "%u", "bans">>, "none"),
   C("get_guild_ban", {"GET"}, <<"guilds", "%u", "bans", "%u">>, "none")}

BanAndRoleCalls == {
   C("create_guild_ban", {"PUT"}, <<"guilds", "%u", "bans", "%u">>, "params"),
   C("remove_guild_ban", {"DELETE"}, <<"guilds", "%u", "bans", "%u">>, "none"),
   C("get_guild_roles", {"GET"}, <<"guilds", "%u", "roles">>, "none"),
   C("create_guild_role", {"POST"}, <<"guilds", "%u", "roles">>, "body"),
   C("modify_guild_role_positions", {"PATCH"},
     <<"guilds", "%u", "roles">>, "params"),
   C("modify_guild_role", {"PATCH"}, <<"guilds", "%u", "roles", "%u">>,
     "body"),
   C("delete_guild_role", {"DELETE"},
     <<"guilds", "%u", "roles", "%u">>, "none")}

PruneAndIntegrationCalls == {
   C("get_guild_prune_count", {"GET"}, <<"guilds", "%u", "prune%q">>, "none"),
   C("begin_guild_prune", {"POST"}, <<"guilds", "%u", "prune">>, "body"),
   C("get_guild_voice_regions", {"GET"}, <<"guilds", "%u", "regions">>,
     "none"),
   C("get_guild_invites", {"GET"}, <<"guilds", "%u", "invites">>, "none"),
   C("get_guild_integrations", {"GET"},
     <<"guilds", "%u", "integrations">>, "none"),
   C("delete_guild_integrations", {"DELETE"},
     <<"guilds", "%u", "integrations", "%u">>, "none")}

WidgetAndWelcomeCalls == {
   C("get_guild_widget_settings", {"GET"},
     <<"guilds", "%u", "widget">>, "none"),
   C("modify_guild_widget", {"PATCH"}, <<"guilds", "%u", "widget">>, "params"),
   C("get_guild_widget", {"GET"}, <<"guilds", "%u", "widget.json">>, "none"),
   C("get_guild_vanity_url", {"GET"}, <<"guilds", "%u", "vanity-url">>,
     "none"),
   C("get_guild_welcome_screen", {"GET"},
     <<"guilds", "%u", "welcome-screen">>, "none"),
   C("modify_guild_welcome_screen", {"PATCH"},
     <<"guilds", "%u", "welcome-screen">>, "body"),
   C("modify_current_user_voice_state", {"PATCH"},
     <<"guilds", "%u", "voice-states", "@me">>, "body")}

VoiceStateCalls == {
   Unguarded(C("modify_user_voice_state", {"PATCH"},
     <<"guilds", "%u", "voice-states", "%u">>, "body"), {2})}

ScheduledEventCalls == {
   C("list_guild_scheduled_events", {"GET"},
     <<"guilds", "%u", "scheduled-events%q">>, "none"),
   C("create_guild_scheduled_event", {"POST"},
     <<"guilds", "%u", "scheduled-events">>, "params"),
   C("get_guild_scheduled_event", {"GET"},
     <<"guilds", "%u", "scheduled-events", "%u", "%q">>, "none"),
   C("modify_guild_scheduled_event", {"PATCH"},
     <<"guilds", "%u", "scheduled-events", "%u">>, "body"),
   C("delete_guild_scheduled_event", {"DELETE"},
     <<"guilds", "%u", "scheduled-events", "%u">>, "none")}

ScheduledEventUserCalls == {
   C("get_guild_scheduled_event_users", {"GET"},
     <<"guilds", "%u", "scheduled-events", "%u", "users%q">>, "none")}

InteractionCalls == {
   C("create_interaction_response", {"MIMEPOST", "POST"},
     <<"interactions", "%u", "%s", "callback">>, "params"),
   C("get_original_interaction_response", {"GET"},
     <<"webhooks", "%u", "%s", "messages", "@original">>, "none"),
   C("edit_original_interaction_response", {"MIMEPOST", "PATCH"},
     <<"webhooks", "%u", "%s", "messages", "@original">>, "params"),
   C("delete_original_interaction_response", {"DELETE"},
     <<"webhooks", "%u", "%s", "messages", "@original">>, "none")}

FollowupCalls == {
   C("create_followup_message", {"MIMEPOST", "POST"},
     <<"webhooks", "%u", "%s%q">>, "params"),
   C("get_followup_message", {"GET"}, <<"webhooks", "%u", "%s", "%u">>,
     "none"),
   C("edit_followup_message", {"MIMEPOST", "PATCH"},
     <<"webhooks", "%u", "%s", "messages", "%u">>, "params"),
   C("delete_followup_message", {"DELETE"},
     <<"webhooks", "%u", "%s", "messages", "%u">>, "none")}

InviteCalls == {
   C("get_invite", {"GET"}, <<"invites", "%s">>, "params"),
   C("delete_invite", {"DELETE"}, <<"invites", "%s">>, "none")}

OAuth2Calls == {
   C("get_current_bot_application_information", {"GET"},
     <<"oauth2", "applications", "@me">>, "none"),
   C("get_current_authorization_information", {"GET"},
     <<"oauth2", "@me">>, "none")}

StageInstanceCalls == {
   C("get_stage_instance", {"GET"}, <<"stage-instances", "%u">>, "none"),
   C("delete_stage_instance", {"DELETE"}, <<"stage-instances", "%u">>, "none")}

StickerCalls == {
   C("get_sticker", {"GET"}, <<"stickers", "%u">>, "none"),
   C("list_nitro_sticker_packs", {"GET"}, <<"sticker-packs">>, "none"),
   C("list_guild_stickers", {"GET"}, <<"guilds", "%u", "stickers">>, "none"),
   C("get_guild_sticker", {"GET"},
     <<"guilds", "%u", "stickers", "%u">>, "none"),
   C("modify_guild_sticker", {"PATCH"},
     <<"guilds", "%u", "stickers", "%u">>, "body"),
   C("delete_guild_sticker", {"DELETE"},
     <<"guilds", "%u", "stickers", "%u">>, "none")}

UserCalls == {
   C("get_current_user", {"GET"}, <<"users", "@me">>, "none"),
   C("get_user", {"GET"}, <<"users", "%u">>, "none"),
   C("modify_current_user", {"PATCH"}, <<"users", "@me">>, "params"),
   C("get_current_user_guilds", {"GET"}, <<"users", "@me", "guilds">>, "none"),
   C("leave_guild", {"DELETE"}, <<"users", "@me", "guilds", "%u">>, "fixed"),
   C("create_dm", {"POST"}, <<"users", "@me", "channels">>, "params"),
   C("create_group_dm", {"POST"}, <<"users", "@me", "channels">>, "params"),
   C("get_user_connections", {"GET"},
     <<"users", "@me", "connections">>, "none")}

VoiceCalls == {
   C("list_voice_regions", {"GET"}, <<"voice", "regions">>, "none")}

WebhookCalls == {
   C("create_webhook", {"POST"}, <<"channels", "%u", "webhooks">>, "params"),
   C("get_channel_webhooks", {"GET"}, <<"channels", "%u", "webhooks">>,
     "none"),
   C("get_guild_webhooks", {"GET"}, <<"guilds", "%u", "webhooks">>, "none"),
   C("get_webhook", {"GET"}, <<"webhooks", "%u">>, "none"),
   C("get_webhook_with_token", {"GET"}, <<"webhooks", "%u", "%s">>, "none"),
   C("modify_webhook", {"PATCH"}, <<"webhooks", "%u">>, "body"),
   C("modify_webhook_with_token", {"PATCH"},
     <<"webhooks", "%u", "%s">>, "body")}

WebhookMessageCalls == {
   C("delete_webhook", {"DELETE"}, <<"webhooks", "%u">>, "none"),
   C("delete_webhook_with_token", {"DELETE"},
     <<"webhooks", "%u", "%s">>, "none"),
   C("execute_webhook", {"MIMEPOST", "POST"},
     <<"webhooks", "%u", "%s%q">>, "params"),
   C("get_webhook_message", {"GET"}, <<"webhooks", "%u", "%s", "%u">>, "none"),
   C("edit_webhook_message", {"MIMEPOST", "PATCH"},
     <<"webhooks", "%u", "%s", "messages", "%u">>, "params")}

WebhookMessageDeletion == {
   C("delete_webhook_message", {"DELETE"},
     <<"webhooks", "%u", "%s", "messages", "%u">>, "none")}

Calls ==
  UNION {GlobalCommandCalls, GuildCommandCalls, CommandPermissionCalls,
         AuditLogCalls, AutoModerationCalls, ChannelCalls, PostingCalls,
         ReactionCalls, EditingCalls, InviteAndPinCalls, ThreadCalls,
         ThreadListCalls, JoinedThreadCalls, EmojiCalls, GatewayCalls,
         GuildTemplateCalls, GuildCalls, MemberCalls, MembershipCalls,
         BanAndRoleCalls, PruneAndIntegrationCalls, WidgetAndWelcomeCalls,
         VoiceStateCalls, ScheduledEventCalls, ScheduledEventUserCalls,
         InteractionCalls, FollowupCalls, InviteCalls, OAuth2Calls,
         StageInstanceCalls, StickerCalls, UserCalls, VoiceCalls,
         WebhookCalls, WebhookMessageCalls, WebhookMessageDeletion}
=============================================================================
