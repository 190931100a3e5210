--------------------------- MODULE EndpointsProofs ---------------------------
(***************************************************************************)
(* The two properties of Endpoints, for every set of identifiers and any   *)
(* number of requests.  The table of the calls enters by what InTable says *)
(* of each call (TheTable); endpoints, keys and routes are compared section*)
(* by section from there.                                                  *)
(***************************************************************************)
EXTENDS Endpoints, FiniteSetTheorems, WellFoundedInduction, TLAPS

\* What the first theorem needs of a route: it is a sequence, and what
\* follows "channels" and "guilds" is no text.
Regular(path) ==
  /\ Len(path) \in Nat
  /\ path = [i \in 1 .. Len(path) |-> path[i]]
  /\ \A i \in 2 .. Len(path) :
       path[i - 1] \in {"channels", "guilds"} => path[i] \notin {"%s", "%s%q"}

IsText(section) == section \in {"%s", "%s%q"}

\* What the second needs: the sections before it tell where a text is, and
\* a query of its own comes last.
TextPlaces(path) ==
  \A i \in 1 .. Len(path) :
    /\ IsText(path[i])
         <=> \/ i > 1 /\ path[i - 1] \in {"templates", "invites", "reactions"}
             \/ i > 2 /\ path[i - 2] \in {"webhooks", "interactions"}
    /\ path[i] = "%q" => i = Len(path)

\* The calls on the reactions of a message, ...
OnReactions(call) ==
  \/ /\ call.path = <<"channels", "%u", "messages", "%u", "reactions">>
     /\ call.methods = {"DELETE"}
  \/ /\ call.path = <<"channels", "%u", "messages", "%u", "reactions", "%s">>
     /\ call.methods = {"DELETE"}
  \/ /\ call.path = <<"channels", "%u", "messages", "%u", "reactions", "%s%q">>
     /\ call.methods = {"GET"}
  \/ /\ call.path =
          <<"channels", "%u", "messages", "%u", "reactions", "%s", "@me">>
     /\ call.methods \in {{"PUT"}, {"DELETE"}}
  \/ /\ call.path =
          <<"channels", "%u", "messages", "%u", "reactions", "%s", "%u">>
     /\ call.methods = {"DELETE"}

\* ... which alone have a text that is not checked.
Reactions(call) ==
  /\ (\E i \in 1 .. Len(call.path) : call.path[i] = "reactions")
       => OnReactions(call)
  /\ call.loose = {} \/ OnReactions(call)
       \/ \A i \in 1 .. Len(call.path) : ~IsText(call.path[i])

InTable(call) ==
  /\ Regular(call.path)
  /\ TextPlaces(call.path)
  /\ Reactions(call)

LEMMA OnReactionsInTable ==
  ASSUME NEW call, OnReactions(call)
  PROVE  InTable(call)
<1> USE DEF InTable, Regular, TextPlaces, IsText, Reactions
<1> DEFINE p == call.path
<1>1. CASE p = <<"channels", "%u", "messages", "%u", "reactions">>
  BY <1>1
<1>2. CASE p = <<"channels", "%u", "messages", "%u", "reactions", "%s">>
  BY <1>2
<1>3. CASE p = <<"channels", "%u", "messages", "%u", "reactions", "%s%q">>
  BY <1>3
<1>4. CASE p = <<"channels", "%u", "messages", "%u",
                   "reactions", "%s", "@me">>
  BY <1>4
<1>5. CASE p = <<"channels", "%u", "messages", "%u",
                   "reactions", "%s", "%u">>
  BY <1>5
<1> QED
  BY <1>1, <1>2, <1>3, <1>4, <1>5 DEF OnReactions

LEMMA TheTable == \A call \in Calls : InTable(call)
<1> USE DEF InTable, Regular, TextPlaces, IsText, Reactions
<1>1. \A call \in GlobalCommandCalls : InTable(call)
  BY SMTT(60) DEF GlobalCommandCalls, C
<1>2. \A call \in GuildCommandCalls : InTable(call)
  BY SMTT(60) DEF GuildCommandCalls, C
<1>3. \A call \in CommandPermissionCalls : InTable(call)
  BY SMTT(60) DEF CommandPermissionCalls, C
<1>4. \A call \in AuditLogCalls : InTable(call)
  BY SMTT(60) DEF AuditLogCalls, C
<1>5. \A call \in AutoModerationCalls : InTable(call)
  BY SMTT(60) DEF AutoModerationCalls, C
<1>6. \A call \in ChannelCalls : InTable(call)
  BY SMTT(60) DEF ChannelCalls, C
<1>7. ASSUME NEW call \in PostingCalls PROVE InTable(call)
  <2>1. CASE call.path = <<"channels", "%u", "messages">>
    BY <2>1
  <2>2. CASE call.path = <<"channels", "%u", "messages", "%u", "crosspost">>
    BY <2>2
  <2>3. CASE OnReactions(call)
    BY <2>3, OnReactionsInTable
  <2> QED
    BY SMTT(60), <2>1, <2>2, <2>3 DEF PostingCalls, C, Unguarded, OnReactions
<1>8. ASSUME NEW call \in ReactionCalls PROVE InTable(call)
  <2>1. OnReactions(call)
    BY DEF ReactionCalls, C, Unguarded, OnReactions
  <2> QED
    BY <2>1, OnReactionsInTable
<1>9. ASSUME NEW call \in EditingCalls PROVE InTable(call)
  <2>1. CASE OnReactions(call)
    BY <2>1, OnReactionsInTable
  <2>2. CASE call.path = <<"channels", "%u", "messages", "%u">>
    BY <2>2
  <2>3. CASE call.path = <<"channels", "%u", "messages", "bulk-delete">>
    BY <2>3
  <2>4. CASE call.path = <<"channels", "%u", "permissions", "%u">>
    BY <2>4
  <2> QED
    BY SMTT(60), <2>1, <2>2, <2>3, <2>4
    DEF EditingCalls, C, Unguarded, OnReactions
<1>10. \A call \in InviteAndPinCalls : InTable(call)
  BY SMTT(60) DEF InviteAndPinCalls, C
<1>11. \A call \in ThreadCalls : InTable(call)
  BY SMTT(60) DEF ThreadCalls, C
<1>12. \A call \in ThreadListCalls : InTable(call)
  BY SMTT(60) DEF ThreadListCalls, C
<1>13. \A call \in JoinedThreadCalls : InTable(call)
  BY SMTT(60) DEF JoinedThreadCalls, C
<1>14. \A call \in EmojiCalls : InTable(call)
  BY SMTT(60) DEF EmojiCalls, C
<1>15. \A call \in GatewayCalls : InTable(call)
  BY SMTT(60) DEF GatewayCalls, C
<1>16. \A call \in GuildTemplateCalls : InTable(call)
  BY SMTT(60) DEF GuildTemplateCalls, C
<1>17. \A call \in GuildCalls : InTable(call)
  BY SMTT(60) DEF GuildCalls, C
<1>18. \A call \in MemberCalls : InTable(call)
  BY SMTT(60) DEF MemberCalls, C
<1>19. \A call \in MembershipCalls : InTable(call)
  BY SMTT(60) DEF MembershipCalls, C
<1>20. \A call \in BanAndRoleCalls : InTable(call)
  BY SMTT(60) DEF BanAndRoleCalls, C
<1>21. \A call \in PruneAndIntegrationCalls : InTable(call)
  BY SMTT(60) DEF PruneAndIntegrationCalls, C
<1>22. \A call \in WidgetAndWelcomeCalls : InTable(call)
  BY SMTT(60) DEF WidgetAndWelcomeCalls, C
<1>23. \A call \in VoiceStateCalls : InTable(call)
  BY DEF VoiceStateCalls, C, Unguarded
<1>24. \A call \in ScheduledEventCalls : InTable(call)
  BY SMTT(60) DEF ScheduledEventCalls, C
<1>25. \A call \in ScheduledEventUserCalls : InTable(call)
  BY SMTT(60) DEF ScheduledEventUserCalls, C
<1>26. \A call \in InteractionCalls : InTable(call)
  BY SMTT(60) DEF InteractionCalls, C
<1>27. \A call \in FollowupCalls : InTable(call)
  BY SMTT(60) DEF FollowupCalls, C
<1>28. \A call \in InviteCalls : InTable(call)
  BY SMTT(60) DEF InviteCalls, C
<1>29. \A call \in OAuth2Calls : InTable(call)
  BY SMTT(60) DEF OAuth2Calls, C
<1>30. \A call \in StageInstanceCalls : InTable(call)
  BY SMTT(60) DEF StageInstanceCalls, C
<1>31. \A call \in StickerCalls : InTable(call)
  BY SMTT(60) DEF StickerCalls, C
<1>32. \A call \in UserCalls : InTable(call)
  BY SMTT(60) DEF UserCalls, C
<1>33. \A call \in VoiceCalls : InTable(call)
  BY SMTT(60) DEF VoiceCalls, C
<1>34. \A call \in WebhookCalls : InTable(call)
  BY SMTT(60) DEF WebhookCalls, C
<1>35. \A call \in WebhookMessageCalls : InTable(call)
  BY SMTT(60) DEF WebhookMessageCalls, C
<1>36. \A call \in WebhookMessageDeletion : InTable(call)
  BY SMTT(60) DEF WebhookMessageDeletion, C
<1> HIDE DEF InTable, Regular, TextPlaces, IsText, Reactions
<1> QED
  <2> SUFFICES ASSUME NEW call \in Calls PROVE InTable(call)
    OBVIOUS
  <2>1. PICK G : call \in G /\ G \in {
         GlobalCommandCalls, GuildCommandCalls, CommandPermissionCalls,
         AuditLogCalls, AutoModerationCalls, ChannelCalls, PostingCalls,
         ReactionCalls, EditingCalls, InviteAndPinCalls, ThreadCalls,
         ThreadListCalls, JoinedThreadCalls, EmojiCalls, GatewayCalls,
         GuildTemplateCalls, GuildCalls, MemberCalls, MembershipCalls,
         BanAndRoleCalls, PruneAndIntegrationCalls, WidgetAndWelcomeCalls,
         VoiceStateCalls, ScheduledEventCalls, ScheduledEventUserCalls,
         InteractionCalls, FollowupCalls, InviteCalls, OAuth2Calls,
         StageInstanceCalls, StickerCalls, UserCalls, VoiceCalls,
         WebhookCalls, WebhookMessageCalls, WebhookMessageDeletion}
    BY DEF Calls
  <2> QED
    BY <2>1, <1>1, <1>2, <1>3, <1>4, <1>5, <1>6, <1>7, <1>8, <1>9, <1>10,
       <1>11, <1>12, <1>13, <1>14, <1>15, <1>16, <1>17, <1>18, <1>19, <1>20,
       <1>21, <1>22, <1>23, <1>24, <1>25, <1>26, <1>27, <1>28, <1>29, <1>30,
       <1>31, <1>32, <1>33, <1>34, <1>35, <1>36

\* vsnprintf and the key's loop are at the same argument at every section.
LEMMA WalksInStep == \A path : Walked(path) = Formatted(path)
BY DEF Walked, Formatted, Consumed

\* A set of naturals has a least element.
LEMMA Least ==
  ASSUME NEW S \in SUBSET Nat, S # {}
  PROVE  \E m \in S : \A n \in S : m <= n
<1>1. PICK m \in S : \A n \in S : ~ (<<n, m>> \in OpToRel(<, Nat))
  BY NatLessThanWellFounded, WFMin
<1>2. \A n \in S : ~ (n < m)
  BY <1>1 DEF OpToRel
<1> QED
  BY <1>2

\* The sections that count for the bucket are those the loop gets to.
LEMMA CountedAreTurns ==
  ASSUME NEW path, Regular(path)
  PROVE  /\ Len(Counted(path)) \in Nat
         /\ Counted(path) = [i \in 1 .. Len(Counted(path)) |-> path[i]]
         /\ Turns(path) = 1 .. Len(Counted(path))
         /\ Turns(path) \subseteq 1 .. Len(path)
<1> DEFINE ends == {i \in 1 .. Len(path) : path[i] = "reactions"}
           first == CHOOSE i \in ends : \A j \in ends : i <= j
<1>1. Len(path) \in Nat /\ path = [i \in 1 .. Len(path) |-> path[i]]
  BY DEF Regular
<1>2. CASE ends = {}
  <2>1. Counted(path) = path
    BY <1>2 DEF Counted
  <2>2. Turns(path) = 1 .. Len(path)
    BY <1>1, <1>2 DEF Turns
  <2> QED
    BY <1>1, <2>1, <2>2
<1>3. CASE ends # {}
  <2>1. first \in ends /\ \A j \in ends : first <= j
    <3>1. ends \in SUBSET Nat
      BY <1>1
    <3> QED
      BY <1>3, <3>1, Least
  <2>2. Counted(path) = SubSeq(path, 1, first)
    BY <1>3 DEF Counted
  <2>3. first \in 1 .. Len(path)
    BY <2>1
  <2>4. Counted(path) = [i \in 1 .. first |-> path[i]]
    <3> HIDE DEF first
    <3>1. SubSeq(path, 1, first) =
            [i \in 1 .. (first - 1 + 1) |-> path[i + 1 - 1]]
      BY <1>1, <2>3
    <3> QED
      BY <1>1, <2>2, <2>3, <3>1
  <2>5. Len(Counted(path)) = first
    BY <1>1, <2>3, <2>4
  <2>6. Turns(path) = 1 .. first
    <3> HIDE DEF first
    <3>1. ASSUME NEW i \in 1 .. Len(path), i <= first, NEW j \in 1 .. i - 1
          PROVE  path[j] # "reactions"
      BY <1>1, <2>1, <2>3, <3>1
    <3>2. ASSUME NEW i \in 1 .. Len(path), first < i
          PROVE  first \in 1 .. i - 1 /\ path[first] = "reactions"
      BY <1>1, <2>1, <2>3, <3>2
    <3> QED
      BY <1>1, <2>3, <3>1, <3>2 DEF Turns
  <2> HIDE DEF first
  <2> QED
    BY <1>1, <2>3, <2>4, <2>5, <2>6
<1> QED
  BY <1>2, <1>3

\* A route's endpoint, section by section.
LEMMA EndpointParts ==
  ASSUME NEW path, NEW args, Regular(path)
  PROVE  /\ Endpoint(path, args) =
              [i \in 1 .. Len(path) |-> Endpoint(path, args)[i]]
         /\ \A i \in 1 .. Len(path) :
              LET part == Endpoint(path, args)[i]
              IN /\ path[i] = "%u" => part = <<"id", args[Formatted(path)[i]]>>
                 /\ path[i] \in {"%s", "%s%q"}
                      => part = <<"word", args[Formatted(path)[i]]>>
                 /\ path[i] = "%q" => part = <<"word", 0>>
                 /\ path[i] \notin {"%u", "%s", "%s%q", "%q"}
                      => part = <<"text", Plain(path[i])>>
BY DEF Endpoint

\* A section of the endpoint is "channels" or "guilds" when the route's is.
LEMMA MajorWords ==
  ASSUME NEW path, NEW args, Regular(path), NEW i \in 1 .. Len(path)
  PROVE  Endpoint(path, args)[i]
             \in {<<"text", "channels">>, <<"text", "guilds">>}
           <=> path[i] \in {"channels", "guilds"}
<1> DEFINE part == Endpoint(path, args)[i]
<1>1. CASE path[i] \in {"%u", "%s", "%s%q", "%q"}
  <2>1. part[1] \in {"id", "word"}
    BY <1>1, EndpointParts
  <2> QED
    BY <1>1, <2>1
<1>2. CASE path[i] \notin {"%u", "%s", "%s%q", "%q"}
  <2>1. part = <<"text", Plain(path[i])>>
    BY <1>2, EndpointParts
  <2>2. Plain(path[i]) \in {"channels", "guilds"}
         <=> path[i] \in {"channels", "guilds"}
    BY <1>2 DEF Plain
  <2> QED
    BY <2>1, <2>2
<1> QED
  BY <1>1, <1>2

\* The request has the endpoint and the key of its route and arguments.
Built(r) ==
  /\ Regular(r.call.path)
  /\ r.endpoint = Endpoint(r.call.path, r.args)
  /\ r.key = BuildKey(r.method, r.call.path, r.args)

\* The argument a section of the request's route is given.
ArgumentOf(r, i) == r.args[Formatted(r.call.path)[i]]

\* Its endpoint, section by section.
LEMMA EndpointOf ==
  ASSUME NEW r, Built(r), NEW i \in 1 .. Len(r.call.path)
  PROVE  /\ r.call.path[i] = "%u" => r.endpoint[i] = <<"id", ArgumentOf(r, i)>>
         /\ r.call.path[i] \in {"%s", "%s%q"}
              => r.endpoint[i] = <<"word", ArgumentOf(r, i)>>
         /\ r.call.path[i] = "%q" => r.endpoint[i] = <<"word", 0>>
         /\ r.call.path[i] \notin {"%u", "%s", "%s%q", "%q"}
              => r.endpoint[i] = <<"text", Plain(r.call.path[i])>>
BY EndpointParts DEF Built, ArgumentOf

\* Its key, section by section.
LEMMA KeyOf ==
  ASSUME NEW r, Built(r)
  PROVE  /\ r.key.parts = [i \in Turns(r.call.path) |-> r.key.parts[i]]
         /\ \A i \in Turns(r.call.path) :
              /\ Major(r.call.path, i)
                   => r.key.parts[i] = <<"id", ArgumentOf(r, i)>>
              /\ ~Major(r.call.path, i)
                   => r.key.parts[i] = <<"text", r.call.path[i]>>
BY WalksInStep DEF Built, BuildKey, ArgumentOf

\* The sections the loop gets to are a beginning of the route.
LEMMA TurnsOf ==
  ASSUME NEW path, Regular(path), NEW i \in Turns(path)
  PROVE  /\ i \in 1 .. Len(path) /\ i \in Int
         /\ i # 1 => i \in 2 .. Len(path) /\ i - 1 \in Turns(path)
BY CountedAreTurns DEF Regular

\* The places of the endpoint after "channels" and "guilds", by the route.
LEMMA MajorsByRoute ==
  ASSUME NEW r, Built(r)
  PROVE  Majors(r) = {<<i, r.endpoint[i]>> :
           i \in {j \in Turns(r.call.path) :
                   j # 1 /\ r.call.path[j - 1] \in {"channels", "guilds"}}}
<1> DEFINE path == r.call.path
<1>1. ASSUME NEW j \in 2 .. Len(Counted(path))
      PROVE  r.endpoint[j - 1]
                 \in {<<"text", "channels">>, <<"text", "guilds">>}
               <=> path[j - 1] \in {"channels", "guilds"}
  <2>1. j - 1 \in 1 .. Len(path)
    BY CountedAreTurns DEF Built, Regular
  <2> QED
    BY <2>1, MajorWords DEF Built
<1>2. {j \in 2 .. Len(Counted(path)) :
         r.endpoint[j - 1] \in {<<"text", "channels">>, <<"text", "guilds">>}}
      = {j \in Turns(path) : j # 1 /\ path[j - 1] \in {"channels", "guilds"}}
  BY <1>1, CountedAreTurns DEF Built
<1> QED
  BY <1>2 DEF Majors

\* Equal keys mean equal routes and equal major parameters.
LEMMA KeysTell ==
  ASSUME NEW r, NEW s, Built(r), Built(s), r.key.parts = s.key.parts
  PROVE  Counted(r.call.path) = Counted(s.call.path) /\ Majors(r) = Majors(s)
<1> DEFINE p == r.call.path
           q == s.call.path
<1>1. Regular(p) /\ Regular(q)
  BY DEF Built
<1>2. Turns(p) = Turns(q)
  <2>1. DOMAIN r.key.parts = Turns(p) /\ DOMAIN s.key.parts = Turns(q)
    BY KeyOf
  <2> QED
    BY <2>1
<1>3. ASSUME NEW i \in Turns(p)
      PROVE  /\ p[i] = q[i]
             /\ Major(p, i) => ArgumentOf(r, i) = ArgumentOf(s, i)
  <2>1. r.key.parts[i] = s.key.parts[i] /\ i \in Turns(q)
    BY <1>2
  <2>2. /\ Major(p, i) => r.key.parts[i] = <<"id", ArgumentOf(r, i)>>
        /\ ~Major(p, i) => r.key.parts[i] = <<"text", p[i]>>
    BY KeyOf
  <2>3. /\ Major(q, i) => s.key.parts[i] = <<"id", ArgumentOf(s, i)>>
        /\ ~Major(q, i) => s.key.parts[i] = <<"text", q[i]>>
    BY <2>1, KeyOf
  <2>4. Major(p, i) <=> Major(q, i)
    BY <2>1, <2>2, <2>3
  <2>5. CASE Major(p, i)
    <3>1. p[i] = "%u" /\ q[i] = "%u"
      BY <2>4, <2>5 DEF Major
    <3> QED
      BY <2>1, <2>2, <2>3, <2>4, <2>5, <3>1
  <2>6. CASE ~Major(p, i)
    BY <2>1, <2>2, <2>3, <2>4, <2>6
  <2> QED
    BY <2>5, <2>6
<1>4. Counted(p) = Counted(q)
  <2>1. 1 .. Len(Counted(p)) = 1 .. Len(Counted(q))
    BY <1>1, <1>2, CountedAreTurns
  <2>2. [i \in 1 .. Len(Counted(p)) |-> p[i]]
          = [i \in 1 .. Len(Counted(q)) |-> q[i]]
    BY <1>1, <1>3, <2>1, CountedAreTurns
  <2> QED
    BY <1>1, <2>2, CountedAreTurns
<1> DEFINE After(path) ==
             {j \in Turns(path) :
                j # 1 /\ path[j - 1] \in {"channels", "guilds"}}
<1>5. After(p) = After(q)
  BY <1>1, <1>2, <1>3, TurnsOf
<1>6. ASSUME NEW i \in After(p)
      PROVE  r.endpoint[i] = s.endpoint[i]
  <2> DEFINE section == p[i]
  <2>1. /\ i \in Turns(p) /\ i \in Turns(q)
        /\ i # 1 /\ p[i - 1] \in {"channels", "guilds"}
    BY <1>2
  <2>2. i \in 2 .. Len(p) /\ i \in 1 .. Len(p) /\ i \in 1 .. Len(q)
    BY <1>1, <2>1, TurnsOf
  <2>3. section \notin {"%s", "%s%q"} /\ section = q[i]
    BY <1>1, <1>3, <2>1, <2>2 DEF Regular
  <2> HIDE DEF section
  <2>4. /\ section = "%u" => r.endpoint[i] = <<"id", ArgumentOf(r, i)>>
        /\ section = "%q" => r.endpoint[i] = <<"word", 0>>
        /\ section \notin {"%u", "%s", "%s%q", "%q"}
             => r.endpoint[i] = <<"text", Plain(section)>>
    BY <2>2, EndpointOf DEF section
  <2>5. /\ section = "%u" => s.endpoint[i] = <<"id", ArgumentOf(s, i)>>
        /\ section = "%q" => s.endpoint[i] = <<"word", 0>>
        /\ section \notin {"%u", "%s", "%s%q", "%q"}
             => s.endpoint[i] = <<"text", Plain(section)>>
    BY <2>2, <2>3, EndpointOf
  <2>6. section = "%u" => ArgumentOf(r, i) = ArgumentOf(s, i)
    BY <1>3, <2>1 DEF Major, section
  <2> QED
    BY <2>3, <2>4, <2>5, <2>6
<1>7. Majors(r) = Majors(s)
  <2>1. Majors(r) = {<<i, r.endpoint[i]>> : i \in After(p)}
    BY MajorsByRoute
  <2>2. Majors(s) = {<<i, s.endpoint[i]>> : i \in After(q)}
    BY MajorsByRoute
  <2> HIDE DEF After
  <2> QED
    BY <1>5, <1>6, <2>1, <2>2
<1> QED
  BY <1>4, <1>7

\* Equal routes and equal major parameters mean equal keys.
LEMMA RoutesDecide ==
  ASSUME NEW r, NEW s, Built(r), Built(s),
         Counted(r.call.path) = Counted(s.call.path), Majors(r) = Majors(s)
  PROVE  r.key.parts = s.key.parts
<1> DEFINE p == r.call.path
           q == s.call.path
<1>1. Regular(p) /\ Regular(q)
  BY DEF Built
<1>2. Turns(p) = Turns(q)
  BY <1>1, CountedAreTurns
<1>3. ASSUME NEW i \in Turns(p)
      PROVE  p[i] = q[i]
  <2>1. Counted(p)[i] = p[i] /\ Counted(q)[i] = q[i]
    BY <1>1, <1>2, CountedAreTurns
  <2> QED
    BY <2>1
<1>4. ASSUME NEW i \in Turns(p)
      PROVE  r.key.parts[i] = s.key.parts[i]
  <2>1. Major(p, i) <=> Major(q, i)
    BY <1>1, <1>3, TurnsOf DEF Major
  <2>2. CASE ~Major(p, i)
    <3>1. r.key.parts[i] = <<"text", p[i]>>
      BY <2>2, KeyOf
    <3>2. s.key.parts[i] = <<"text", q[i]>>
      BY <1>2, <2>1, <2>2, KeyOf
    <3> QED
      BY <1>3, <3>1, <3>2
  <2>3. CASE Major(p, i)
    <3>1. <<i, r.endpoint[i]>> \in Majors(r)
      BY <2>3, MajorsByRoute DEF Major
    <3>2. PICK j : <<i, r.endpoint[i]>> = <<j, s.endpoint[j]>>
      BY <3>1, MajorsByRoute
    <3>3. r.endpoint[i] = s.endpoint[i]
      BY <3>2
    <3>4. /\ i \in 1 .. Len(p) /\ i \in 1 .. Len(q)
          /\ p[i] = "%u" /\ q[i] = "%u"
      BY <1>1, <1>2, <2>1, <2>3, TurnsOf DEF Major
    <3>5. /\ r.endpoint[i] = <<"id", ArgumentOf(r, i)>>
          /\ s.endpoint[i] = <<"id", ArgumentOf(s, i)>>
      BY <3>4, EndpointOf
    <3>6. r.key.parts[i] = <<"id", ArgumentOf(r, i)>>
      BY <2>3, KeyOf
    <3>7. s.key.parts[i] = <<"id", ArgumentOf(s, i)>>
      BY <1>2, <2>1, <2>3, KeyOf
    <3> QED
      BY <3>3, <3>5, <3>6, <3>7
  <2> QED
    BY <2>2, <2>3
<1>5. /\ r.key.parts = [i \in Turns(p) |-> r.key.parts[i]]
      /\ s.key.parts = [i \in Turns(q) |-> s.key.parts[i]]
  BY KeyOf
<1>6. [i \in Turns(p) |-> r.key.parts[i]] = [i \in Turns(q) |-> s.key.parts[i]]
  BY <1>2, <1>4
<1> QED
  BY <1>5, <1>6

----------------------------------------------------------------------------
(* One bucket per route *)

\* The key's verb tells what the server can tell.
LEMMA Verbs ==
  ASSUME NEW m, NEW n
  PROVE  Verb(m) = Verb(n) <=> SameVerb(m, n)
BY DEF Verb, SameVerb

\* Two requests have one key exactly when the server rates them together.
LEMMA OneBucket ==
  ASSUME NEW r, NEW s, Built(r), Built(s)
  PROVE  (r.key = s.key) <=> /\ SameVerb(r.method, s.method)
                             /\ Counted(r.call.path) = Counted(s.call.path)
                             /\ Majors(r) = Majors(s)
<1>1. r.key = s.key <=> /\ Verb(r.method) = Verb(s.method)
                        /\ r.key.parts = s.key.parts
  <2>1. /\ r.key = [verb |-> Verb(r.method), parts |-> r.key.parts]
        /\ s.key = [verb |-> Verb(s.method), parts |-> s.key.parts]
    BY DEF Built, BuildKey
  <2> QED
    BY <2>1
<1> QED
  BY <1>1, Verbs, KeysTell, RoutesDecide

----------------------------------------------------------------------------
(* Never another call *)

\* How many of the places are at or below one.
Ranked(places, i) == Cardinality({j \in places : j <= i})

\* What is kept of a sequence, when the places are listed in their order.
LEMMA KeptInOrder ==
  ASSUME NEW seq, NEW places, NEW c \in Nat, Cardinality(places) = c,
         NEW nth \in [1 .. c -> places],
         \A i \in places : \E n \in 1 .. c : i = nth[n],
         \A n \in 1 .. c : Ranked(places, nth[n]) = n
  PROVE  Kept(seq, places) = [n \in 1 .. c |-> seq[nth[n]]]
<1>1. ASSUME NEW n \in 1 .. c
      PROVE  (CHOOSE i \in places : Ranked(places, i) = n) = nth[n]
  <2>1. nth[n] \in places /\ Ranked(places, nth[n]) = n
    OBVIOUS
  <2>2. \A i \in places : Ranked(places, i) = n => i = nth[n]
    OBVIOUS
  <2> QED
    BY <2>1, <2>2
<1>2. Kept(seq, places) =
        [n \in 1 .. c |-> seq[CHOOSE i \in places : Ranked(places, i) = n]]
  BY DEF Kept, Ranked
<1> QED
  BY <1>1, <1>2

\* The first places, all of them ...
LEMMA KeptFirst ==
  ASSUME NEW seq, NEW c \in Nat
  PROVE  Kept(seq, 1 .. c) = [n \in 1 .. c |-> seq[n]]
<1> DEFINE nth == [n \in 1 .. c |-> n]
<1>1. Cardinality(1 .. c) = c
  BY FS_Interval
<1>2. ASSUME NEW n \in 1 .. c
      PROVE  Ranked(1 .. c, n) = n
  <2>1. {j \in 1 .. c : j <= n} = 1 .. n
    OBVIOUS
  <2>2. Cardinality(1 .. n) = n
    BY FS_Interval
  <2> QED
    BY <2>1, <2>2 DEF Ranked
<1>3. nth \in [1 .. c -> 1 .. c] /\ \A n \in 1 .. c : nth[n] = n
  OBVIOUS
<1> HIDE DEF nth
<1>4. Kept(seq, 1 .. c) = [n \in 1 .. c |-> seq[nth[n]]]
  BY <1>1, <1>2, <1>3, KeptInOrder
<1> QED
  BY <1>3, <1>4

\* ... or all but one.
LEMMA KeptButOne ==
  ASSUME NEW seq, NEW c \in Nat, NEW k \in 1 .. c
  PROVE  Kept(seq, (1 .. c) \ {k}) =
           [n \in 1 .. c - 1 |-> seq[IF n < k THEN n ELSE n + 1]]
<1> DEFINE places == (1 .. c) \ {k}
           nth == [n \in 1 .. c - 1 |-> IF n < k THEN n ELSE n + 1]
<1>1. IsFiniteSet(places) /\ Cardinality(places) = c - 1 /\ c - 1 \in Nat
  <2> DEFINE all == 1 .. c
  <2>1. IsFiniteSet(all) /\ Cardinality(all) = c /\ k \in all /\ c - 1 \in Nat
    BY FS_Interval
  <2> HIDE DEF all
  <2>2. IsFiniteSet(all \ {k}) /\ Cardinality(all \ {k}) = Cardinality(all) - 1
    BY <2>1, FS_RemoveElement
  <2> QED
    BY <2>1, <2>2 DEF all
<1>2. /\ nth \in [1 .. c - 1 -> places]
      /\ \A n \in 1 .. c - 1 : nth[n] = IF n < k THEN n ELSE n + 1
  OBVIOUS
<1> HIDE DEF nth
<1>3. ASSUME NEW i \in places
      PROVE  \E n \in 1 .. c - 1 : i = nth[n]
  <2>1. CASE i < k
    <3>1. i \in 1 .. c - 1 /\ nth[i] = i
      BY <1>2, <2>1
    <3> QED
      BY <3>1
  <2>2. CASE i > k
    <3>1. i - 1 \in 1 .. c - 1 /\ nth[i - 1] = i
      BY <1>2, <2>2
    <3> QED
      BY <3>1
  <2> QED
    BY <2>1, <2>2
<1>4. ASSUME NEW n \in 1 .. c - 1
      PROVE  Ranked(places, nth[n]) = n
  <2>1. CASE n < k
    <3>1. {j \in places : j <= nth[n]} = 1 .. n
      BY <1>2, <2>1
    <3>2. Cardinality(1 .. n) = n
      BY FS_Interval
    <3> QED
      BY <3>1, <3>2 DEF Ranked
  <2>2. CASE ~(n < k)
    <3>1. {j \in places : j <= nth[n]} = (1 .. n + 1) \ {k} /\ k \in 1 .. n + 1
      BY <1>2, <2>2
    <3>2. IsFiniteSet(1 .. n + 1) /\ Cardinality(1 .. n + 1) = n + 1
      BY FS_Interval
    <3> DEFINE upto == 1 .. n + 1
    <3> HIDE DEF upto
    <3>3. Cardinality(upto \ {k}) = Cardinality(upto) - 1
      BY <3>1, <3>2, FS_RemoveElement DEF upto
    <3>4. Cardinality(upto) - 1 = n
      BY <3>2 DEF upto
    <3> QED
      BY <3>1, <3>3, <3>4 DEF Ranked, upto
  <2> QED
    BY <2>1, <2>2
<1> HIDE DEF places
<1>5. Kept(seq, places) = [n \in 1 .. c - 1 |-> seq[nth[n]]]
  BY <1>1, <1>2, <1>3, <1>4, KeptInOrder
<1> QED
  BY <1>2, <1>5 DEF places

\* Whether a query follows the first c sections of a path.
EndsAt(path, c) ==
  /\ c \in Nat /\ Len(path) \in {c, c + 1}
  /\ {i \in DOMAIN path : path[i] # "%q"} = 1 .. c

LEMMA RouteOf ==
  ASSUME NEW path, Regular(path), TextPlaces(path)
  PROVE  \E c \in Nat : /\ EndsAt(path, c)
                        /\ Route(path) = [n \in 1 .. c |-> path[n]]
<1> DEFINE last == Len(path)
<1>1. last \in Nat /\ DOMAIN path = 1 .. last
  <2>1. Len(path) \in Nat /\ path = [i \in 1 .. Len(path) |-> path[i]]
    BY DEF Regular
  <2> QED
    BY <2>1
<1>2. ASSUME NEW i \in 1 .. last, path[i] = "%q"
      PROVE  i = last
  BY <1>2 DEF TextPlaces
<1>3. PICK c \in Nat : EndsAt(path, c)
  <2> HIDE DEF last
  <2>1. CASE last # 0 /\ path[last] = "%q"
    <3>1. ASSUME NEW i \in 1 .. last
          PROVE  path[i] # "%q" <=> i \in 1 .. last - 1
      <4>1. i # last <=> i \in 1 .. last - 1
        BY <1>1
      <4> QED
        BY <1>2, <2>1, <4>1
    <3>2. {i \in DOMAIN path : path[i] # "%q"} = 1 .. last - 1
      BY <1>1, <3>1
    <3>3. last - 1 \in Nat /\ last = last - 1 + 1
      BY <1>1, <2>1
    <3> QED
      BY <3>2, <3>3 DEF EndsAt, last
  <2>2. CASE ~(last # 0 /\ path[last] = "%q")
    <3>1. ASSUME NEW i \in 1 .. last
          PROVE  path[i] # "%q"
      <4>1. last # 0
        BY <1>1
      <4> QED
        BY <1>2, <2>2, <4>1
    <3>2. {i \in DOMAIN path : path[i] # "%q"} = 1 .. last
      BY <1>1, <3>1
    <3> QED
      BY <1>1, <3>2 DEF EndsAt, last
  <2> QED
    BY <2>1, <2>2
<1>4. Route(path) = [n \in 1 .. c |-> path[n]]
  BY <1>3, KeptFirst DEF Route, EndsAt
<1> QED
  BY <1>3, <1>4

\* No identifier and no text of the endpoint is empty.
Filled(r) ==
  r.call.loose = {} =>
    \A i \in 1 .. Len(r.call.path) :
      r.call.path[i] \in {"%u", "%s", "%s%q"} => ArgumentOf(r, i) # 0

\* No text of the endpoint is empty.
Worded(r) ==
  \A i \in 1 .. Len(r.call.path) :
    IsText(r.call.path[i]) => ArgumentOf(r, i) # 0

\* Then the server sees all of the endpoint but its query.
LEMMA SeenWhole ==
  ASSUME NEW r, Built(r), Worded(r), NEW c \in Nat, EndsAt(r.call.path, c)
  PROVE  Seen(r.endpoint) = [n \in 1 .. c |-> r.endpoint[n]]
<1> DEFINE path == r.call.path
<1>1. DOMAIN r.endpoint = 1 .. Len(path) /\ DOMAIN path = 1 .. Len(path)
  <2>1. DOMAIN r.endpoint = 1 .. Len(path)
    BY DEF Built, Endpoint
  <2>2. path = [i \in 1 .. Len(path) |-> path[i]]
    BY DEF Built, Regular
  <2>3. DOMAIN path = 1 .. Len(path)
    BY <2>2
  <2> QED
    BY <2>1, <2>3
<1>2. ASSUME NEW i \in 1 .. Len(path)
      PROVE  r.endpoint[i] # <<"word", 0>> <=> path[i] # "%q"
  <2> DEFINE section == path[i]
  <2>1. /\ section = "%u" => r.endpoint[i] = <<"id", ArgumentOf(r, i)>>
        /\ section \in {"%s", "%s%q"}
             => r.endpoint[i] = <<"word", ArgumentOf(r, i)>>
        /\ section = "%q" => r.endpoint[i] = <<"word", 0>>
        /\ section \notin {"%u", "%s", "%s%q", "%q"}
             => r.endpoint[i] = <<"text", Plain(section)>>
    BY EndpointOf
  <2>2. section \in {"%s", "%s%q"} => ArgumentOf(r, i) # 0
    BY DEF Worded, IsText
  <2> HIDE DEF section
  <2>3. r.endpoint[i] # <<"word", 0>> <=> section # "%q"
    BY <2>1, <2>2
  <2> QED
    BY <2>3 DEF section
<1>3. {i \in DOMAIN r.endpoint : r.endpoint[i] # <<"word", 0>>} = 1 .. c
  BY <1>1, <1>2 DEF EndsAt
<1> QED
  BY <1>3, KeptFirst DEF Seen

\* The words that tell where a text is, and those before "reactions", stand
\* for themselves.
LEMMA PlainWords ==
  ASSUME NEW section, section \notin {"%u", "%s", "%s%q", "%q"}
  PROVE  /\ \A word \in {"channels", "reactions", "templates", "invites",
                         "webhooks", "interactions"} :
              Plain(section) = word <=> section = word
         /\ Plain(section) \notin {"%u", "%s", "%s%q", "%q"}
BY DEF Plain

\* What a route's section asks of the endpoint's.
LEMMA AddressedPart ==
  ASSUME NEW endpoint, NEW route, Addresses(endpoint, route),
         NEW n \in 1 .. Len(route)
  PROVE  /\ route[n] = "%u" => endpoint[n][1] = "id"
         /\ route[n] \notin {"%u", "%s", "%s%q"}
              => endpoint[n] = <<"text", Plain(route[n])>>
BY DEF Addresses

\* A request with no empty text addresses no route but its own: where the
\* other route has a text, the words before it are in the endpoint, and its
\* own route has a text there too.
LEMMA OwnShape ==
  ASSUME NEW r, Built(r), TextPlaces(r.call.path), Worded(r),
         NEW path, Regular(path), TextPlaces(path),
         Addresses(Seen(r.endpoint), Route(path))
  PROVE  Shape(Route(path)) = Shape(Route(r.call.path))
<1> DEFINE mine == r.call.path
<1>1. PICK c \in Nat : EndsAt(mine, c) /\ Route(mine) = [n \in 1 .. c |-> mine[n]]
  BY RouteOf DEF Built
<1>2. PICK d \in Nat : EndsAt(path, d) /\ Route(path) = [n \in 1 .. d |-> path[n]]
  BY RouteOf
<1>3. Seen(r.endpoint) = [n \in 1 .. c |-> r.endpoint[n]]
  BY <1>1, SeenWhole
<1>4. c = d /\ Len(Route(path)) = c /\ Len(Route(mine)) = c
  <2>1. Len(Seen(r.endpoint)) = c /\ Len(Route(path)) = d /\ Len(Route(mine)) = c
    BY <1>1, <1>2, <1>3
  <2> QED
    BY <2>1 DEF Addresses
<1>5. ASSUME NEW n \in 1 .. c
      PROVE  /\ n \in 1 .. Len(mine) /\ n \in 1 .. Len(path)
             /\ mine[n] # "%q" /\ path[n] # "%q"
  BY <1>1, <1>2, <1>4 DEF EndsAt
<1>6. ASSUME NEW n \in 1 .. c
      PROVE  /\ path[n] = "%u" => r.endpoint[n][1] = "id"
             /\ path[n] \notin {"%u", "%s", "%s%q"}
                  => r.endpoint[n] = <<"text", Plain(path[n])>>
  <2>1. Seen(r.endpoint)[n] = r.endpoint[n] /\ Route(path)[n] = path[n]
    BY <1>2, <1>3, <1>4
  <2> QED
    BY <1>4, <2>1, AddressedPart
<1>7. ASSUME NEW n \in 1 .. c
      PROVE  /\ mine[n] = "%u" => r.endpoint[n][1] = "id"
             /\ IsText(mine[n]) => r.endpoint[n][1] = "word"
             /\ mine[n] \notin {"%u", "%s", "%s%q", "%q"}
                  => r.endpoint[n] = <<"text", Plain(mine[n])>>
  BY <1>5, EndpointOf DEF IsText
<1>8. ASSUME NEW n \in 1 .. c, path[n] \in {"reactions", "templates", "invites",
                                          "webhooks", "interactions"}
      PROVE  mine[n] = path[n]
  <2> DEFINE word == path[n]
             section == mine[n]
             part == r.endpoint[n]
  <2>1. Plain(word) = word
    BY <1>8, PlainWords
  <2>2. part = <<"text", word>>
    BY <1>6, <1>8, <2>1
  <2>3. section \notin {"%u", "%s", "%s%q", "%q"}
    BY <1>5, <1>7, <2>2 DEF IsText
  <2>4. part = <<"text", Plain(section)>>
    BY <1>7, <2>3
  <2>5. Plain(section) = word
    BY <2>2, <2>4
  <2> QED
    BY <1>8, <2>3, <2>5, PlainWords
<1>9. ASSUME NEW n \in 1 .. c, IsText(path[n])
      PROVE  IsText(mine[n])
  <2>1. CASE n > 1 /\ path[n - 1] \in {"templates", "invites", "reactions"}
    <3>1. n - 1 \in 1 .. c /\ mine[n - 1] = path[n - 1]
      BY <1>8, <2>1
    <3> QED
      BY <1>5, <2>1, <3>1 DEF TextPlaces
  <2>2. CASE n > 2 /\ path[n - 2] \in {"webhooks", "interactions"}
    <3>1. n - 2 \in 1 .. c /\ mine[n - 2] = path[n - 2]
      BY <1>8, <2>2
    <3> QED
      BY <1>5, <2>2, <3>1 DEF TextPlaces
  <2> QED
    BY <1>5, <1>9, <2>1, <2>2 DEF TextPlaces
<1>10. ASSUME NEW n \in 1 .. c
       PROVE  Plain(path[n]) = Plain(mine[n])
  <2> DEFINE theirs == path[n]
             section == mine[n]
             part == r.endpoint[n]
  <2>1. Plain("%s") = "%s" /\ Plain("%s%q") = "%s"
    BY DEF Plain
  <2>2. CASE IsText(theirs)
    BY <1>9, <2>1, <2>2 DEF IsText
  <2>3. CASE theirs = "%u"
    <3>1. part[1] = "id"
      BY <1>6, <2>3
    <3>2. section = "%u"
      BY <1>5, <1>7, <3>1 DEF IsText
    <3> QED
      BY <2>3, <3>2
  <2>4. CASE theirs \notin {"%u", "%s", "%s%q"}
    <3>1. part = <<"text", Plain(theirs)>>
      BY <1>6, <2>4
    <3>2. section \notin {"%u", "%s", "%s%q", "%q"}
      BY <1>5, <1>7, <3>1 DEF IsText
    <3>3. part = <<"text", Plain(section)>>
      BY <1>7, <3>2
    <3> QED
      BY <3>1, <3>3
  <2> QED
    BY <2>2, <2>3, <2>4 DEF IsText
<1>11. ASSUME NEW n \in 1 .. c
       PROVE  Route(path)[n] = path[n] /\ Route(mine)[n] = mine[n]
  BY <1>1, <1>2, <1>4
<1> QED
  BY <1>4, <1>10, <1>11 DEF Shape

\* The endpoint begins as that of a message's reactions.
ToReactions(seen) ==
  /\ Len(seen) \in Nat /\ Len(seen) >= 5
  /\ seen[1] = <<"text", "channels">> /\ seen[2][1] = "id"
  /\ seen[3] = <<"text", "messages">> /\ seen[4][1] = "id"
  /\ seen[5] = <<"text", "reactions">>

\* Only a call on the reactions can have a request without an emoji; what
\* the server sees then is one section short.
LEMMA SeenWithoutEmoji ==
  ASSUME NEW r, Built(r), Reactions(r.call), WithoutEmoji(r)
  PROVE  /\ OnReactions(r.call)
         /\ Len(r.call.path) \in {6, 7} /\ IsText(r.call.path[6])
         /\ Seen(r.endpoint) = [n \in 1 .. Len(r.call.path) - 1 |->
                                  r.endpoint[IF n < 6 THEN n ELSE n + 1]]
         /\ Len(Seen(r.endpoint)) = Len(r.call.path) - 1
         /\ ToReactions(Seen(r.endpoint))
<1> DEFINE path == r.call.path
           last == Len(path)
<1>1. PICK i \in 2 .. last :
        path[i - 1] = "reactions" /\ r.endpoint[i] = <<"word", 0>>
  BY DEF WithoutEmoji
<1>2. last \in Nat /\ i - 1 \in 1 .. last
  BY <1>1 DEF Built, Regular
<1>3. OnReactions(r.call)
  BY <1>1, <1>2 DEF Reactions
<1>4. /\ last \in {6, 7} /\ i = 6 /\ IsText(path[6])
      /\ path[1] = "channels" /\ path[2] = "%u" /\ path[3] = "messages"
      /\ path[4] = "%u" /\ path[5] = "reactions"
      /\ last = 7 => path[7] \in {"@me", "%u"}
  <2>1. CASE path = <<"channels", "%u", "messages", "%u", "reactions">>
    BY <1>1, <1>2, <2>1
  <2>2. CASE path = <<"channels", "%u", "messages", "%u", "reactions", "%s">>
    BY <1>1, <1>2, <2>2 DEF IsText
  <2>3. CASE path = <<"channels", "%u", "messages", "%u", "reactions", "%s%q">>
    BY <1>1, <1>2, <2>3 DEF IsText
  <2>4. CASE path = <<"channels", "%u", "messages", "%u",
                      "reactions", "%s", "@me">>
    BY <1>1, <1>2, <2>4 DEF IsText
  <2>5. CASE path = <<"channels", "%u", "messages", "%u",
                      "reactions", "%s", "%u">>
    BY <1>1, <1>2, <2>5 DEF IsText
  <2> QED
    BY <1>3, <2>1, <2>2, <2>3, <2>4, <2>5 DEF OnReactions
<1>5. Plain("channels") = "channels" /\ Plain("messages") = "messages"
      /\ Plain("reactions") = "reactions" /\ Plain("@me") = "@me"
  BY DEF Plain
<1>6. /\ r.endpoint[1] = <<"text", "channels">> /\ r.endpoint[2][1] = "id"
      /\ r.endpoint[3] = <<"text", "messages">> /\ r.endpoint[4][1] = "id"
      /\ r.endpoint[5] = <<"text", "reactions">>
      /\ last = 7 => r.endpoint[7][1] \in {"text", "id"}
  <2>1. 1 \in 1 .. last /\ 2 \in 1 .. last /\ 3 \in 1 .. last
        /\ 4 \in 1 .. last /\ 5 \in 1 .. last /\ (last = 7 => 7 \in 1 .. last)
    BY <1>4
  <2> HIDE DEF last
  <2>2. r.endpoint[1] = <<"text", "channels">>
    BY <1>4, <1>5, <2>1, EndpointOf DEF last
  <2>3. r.endpoint[2] = <<"id", ArgumentOf(r, 2)>>
    BY <1>4, <2>1, EndpointOf DEF last
  <2>4. r.endpoint[3] = <<"text", "messages">>
    BY <1>4, <1>5, <2>1, EndpointOf DEF last
  <2>5. r.endpoint[4] = <<"id", ArgumentOf(r, 4)>>
    BY <1>4, <2>1, EndpointOf DEF last
  <2>6. r.endpoint[5] = <<"text", "reactions">>
    BY <1>4, <1>5, <2>1, EndpointOf DEF last
  <2>7. ASSUME last = 7
        PROVE  r.endpoint[7][1] \in {"text", "id"}
    <3>1. CASE path[7] = "%u"
      BY <2>1, <2>7, <3>1, EndpointOf DEF last
    <3>2. CASE path[7] = "@me"
      BY <2>1, <2>7, <3>2, EndpointOf DEF last
    <3> QED
      BY <1>4, <2>7, <3>1, <3>2
  <2> QED
    BY <2>2, <2>3, <2>4, <2>5, <2>6, <2>7
<1>7. DOMAIN r.endpoint = 1 .. last
  BY DEF Built, Endpoint
<1>8. {k \in DOMAIN r.endpoint : r.endpoint[k] # <<"word", 0>>}
        = (1 .. last) \ {6}
  <2>1. ASSUME NEW k \in 1 .. last
        PROVE  r.endpoint[k] # <<"word", 0>> <=> k # 6
    <3> HIDE DEF last
    <3>1. k \in {1, 2, 3, 4, 5, 6, 7} /\ (k = 7 => last = 7)
      BY <1>4
    <3> QED
      BY <1>1, <1>4, <1>6, <3>1
  <2> HIDE DEF last
  <2> QED
    BY <1>7, <2>1
<1> HIDE DEF last
<1>9. Seen(r.endpoint) =
        [n \in 1 .. last - 1 |-> r.endpoint[IF n < 6 THEN n ELSE n + 1]]
  BY <1>2, <1>4, <1>8, KeptButOne DEF Seen
<1>10. Len(Seen(r.endpoint)) = last - 1 /\ ToReactions(Seen(r.endpoint))
  BY <1>4, <1>6, <1>9 DEF ToReactions
<1> QED
  BY <1>3, <1>4, <1>9, <1>10 DEF last

\* What is seen is then a call on the reactions, as long as the route.
LEMMA ReactionsAddressed ==
  ASSUME NEW seen, ToReactions(seen), NEW call, InTable(call),
         Addresses(seen, Route(call.path))
  PROVE  OnReactions(call) /\ Len(call.path) = Len(seen)
<1> DEFINE path == call.path
           route == Route(path)
<1>1. PICK c \in Nat : EndsAt(path, c) /\ route = [n \in 1 .. c |-> path[n]]
  BY RouteOf DEF InTable
<1>2. c = Len(seen) /\ c >= 5 /\ Len(route) = c
  BY <1>1 DEF Addresses, ToReactions
<1>3. ASSUME NEW n \in 1 .. c
      PROVE  /\ n \in 1 .. Len(path)
             /\ path[n] # "%q" /\ route[n] = path[n]
             /\ path[n] = "%u" => seen[n][1] = "id"
             /\ path[n] \notin {"%u", "%s", "%s%q"}
                  => seen[n] = <<"text", Plain(path[n])>>
  <2>1. /\ n \in 1 .. Len(path)
        /\ path[n] # "%q" /\ route[n] = path[n]
    BY <1>1 DEF EndsAt
  <2> HIDE DEF route
  <2> QED
    BY <1>2, <2>1, AddressedPart DEF route
<1>4. 1 \in 1 .. c /\ 2 \in 1 .. c /\ 3 \in 1 .. c /\ 4 \in 1 .. c /\ 5 \in 1 .. c
  BY <1>2
<1>5. path[1] = "channels"
  <2>1. ~IsText(path[1])
    BY <1>3, <1>4 DEF InTable, TextPlaces
  <2>2. seen[1] = <<"text", Plain(path[1])>> /\ path[1] # "%u" /\ path[1] # "%q"
    BY <1>3, <1>4, <2>1 DEF IsText, ToReactions
  <2>3. Plain(path[1]) = "channels"
    BY <2>2 DEF ToReactions
  <2> QED
    BY <2>1, <2>2, <2>3, PlainWords DEF IsText
<1>6. path[2] = "%u"
  <2>1. ~IsText(path[2])
    BY <1>3, <1>4, <1>5 DEF InTable, TextPlaces
  <2> QED
    BY <1>3, <1>4, <2>1 DEF IsText, ToReactions
<1>7. path[3] \in {"messages", "messages%q"}
  <2>1. ~IsText(path[3])
    BY <1>3, <1>4, <1>5, <1>6 DEF InTable, TextPlaces
  <2>2. seen[3] = <<"text", Plain(path[3])>> /\ path[3] # "%u" /\ path[3] # "%q"
    BY <1>3, <1>4, <2>1 DEF IsText, ToReactions
  <2>3. Plain(path[3]) = "messages"
    BY <2>2 DEF ToReactions
  <2> QED
    BY <2>1, <2>2, <2>3 DEF Plain, IsText
<1>8. path[4] = "%u"
  <2>1. /\ 4 \in 1 .. Len(path)
        /\ path[4 - 1] \in {"messages", "messages%q"} /\ path[4 - 2] = "%u"
    BY <1>3, <1>4, <1>6, <1>7
  <2>2. ~IsText(path[4])
    BY <2>1 DEF InTable, TextPlaces
  <2> QED
    BY <1>3, <1>4, <2>2 DEF IsText, ToReactions
<1>9. path[5] = "reactions"
  <2>1. ~IsText(path[5])
    BY <1>3, <1>4, <1>7, <1>8 DEF InTable, TextPlaces
  <2>2. seen[5] = <<"text", Plain(path[5])>> /\ path[5] # "%u" /\ path[5] # "%q"
    BY <1>3, <1>4, <2>1 DEF IsText, ToReactions
  <2>3. Plain(path[5]) = "reactions"
    BY <2>2 DEF ToReactions
  <2> QED
    BY <2>1, <2>2, <2>3, PlainWords DEF IsText
<1>10. OnReactions(call)
  BY <1>3, <1>4, <1>9 DEF InTable, Reactions
<1>11. ASSUME NEW n \in 1 .. Len(path)
       PROVE  path[n] # "%q"
  BY <1>10 DEF OnReactions
<1>12. Len(path) = c
  <2>1. DOMAIN path = 1 .. Len(path) /\ Len(path) \in Nat
    BY <1>10 DEF OnReactions
  <2>2. 1 .. Len(path) = 1 .. c
    BY <1>1, <1>11, <2>1 DEF EndsAt
  <2> HIDE DEF route
  <2>3. Len(path) \in {c, c + 1}
    BY <1>1 DEF EndsAt
  <2> QED
    BY <2>1, <2>2, <2>3
<1> QED
  BY <1>2, <1>10, <1>12

\* Sending the endpoint to another call's route takes an empty text, which
\* only a call on the reactions can have.
LEMMA OnlyWithoutEmoji ==
  ASSUME NEW r, Built(r), Filled(r), InTable(r.call),
         r.method \in r.call.methods, MistakenForAnother(r)
  PROVE  r.method = "DELETE" /\ WithoutEmoji(r)
<1> DEFINE path == r.call.path
<1>1. PICK other \in Calls :
        /\ r.method \in other.methods
        /\ Addresses(Seen(r.endpoint), Route(other.path))
        /\ Shape(Route(other.path)) # Shape(Route(path))
  BY DEF MistakenForAnother, Routes
<1>2. InTable(other)
  BY TheTable
<1>3. ~Worded(r)
  BY <1>1, <1>2, OwnShape DEF InTable
<1>4. WithoutEmoji(r)
  <2>1. PICK i \in 1 .. Len(path) : IsText(path[i]) /\ ArgumentOf(r, i) = 0
    BY <1>3 DEF Worded
  <2>2. r.call.loose # {}
    BY <2>1 DEF Filled, IsText
  <2>3. OnReactions(r.call)
    BY <2>1, <2>2 DEF InTable, Reactions
  <2>4. i = 6 /\ path[5] = "reactions" /\ 6 \in 2 .. Len(path)
    BY <2>1, <2>3 DEF OnReactions, IsText
  <2>5. r.endpoint[i] = <<"word", 0>>
    BY <2>1, EndpointOf DEF IsText
  <2>6. 6 \in 2 .. Len(path) /\ path[6 - 1] = "reactions"
        /\ r.endpoint[6] = <<"word", 0>>
    BY <2>4, <2>5
  <2> QED
    BY <2>6 DEF WithoutEmoji
<1>5. /\ OnReactions(r.call) /\ Len(path) \in {6, 7}
      /\ Len(Seen(r.endpoint)) = Len(path) - 1
      /\ ToReactions(Seen(r.endpoint))
  BY <1>4, SeenWithoutEmoji DEF InTable
<1>6. OnReactions(other) /\ Len(other.path) = Len(path) - 1
  BY <1>1, <1>2, <1>5, ReactionsAddressed
<1>7. CASE Len(path) = 6
  <2>1. other.methods = {"DELETE"}
    BY <1>6, <1>7 DEF OnReactions
  <2> QED
    BY <1>1, <1>4, <2>1
<1>8. CASE Len(path) = 7
  <2>1. other.methods \in {{"DELETE"}, {"GET"}}
    BY <1>6, <1>8 DEF OnReactions
  <2>2. r.call.methods \in {{"DELETE"}, {"PUT"}}
    BY <1>5, <1>8 DEF OnReactions
  <2> QED
    BY <1>1, <1>4, <2>1, <2>2
<1> QED
  BY <1>5, <1>7, <1>8

\* A path with no query of its own is its route.
LEMMA RouteWhole ==
  ASSUME NEW path, Regular(path), \A i \in 1 .. Len(path) : path[i] # "%q"
  PROVE  Route(path) = path
<1> DEFINE last == Len(path)
<1>1. /\ last \in Nat /\ DOMAIN path = 1 .. last
      /\ path = [i \in 1 .. last |-> path[i]]
  <2>1. Len(path) \in Nat /\ path = [i \in 1 .. Len(path) |-> path[i]]
    BY DEF Regular
  <2> QED
    BY <2>1
<1> HIDE DEF last
<1>2. {i \in DOMAIN path : path[i] # "%q"} = 1 .. last
  BY <1>1 DEF last
<1>3. Route(path) = [i \in 1 .. last |-> path[i]]
  BY <1>1, <1>2, KeptFirst DEF Route
<1> QED
  BY <1>1, <1>3

\* What is left of a deletion without its emoji: every reaction of the
\* message, or those with one emoji.
LEMMA WithoutEmojiIsAnother ==
  ASSUME NEW r, Built(r), InTable(r.call), r.method \in r.call.methods,
         r.method = "DELETE", WithoutEmoji(r)
  PROVE  MistakenForAnother(r)
<1> DEFINE path == r.call.path
           seen == Seen(r.endpoint)
<1>1. /\ OnReactions(r.call) /\ Len(path) \in {6, 7}
      /\ Len(seen) = Len(path) - 1 /\ ToReactions(seen)
  BY SeenWithoutEmoji DEF InTable
<1> HIDE DEF seen
<1>2. Route(path) = path
  <2>1. \A i \in 1 .. Len(path) : path[i] # "%q"
    BY <1>1 DEF OnReactions
  <2> QED
    BY <2>1, RouteWhole DEF Built
<1>3. ASSUME NEW other \in Calls, other.methods = {"DELETE"},
             Addresses(seen, Route(other.path)), Len(Route(other.path)) \in Nat,
             Len(Route(other.path)) < Len(path)
      PROVE  MistakenForAnother(r)
  <2> DEFINE theirs == [methods |-> other.methods, route |-> Route(other.path)]
  <2>1. theirs \in Routes
    BY DEF Routes
  <2>2. Shape(Route(other.path)) # Shape(Route(path))
    <3>1. /\ DOMAIN Shape(Route(other.path)) = 1 .. Len(Route(other.path))
          /\ DOMAIN Shape(Route(path)) = 1 .. Len(path)
      BY <1>2 DEF Shape
    <3>2. /\ Len(path) \in 1 .. Len(path)
          /\ Len(path) \notin 1 .. Len(Route(other.path))
      BY <1>1, <1>3
    <3> QED
      BY <3>1, <3>2
  <2>3. /\ r.method \in theirs.methods
        /\ Addresses(Seen(r.endpoint), theirs.route)
        /\ Shape(theirs.route) # Shape(Route(r.call.path))
    BY <1>3, <2>2 DEF seen
  <2> HIDE DEF theirs
  <2> QED
    BY <2>1, <2>3 DEF MistakenForAnother
<1>4. Plain("channels") = "channels" /\ Plain("messages") = "messages"
      /\ Plain("reactions") = "reactions"
  BY DEF Plain
<1>5. CASE Len(path) = 6
  <2> DEFINE q == <<"channels", "%u", "messages", "%u", "reactions">>
  <2>1. PICK other \in Calls : other.methods = {"DELETE"} /\ other.path = q
    <3> DEFINE bare == C("delete_all_reactions", {"DELETE"}, q, "none")
    <3>1. bare \in ReactionCalls
      BY DEF ReactionCalls
    <3>2. ReactionCalls \subseteq Calls
      BY DEF Calls
    <3>3. bare.path = q /\ bare.methods = {"DELETE"}
      BY DEF C
    <3> QED
      BY <3>1, <3>2, <3>3
  <2>2. Route(q) = q
    BY RouteWhole DEF Regular
  <2>3. Len(q) = 5
    OBVIOUS
  <2>4. Addresses(seen, q)
    <3>1. Len(seen) = 5
      BY <1>1, <1>5
    <3>2. ASSUME NEW i \in 1 .. 5
          PROVE  CASE q[i] = "%u" -> seen[i][1] = "id"
                   [] q[i] \in {"%s", "%s%q"} -> TRUE
                   [] OTHER -> seen[i] = <<"text", Plain(q[i])>>
      <4>1. i \in {1, 2, 3, 4, 5}
        OBVIOUS
      <4> QED
        BY <1>1, <1>4, <4>1 DEF ToReactions
    <3> QED
      BY <2>3, <3>1, <3>2 DEF Addresses
  <2> HIDE DEF q
  <2>5. Addresses(seen, Route(other.path)) /\ Len(Route(other.path)) = 5
    BY <2>1, <2>2, <2>3, <2>4
  <2>6. /\ Len(Route(other.path)) \in Nat
        /\ Len(Route(other.path)) < Len(path)
    BY <1>5, <2>5
  <2> QED
    BY <1>3, <2>1, <2>5, <2>6
<1>6. CASE Len(path) = 7
  <2> DEFINE q == <<"channels", "%u", "messages", "%u", "reactions", "%s">>
  <2>1. PICK other \in Calls : other.methods = {"DELETE"} /\ other.path = q
    <3> DEFINE bare == C("delete_all_reactions_for_emoji", {"DELETE"}, q, "none")
    <3>1. Unguarded(bare, {3}) \in EditingCalls
      BY DEF EditingCalls
    <3>2. EditingCalls \subseteq Calls
      BY DEF Calls
    <3>3. /\ Unguarded(bare, {3}).path = q
          /\ Unguarded(bare, {3}).methods = {"DELETE"}
      BY DEF C, Unguarded
    <3> QED
      BY <3>1, <3>2, <3>3
  <2>2. Route(q) = q
    BY RouteWhole DEF Regular
  <2>3. Len(q) = 6
    OBVIOUS
  <2>4. Addresses(seen, q)
    <3>1. Len(seen) = 6
      BY <1>1, <1>6
    <3>2. ASSUME NEW i \in 1 .. 6
          PROVE  CASE q[i] = "%u" -> seen[i][1] = "id"
                   [] q[i] \in {"%s", "%s%q"} -> TRUE
                   [] OTHER -> seen[i] = <<"text", Plain(q[i])>>
      <4>1. i \in {1, 2, 3, 4, 5, 6}
        OBVIOUS
      <4> QED
        BY <1>1, <1>4, <4>1 DEF ToReactions
    <3> QED
      BY <2>3, <3>1, <3>2 DEF Addresses
  <2> HIDE DEF q
  <2>5. Addresses(seen, Route(other.path)) /\ Len(Route(other.path)) = 6
    BY <2>1, <2>2, <2>3, <2>4
  <2>6. /\ Len(Route(other.path)) \in Nat
        /\ Len(Route(other.path)) < Len(path)
    BY <1>6, <2>5
  <2> QED
    BY <1>3, <2>1, <2>5, <2>6
<1> QED
  BY <1>1, <1>5, <1>6

----------------------------------------------------------------------------
(* The requests in flight *)

Formed ==
  \A r \in sent :
    /\ r.call \in Calls /\ r.method \in r.call.methods
    /\ Built(r)
    /\ Filled(r)

LEMMA RequestsAreFormed ==
  ASSUME NEW call \in Calls, NEW method \in call.methods, NEW args,
         ~Missing(call, args, {"%u", "%s", "%s%q"})
  PROVE  /\ Request(call, method, args).call = call
         /\ Request(call, method, args).method = method
         /\ Built(Request(call, method, args))
         /\ Filled(Request(call, method, args))
<1> DEFINE r == Request(call, method, args)
<1>1. /\ r.call = call /\ r.args = args /\ r.method = method
      /\ r.endpoint = Endpoint(call.path, args)
      /\ r.key = BuildKey(method, call.path, args)
  BY DEF Request
<1> HIDE DEF r
<1>2. Regular(call.path)
  BY TheTable DEF InTable
<1>3. Built(r)
  BY <1>1, <1>2 DEF Built
<1>4. DOMAIN call.path = 1 .. Len(call.path)
  <2>1. call.path = [i \in 1 .. Len(call.path) |-> call.path[i]]
    BY <1>2 DEF Regular
  <2> QED
    BY <2>1
<1>5. Filled(r)
  BY <1>1, <1>4 DEF Filled, ArgumentOf, Missing
<1> QED
  BY <1>1, <1>3, <1>5 DEF r

\* Every request in flight has the endpoint and the key of its own call, and
\* no empty identifier or text but those its wrapper does not check
\* (winecord-rest.c:124-136).
THEOREM RequestsFormed == Spec => []Formed
<1>1. Init => Formed
  BY DEF Init, Formed
<1>2. ASSUME Formed, [Next]_vars
      PROVE  Formed'
  <2>1. ASSUME NEW call \in Calls, Call(call)
        PROVE  Formed'
    <3>1. PICK args \in Arguments(call), given \in BOOLEAN :
            \/ Refuse(call, args, given)
            \/ Malformed(call, args, given)
            \/ Begin(call, args, given)
      BY <2>1 DEF Call
    <3>2. CASE Refuse(call, args, given) \/ Malformed(call, args, given)
      BY <1>2, <3>2 DEF Refuse, Malformed, Formed
    <3>3. CASE Begin(call, args, given)
      <4>1. PICK method \in call.methods :
              sent' = sent \cup {Request(call, method, args)}
        BY <3>3 DEF Begin
      <4>2. ~Missing(call, args, {"%u", "%s", "%s%q"})
        BY <3>3 DEF Begin, Refused
      <4> QED
        BY <1>2, <4>1, <4>2, RequestsAreFormed DEF Formed
    <3> QED
      BY <3>1, <3>2, <3>3
  <2>2. ASSUME NEW r \in sent, Answered(r)
        PROVE  Formed'
    BY <1>2, <2>2 DEF Answered, Formed
  <2>3. CASE UNCHANGED vars
    BY <1>2, <2>3 DEF vars, Formed
  <2> QED
    BY <1>2, <2>1, <2>2, <2>3 DEF Next
<1> QED
  BY <1>1, <1>2, PTL DEF Spec

\* Two requests share a bucket exactly when the server rates them together,
\* whatever the identifiers and however many requests there are: both walks
\* take the same arguments at every section (WalksInStep), in any route in
\* which no text follows "channels" or "guilds".
THEOREM BucketPerRoute == Spec => []OneBucketPerRoute
<1>1. Formed => OneBucketPerRoute
  BY OneBucket DEF Formed, OneBucketPerRoute
<1> QED
  BY <1>1, RequestsFormed, PTL

\* Only the name of an emoji that is not looked at makes another call of a
\* request, and only of one that deletes.
THEOREM OwnCall == Spec => []AnotherCallOnlyWithoutEmoji
<1>1. Formed => AnotherCallOnlyWithoutEmoji
  BY TheTable, OnlyWithoutEmoji, WithoutEmojiIsAnother
  DEF Formed, AnotherCallOnlyWithoutEmoji
<1> QED
  BY <1>1, RequestsFormed, PTL
=============================================================================
