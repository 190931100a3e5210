----------------------------- MODULE Endpoints -----------------------------
(***************************************************************************)
(* The REST calls (EndpointTable) as the user's threads make them:         *)
(* a wrapper checks its arguments, winecord_rest_run (winecord-rest.c)     *)
(* formats the endpoint and builds the key of the request's bucket         *)
(* (winecord_ratelimiter_build_key), and the request is in flight until    *)
(* it is answered.  What happens to it in between is RestRequest's.        *)
(*                                                                         *)
(* An argument is a number: 0 is the null identifier or the empty text.    *)
(* What a query asks is left out, and equal requests count once.  A section*)
(* of an endpoint, or of a key, is a pair that says whether it is literal  *)
(* text, an identifier or a word.                                          *)
(***************************************************************************)
EXTENDS EndpointTable, Integers, Sequences, FiniteSets

CONSTANTS
  Ids,       \* the identifiers in use, positive numbers
  MaxSent    \* bound: requests in flight

ASSUME EndpointsAssumption == Ids \subseteq Nat \ {0} /\ MaxSent \in Nat \ {0}

VARIABLES
  sent,   \* the requests in flight
  code    \* what the last call returned

vars == <<sent, code>>

----------------------------------------------------------------------------
(* Sections and arguments *)

\* how many variadic arguments the section of a format string takes
Takes(section) ==
  CASE section = "%s%q" -> 2
    [] section \in {"%u", "%s", "%q", "messages%q", "audit-logs%q", "public%q",
                    "private%q", "members%q", "search%q", "prune%q",
                    "scheduled-events%q", "users%q"} -> 1
    [] OTHER -> 0

\* the section without its query
Plain(section) ==
  CASE section = "messages%q" -> "messages"
    [] section = "audit-logs%q" -> "audit-logs"
    [] section = "public%q" -> "public"
    [] section = "private%q" -> "private"
    [] section = "members%q" -> "members"
    [] section = "search%q" -> "search"
    [] section = "prune%q" -> "prune"
    [] section = "scheduled-events%q" -> "scheduled-events"
    [] section = "users%q" -> "users"
    [] section = "%s%q" -> "%s"
    [] OTHER -> section

\* the argument each section's first conversion receives from vsnprintf; one
\* more entry for the end of the list
Formatted(path) ==
  LET at[i \in 1 .. Len(path) + 1] ==
        IF i = 1 THEN 1 ELSE at[i - 1] + Takes(path[i - 1])
  IN at

\* the arguments a thread may give to the call
Arguments(call) ==
  LET at == Formatted(call.path)
      Sections(texts) == {i \in DOMAIN call.path : call.path[i] \in texts}
  IN {args \in [1 .. at[Len(call.path) + 1] - 1 -> Ids \cup {0, 1}] :
        /\ \A i \in Sections({"%u"}) : args[at[i]] \in Ids \cup {0}
        /\ \A i \in Sections({"%s", "%s%q"}) : args[at[i]] \in {0, 1}
        /\ \A n \in DOMAIN args :
             args[n] # 0 => \E i \in Sections({"%u", "%s", "%s%q"}) : n = at[i]}

----------------------------------------------------------------------------
(* The endpoint: vsnprintf over the format's sections *)

Endpoint(path, args) ==
  LET at == Formatted(path)
  IN [i \in 1 .. Len(path) |->
        CASE path[i] = "%u" -> <<"id", args[at[i]]>>
          [] path[i] \in {"%s", "%s%q"} -> <<"word", args[at[i]]>>
          [] path[i] = "%q" -> <<"word", 0>>
          [] OTHER -> <<"text", Plain(path[i])>>]

----------------------------------------------------------------------------
(* The bucket's key: winecord_ratelimiter_build_key *)

Verb(method) == IF method = "MIMEPOST" THEN "POST" ELSE method

\* Mutant: an identifier is looked at, not taken.
ConsumedButIds(section) == IF section = "%u" THEN 0 ELSE Takes(section)
\* va_arg, once for every conversion of the section
Consumed(section) == Takes(section)

\* the argument the walk is at when it comes to a section
Walked(path) ==
  LET at[i \in 1 .. Len(path) + 1] ==
        IF i = 1 THEN 1 ELSE at[i - 1] + Consumed(path[i - 1])
  IN at

\* the sections the loop gets to: it ends after "reactions"
Turns(path) ==
  {i \in 1 .. Len(path) : \A j \in 1 .. i - 1 : path[j] # "reactions"}

Major(path, i) ==
  path[i] = "%u" /\ i # 1 /\ path[i - 1] \in {"channels", "guilds"}

\* the verb, and each section or its identifier
BuildKey(method, path, args) ==
  LET at == Walked(path)
  IN [verb |-> Verb(method),
      parts |-> [i \in Turns(path) |->
                   IF Major(path, i) THEN <<"id", args[at[i]]>>
                                     ELSE <<"text", path[i]>>]]

----------------------------------------------------------------------------
(* A call *)

Missing(call, args, texts) ==
  \E i \in DOMAIN call.path :
    LET n == Formatted(call.path)[i]
    IN call.path[i] \in texts /\ args[n] = 0 /\ n \notin call.loose

\* Mutant: an empty text is let through.
RefusedButForWords(call, args, given) ==
  \/ call.form \in {"params", "asks"} /\ ~given
  \/ Missing(call, args, {"%u"})
\* the wrapper's WINEBERRY_EXPECTs
Refused(call, args, given) ==
  \/ call.form \in {"params", "asks"} /\ ~given
  \/ Missing(call, args, {"%u", "%s", "%s%q"})

\* the JSON of the parameters does not fit in the wrapper's buffer
MayBeMalformed(call) == call.form \in {"params", "body"}

Request(call, method, args) ==
  [call |-> call, method |-> method, args |-> args,
   endpoint |-> Endpoint(call.path, args),
   key |-> BuildKey(method, call.path, args)]

Refuse(call, args, given) ==
  /\ Refused(call, args, given)
  /\ code' = "BAD_PARAMETER"
  /\ UNCHANGED sent

Malformed(call, args, given) ==
  /\ ~Refused(call, args, given)
  /\ MayBeMalformed(call)
  /\ code' = "MALFORMED_PAYLOAD"
  /\ UNCHANGED sent

Begin(call, args, given) ==
  /\ ~Refused(call, args, given)
  /\ \E method \in call.methods :
       sent' = sent \cup {Request(call, method, args)}
  /\ code' = "OK"

\* a thread makes a call
Call(call) ==
  /\ Cardinality(sent) < MaxSent
  /\ \E args \in Arguments(call), given \in BOOLEAN :
       \/ Refuse(call, args, given)
       \/ Malformed(call, args, given)
       \/ Begin(call, args, given)

\* the request's answer is dispatched and the request recycled
Answered(request) ==
  /\ sent' = sent \ {request}
  /\ UNCHANGED code

Init == sent = {} /\ code = "OK"

Next == (\E call \in Calls : Call(call)) \/ (\E r \in sent : Answered(r))

Spec == Init /\ [][Next]_vars

----------------------------------------------------------------------------
(* Properties *)

\* the sections of the route that count for its bucket: up to "reactions"
Counted(path) ==
  LET ends == {i \in 1 .. Len(path) : path[i] = "reactions"}
  IN IF ends = {} THEN path
     ELSE SubSeq(path, 1, CHOOSE i \in ends : \A j \in ends : i <= j)

\* what the endpoint names right after each "channels" and "guilds"
Majors(r) ==
  {<<i, r.endpoint[i]>> : i \in {j \in 2 .. Len(Counted(r.call.path)) :
     r.endpoint[j - 1] \in {<<"text", "channels">>, <<"text", "guilds">>}}}

\* one verb to the server, which does not tell how curl forms the body
SameVerb(m, n) == m = n \/ {m, n} = {"POST", "MIMEPOST"}

\* Two requests wait on one bucket exactly when the server rates them
\* together: same verb, same route and the same channel and guild in the URL
\* that is sent.  The key and the URL come from two walks over the same
\* variadic arguments (winecord-rest.c:124-136), which must keep in step
OneBucketPerRoute ==
  \A r, s \in sent :
    (r.key = s.key) <=> /\ SameVerb(r.method, s.method)
                        /\ Counted(r.call.path) = Counted(s.call.path)
                        /\ Majors(r) = Majors(s)

\* the elements of seq at the positions of a set, in their order
Kept(seq, places) ==
  [n \in 1 .. Cardinality(places) |->
     seq[CHOOSE i \in places : Cardinality({j \in places : j <= i}) = n]]

\* an endpoint without its empty sections, which a server does not see
Seen(endpoint) ==
  Kept(endpoint, {i \in DOMAIN endpoint : endpoint[i] # <<"word", 0>>})

\* a route without its query
Route(path) == Kept(path, {i \in DOMAIN path : path[i] # "%q"})

\* a server takes whatever is in a text's place for the text ("@me" or an
\* identifier for the name of an emoji)
Addresses(endpoint, route) ==
  /\ Len(endpoint) = Len(route)
  /\ \A i \in 1 .. Len(route) :
       CASE route[i] = "%u" -> endpoint[i][1] = "id"
         [] route[i] \in {"%s", "%s%q"} -> TRUE
         [] OTHER -> endpoint[i] = <<"text", Plain(route[i])>>

\* what the sections of a route say, whether or not a query follows
Shape(route) == [i \in 1 .. Len(route) |-> Plain(route[i])]

Routes ==
  {[methods |-> call.methods, route |-> Route(call.path)] : call \in Calls}

\* the server takes the request for another call's
MistakenForAnother(r) ==
  \E other \in Routes :
    /\ r.method \in other.methods
    /\ Addresses(Seen(r.endpoint), other.route)
    /\ Shape(other.route) # Shape(Route(r.call.path))

\* the name of the emoji after "reactions" is empty
WithoutEmoji(r) ==
  \E i \in 2 .. Len(r.call.path) :
    /\ r.call.path[i - 1] = "reactions"
    /\ r.endpoint[i] = <<"word", 0>>

\* An argument turns a call into another one (as deleting a webhook by its
\* token would become deleting it by its identifier) in one case: a reaction
\* to delete whose emoji has neither a name nor an identifier.
\* delete_own_reaction, delete_user_reaction (channel.c:316-390) and
\* delete_all_reactions_for_emoji (478-512) never look at emoji_name; with ""
\* they delete every reaction with some emoji, or every reaction of the
\* message.  A checked text, an identifier (0 is printed) and a query change
\* no call, and neither does an empty emoji that is added or asked for.
AnotherCallOnlyWithoutEmoji ==
  \A r \in sent :
    MistakenForAnother(r) <=> (r.method = "DELETE" /\ WithoutEmoji(r))
=============================================================================
