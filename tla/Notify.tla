-------------------------------- MODULE Notify --------------------------------
(***************************************************************************)
(* Telling people what happened to their issues: the goroutine that        *)
(* handlers start (server/notify.go), the devices it pushes to             *)
(* (server/notifications.go, db/notifications.go, internal/apns) and the   *)
(* browser tabs it publishes to (server/webnotify.go).                     *)
(*                                                                         *)
(* A notification goroutine takes its recipients one by one; each of its   *)
(* SQL statements, its call of the hub (under the hub's mutex) and its     *)
(* request to Apple is a step.  A tab is a channel that publish fills and  *)
(* the handler of the stream empties.                                      *)
(***************************************************************************)
EXTENDS Naturals, Sequences, SequencesExt, Tables, Slices

CONSTANTS
  Users,
  Nobody,       \* the blank assignee
  Devices,      \* APNs device tokens
  Tabs,         \* streams: browser tabs that are open or have been
  Notifiers,    \* goroutines: the notifications under way at once
  Categories,   \* which of the three kinds of event happen in this instance
  PushIsSetUp,  \* s.apns is not nil
  EventBuffer,  \* webNotifyEventBuffer
  MaxEvents     \* bound on the events that happen

ASSUME NotifyAssumption ==
  /\ Nobody \notin Users
  /\ Categories \subseteq {"new_issue", "new_comment", "resolved"}
  /\ PushIsSetUp \in BOOLEAN
  /\ EventBuffer \in Nat \ {0} /\ MaxEvents \in Nat

VARIABLES
  prefs,      \* users' notify_... columns: user -> the categories enabled
  tokens,     \* table notification_tokens: device -> owner, and whether its
              \* badge count is positive
  hub,        \* srv.webNotify.subs: user -> the channels of his tabs
  tabs,       \* the streams being served: tab -> user and what its channel holds
  notifying,  \* the goroutines: what each is doing
  nextEvent   \* how many events there have been, plus one

vars == <<prefs, tokens, hub, tabs, notifying, nextEvent>>

Events == 1..MaxEvents

\* An event as it lies in a channel: author is who caused it.
Message == [event: Events, author: Users]

\* todo: recipients not reached yet; user: the present one, seen: those before;
\* devices: his tokens not pushed to yet; pushing: the one being pushed to;
\* pushed (history): for whom it pushed to which device, so far.
Notifying == [step: {"recipients", "publish", "tokens", "badge", "send", "remove"},
              event: Events, author: Users, category: Categories,
              todo: Seq(Users), seen: SUBSET Users, user: Users \cup {Nobody},
              devices: SUBSET Devices, pushing: SUBSET Devices,
              pushed: Seq(Users \X Devices)]

Init ==
  /\ prefs = [u \in Users |-> Categories]
  /\ tokens = NoRows
  /\ hub = NoRows /\ tabs = NoRows
  /\ notifying = NoRows
  /\ nextEvent = 1

-----------------------------------------------------------------------------
At(g, step) == g \in DOMAIN notifying /\ notifying[g].step = step
Advance(g, step) == notifying' = [notifying EXCEPT ![g].step = step]

(* What handlers start: whom an event concerns.                            *)

\* A new issue concerns its assignee; a comment, when they are two people,
\* reporter and assignee; a change of status both, or one of them twice.
\* None concerns its author.
Recipients(category, author, reporter, assignee) ==
  LET people == CASE category = "new_issue" -> <<assignee>>
                  [] category = "new_comment" ->
                       IF Nobody \notin {reporter, assignee} /\ reporter # assignee
                       THEN <<reporter, assignee>> ELSE <<>>
                  [] category = "resolved" -> <<reporter, assignee>>
  IN Filter(people, Users \ {author})

\* The author of a new issue is its reporter.
Trigger(g) ==
  /\ g \notin DOMAIN notifying
  /\ nextEvent \in Events
  /\ \E c \in Categories, author \in Users, reporter \in Users, assignee \in Users \cup {Nobody} :
       LET people == Recipients(c, author, reporter, assignee) IN
       /\ c = "new_issue" => author = reporter
       /\ people # <<>>
       /\ notifying' = Put(notifying, g,
            [step |-> "recipients", event |-> nextEvent, author |-> author, category |-> c,
             todo |-> people, seen |-> {}, user |-> Nobody, devices |-> {}, pushing |-> {},
             pushed |-> <<>>])
  /\ nextEvent' = nextEvent + 1
  /\ UNCHANGED <<prefs, tokens, hub, tabs>>

-----------------------------------------------------------------------------
(* notify and notifyOne.                                                   *)

BugSkips(g, u) == FALSE
Skips(g, u) == u \in notifying[g].seen

\* Nobody left: the goroutine ends.
NotifyEnd(g) ==
  /\ At(g, "recipients") /\ notifying[g].todo = <<>>
  /\ notifying' = Without(notifying, {g})
  /\ UNCHANGED <<prefs, tokens, hub, tabs, nextEvent>>

\* GetNotificationPrefs of the next one.
NextRecipient(g) ==
  /\ At(g, "recipients") /\ notifying[g].todo # <<>>
  /\ LET u == Head(notifying[g].todo)
         wanted == ~Skips(g, u) /\ notifying[g].category \in prefs[u]
     IN notifying' = [notifying EXCEPT ![g].todo = Tail(@),
                                       ![g].seen = @ \cup {u},
                                       ![g].user = u,
                                       ![g].step = IF wanted THEN "publish" ELSE "recipients"]
  /\ UNCHANGED <<prefs, tokens, hub, tabs, nextEvent>>

HasRoom(t) == Len(tabs[t].queue) < EventBuffer
ChannelsOf(u) == IF u \in DOMAIN hub THEN ToSet(hub[u]) ELSE {}
EventOf(g) == [event |-> notifying[g].event, author |-> notifying[g].author]

\* hub.publish: an event that a channel has no room for is dropped.
BugPublish(g) ==
  /\ At(g, "publish")
  /\ \A t \in ChannelsOf(notifying[g].user) : HasRoom(t)
  /\ tabs' = [t \in DOMAIN tabs |->
                IF t \in ChannelsOf(notifying[g].user)
                THEN [tabs[t] EXCEPT !.queue = Append(@, EventOf(g))] ELSE tabs[t]]
  /\ Advance(g, IF PushIsSetUp THEN "tokens" ELSE "recipients")
  /\ UNCHANGED <<prefs, tokens, hub, nextEvent>>
Publish(g) ==
  /\ At(g, "publish")
  /\ tabs' = [t \in DOMAIN tabs |->
                IF t \in ChannelsOf(notifying[g].user) /\ HasRoom(t)
                THEN [tabs[t] EXCEPT !.queue = Append(@, EventOf(g))] ELSE tabs[t]]
  /\ Advance(g, IF PushIsSetUp THEN "tokens" ELSE "recipients")
  /\ UNCHANGED <<prefs, tokens, hub, nextEvent>>

\* TokensForUser.
LoadTokens(g) ==
  /\ At(g, "tokens")
  /\ notifying' = [notifying EXCEPT
       ![g].devices = {d \in DOMAIN tokens : tokens[d].user = notifying[g].user},
       ![g].step = "badge"]
  /\ UNCHANGED <<prefs, tokens, hub, tabs, nextEvent>>

\* IncrementBadge: UPDATE ... RETURNING.  No such row: a push without a badge.
Raised(d) == IF d \in DOMAIN tokens THEN [tokens EXCEPT ![d].badge = TRUE] ELSE tokens

RaiseBadge(g) ==
  /\ At(g, "badge")
  /\ IF notifying[g].devices = {}
     THEN Advance(g, "recipients") /\ UNCHANGED tokens
     ELSE \E d \in notifying[g].devices :
            /\ tokens' = Raised(d)
            /\ notifying' = [notifying EXCEPT ![g].devices = @ \ {d}, ![g].pushing = {d},
                                              ![g].step = "send"]
  /\ UNCHANGED <<prefs, hub, tabs, nextEvent>>

\* apns.Client.Send: delivered (then TouchToken, left out), failed, after which
\* it may have been delivered all the same, or, with 410 or BadDeviceToken,
\* rejected for good.  Whose device it is by now is not asked again.
SendPush(g) ==
  /\ At(g, "send")
  /\ \/ \E d \in notifying[g].pushing : notifying' = [notifying EXCEPT
            ![g].pushed = Append(@, <<notifying[g].user, d>>),
            ![g].pushing = {}, ![g].step = "badge"]
     \/ Advance(g, "remove")
  /\ UNCHANGED <<prefs, tokens, hub, tabs, nextEvent>>

\* DeleteToken, whoever has it now.
RemoveToken(g) ==
  /\ At(g, "remove")
  /\ tokens' = Without(tokens, notifying[g].pushing)
  /\ notifying' = [notifying EXCEPT ![g].pushing = {}, ![g].step = "badge"]
  /\ UNCHANGED <<prefs, hub, tabs, nextEvent>>

-----------------------------------------------------------------------------
(* Requests about devices and preferences: one statement each.             *)

\* A device that is registered already changes hands and keeps its badge.
Register ==
  /\ \E u \in Users, d \in Devices :
       tokens' = IF d \in DOMAIN tokens THEN [tokens EXCEPT ![d].user = u]
                 ELSE Put(tokens, d, [user |-> u, badge |-> FALSE])
  /\ UNCHANGED <<prefs, hub, tabs, notifying, nextEvent>>

Unregister ==
  /\ \E d \in DOMAIN tokens : tokens' = Without(tokens, {d})
  /\ UNCHANGED <<prefs, hub, tabs, notifying, nextEvent>>

ResetBadge ==
  /\ \E d \in Devices :
       tokens' = IF d \in DOMAIN tokens THEN [tokens EXCEPT ![d].badge = FALSE] ELSE tokens
  /\ UNCHANGED <<prefs, hub, tabs, notifying, nextEvent>>

SetPrefs ==
  /\ \E u \in Users, p \in SUBSET Categories : prefs' = [prefs EXCEPT ![u] = p]
  /\ UNCHANGED <<tokens, hub, tabs, notifying, nextEvent>>

-----------------------------------------------------------------------------
(* GET /api/notifications/stream.                                          *)

Subscribe(t) ==
  /\ t \notin DOMAIN tabs
  /\ \E u \in Users :
       /\ hub' = Put(hub, u, Append(IF u \in DOMAIN hub THEN hub[u] ELSE <<>>, t))
       /\ tabs' = Put(tabs, t, [user |-> u, queue |-> <<>>])
  /\ UNCHANGED <<prefs, tokens, notifying, nextEvent>>

\* The handler takes an event and writes it to the browser.  Nothing obliges
\* the browser to read, so the handler may be stuck in that write for ever.
Receive(t) ==
  /\ t \in DOMAIN tabs /\ tabs[t].queue # <<>>
  /\ tabs' = [tabs EXCEPT ![t].queue = Tail(@)]
  /\ UNCHANGED <<prefs, tokens, hub, notifying, nextEvent>>

\* unsubscribe: the channel leaves the hub and is closed, in one section; a
\* user without channels leaves it too.
BugUnsubscribed(u, t) ==
  IF Len(hub[u]) <= 2 THEN Without(hub, {u}) ELSE [hub EXCEPT ![u] = RemoveFirst(@, t)]
Unsubscribed(u, t) ==
  IF RemoveFirst(hub[u], t) = <<>> THEN Without(hub, {u})
  ELSE [hub EXCEPT ![u] = RemoveFirst(@, t)]

Unsubscribe(t) ==
  /\ t \in DOMAIN tabs
  /\ hub' = Unsubscribed(tabs[t].user, t)
  /\ tabs' = Without(tabs, {t})
  /\ UNCHANGED <<prefs, tokens, notifying, nextEvent>>

\* The server dies and is started again: the tables remain.
Restart ==
  /\ hub' = NoRows /\ tabs' = NoRows /\ notifying' = NoRows
  /\ UNCHANGED <<prefs, tokens, nextEvent>>

-----------------------------------------------------------------------------
\* What the goroutine does next.
NotifierStep(g) ==
  \/ NotifyEnd(g) \/ NextRecipient(g) \/ Publish(g)
  \/ LoadTokens(g) \/ RaiseBadge(g) \/ SendPush(g) \/ RemoveToken(g)

Next ==
  \/ \E g \in Notifiers : Trigger(g) \/ NotifierStep(g)
  \/ \E t \in Tabs : Subscribe(t) \/ Receive(t) \/ Unsubscribe(t)
  \/ Register \/ Unregister \/ ResetBadge \/ SetPrefs \/ Restart

Spec == Init /\ [][Next]_vars

\* A goroutine goes on: statements end, and http.Client gives Apple ten
\* seconds.  Nothing is assumed of browsers.
Fairness == \A g \in Notifiers : WF_vars(NotifierStep(g))
LiveSpec == Spec /\ Fairness

-----------------------------------------------------------------------------
(* Properties.                                                             *)

TypeOK ==
  /\ prefs \in [Users -> SUBSET Categories]
  /\ DOMAIN tokens \subseteq Devices
  /\ tokens \in [DOMAIN tokens -> [user: Users, badge: BOOLEAN]]
  /\ DOMAIN hub \subseteq Users /\ \A u \in DOMAIN hub : hub[u] \in Seq(Tabs) /\ hub[u] # <<>>
  /\ DOMAIN tabs \subseteq Tabs
  /\ \A t \in DOMAIN tabs :
       tabs[t] \in [user: Users, queue: Seq(Message)] /\ Len(tabs[t].queue) <= EventBuffer
  /\ DOMAIN notifying \subseteq Notifiers
  /\ notifying \in [DOMAIN notifying -> Notifying]
  /\ nextEvent \in 1..(MaxEvents + 1)

\* The hub and the streams agree: every open tab is in the hub exactly once,
\* under its user, and no channel in the hub is closed, so that publish reaches
\* all and never sends on a closed channel (webnotify.go's comment on publish).
\* (On top of the types.)
HubIsOpenTabs ==
  /\ TypeOK
  /\ \A t \in DOMAIN tabs : tabs[t].user \in DOMAIN hub
  /\ \A u \in DOMAIN hub :
       /\ IsInjective(hub[u])
       /\ ToSet(hub[u]) = {t \in DOMAIN tabs : tabs[t].user = u}

\* Nobody is told twice of one event, though he be its reporter and its
\* assignee: no channel holds it twice, and no push goes for him to one device
\* twice.  And no tab, and no push, is for its author ("never the comment's own
\* author", docs/NOTIFICATIONS.md).  This is about whom notify addresses: a
\* device that has changed hands since his tokens were loaded is AuthorIsSpared's.
ToldOnce ==
  /\ \A t \in DOMAIN tabs : LET queue == tabs[t].queue IN
       /\ \A i, j \in DOMAIN queue : queue[i].event = queue[j].event => i = j
       /\ \A i \in DOMAIN queue : queue[i].author # tabs[t].user
  /\ \A g \in DOMAIN notifying : LET pushed == notifying[g].pushed IN
       /\ IsInjective(pushed)
       /\ \A i \in DOMAIN pushed : pushed[i][1] # notifying[g].author

\* No push reaches a device that is its author's when it is sent ("notify
\* whichever ... did not author the comment ... never the comment's own author",
\* docs/NOTIFICATIONS.md).  False: TokensForUser is asked once, the pushes go
\* one after the other, and the device may be registered anew in between.
AuthorIsSpared ==
  [][\A g \in DOMAIN notifying \cap DOMAIN notifying' :
       notifying'[g].pushed # notifying[g].pushed =>
         \A d \in notifying[g].pushing \cap DOMAIN tokens :
           tokens[d].user # notifying[g].author]_vars

\* A notification under way ends, whatever the tabs do: one that does not
\* read cannot hold up the others ("one stalled subscriber can never block").
NotifyEnds ==
  \A g \in Notifiers : (g \in DOMAIN notifying) ~> (g \notin DOMAIN notifying)
=============================================================================
