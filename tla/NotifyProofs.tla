---------------------------- MODULE NotifyProofs ----------------------------
(***************************************************************************)
(* What holds of Notify for any number of users, devices, tabs and         *)
(* notifications under way, and any size of a channel's buffer.            *)
(***************************************************************************)
EXTENDS Notify, DataTheorems

Steps == {"recipients", "publish", "tokens", "badge", "send", "remove"}

-----------------------------------------------------------------------------
(* The invariant.                                                          *)

\* A goroutine pushes for those it has reached, for none to one device twice: not
\* yet for the one it publishes to, and then not to the devices still to come.
PushesOK(q) ==
  /\ IsInjective(q.pushed)
  /\ \A i \in DOMAIN q.pushed : q.pushed[i][1] \in q.seen /\ q.pushed[i][1] # q.author
  /\ q.step # "recipients" => q.user \in q.seen
  /\ q.step \notin {"send", "remove"} => q.pushing = {}
  /\ q.step \in {"publish", "tokens"} => \A i \in DOMAIN q.pushed : q.pushed[i][1] # q.user
  /\ q.step \in {"badge", "send", "remove"} =>
       /\ q.devices \cap q.pushing = {}
       /\ \A i \in DOMAIN q.pushed :
            q.pushed[i][1] = q.user => q.pushed[i][2] \notin q.devices \cup q.pushing

\* Goroutines still go to nobody's author, are each about an event of their
\* own, and publish to one they have noted as seen.
GoroutinesOK ==
  /\ \A g \in DOMAIN notifying :
       /\ notifying[g].event < nextEvent
       /\ notifying[g].todo \in Seq(Users \ {notifying[g].author})
       /\ notifying[g].user # notifying[g].author
       /\ PushesOK(notifying[g])
  /\ \A g, h \in DOMAIN notifying : notifying[g].event = notifying[h].event => g = h

\* What lies in a channel has happened, once, and by somebody else.
ChannelsOK ==
  \A t \in DOMAIN tabs : LET queue == tabs[t].queue IN
    /\ \A i \in DOMAIN queue : queue[i].event < nextEvent /\ queue[i].author # tabs[t].user
    /\ \A i, j \in DOMAIN queue : queue[i].event = queue[j].event => i = j

\* A channel has a goroutine's event only if the goroutine has reached its
\* user, and has published to him.
Reached(g, u) ==
  u \in notifying[g].seen /\ ~(notifying[g].step = "publish" /\ notifying[g].user = u)
OnlyTheReachedAreTold ==
  \A g \in DOMAIN notifying, t \in DOMAIN tabs :
    (\E i \in DOMAIN tabs[t].queue : tabs[t].queue[i].event = notifying[g].event)
      => Reached(g, tabs[t].user)

IInv == HubIsOpenTabs /\ GoroutinesOK /\ ChannelsOK /\ OnlyTheReachedAreTold

\* The parts of the type invariant, for actions that touch one of them.
TokensOK ==
  DOMAIN tokens \subseteq Devices /\ tokens \in [DOMAIN tokens -> [user: Users, badge: BOOLEAN]]
NotifyingOK ==
  DOMAIN notifying \subseteq Notifiers /\ notifying \in [DOMAIN notifying -> Notifying]
Tab(tab) == tab \in [user: Users, queue: Seq(Message)] /\ Len(tab.queue) <= EventBuffer
TabsOK == DOMAIN tabs \subseteq Tabs /\ \A t \in DOMAIN tabs : Tab(tabs[t])
HubOK ==
  /\ DOMAIN hub \subseteq Users /\ \A u \in DOMAIN hub : hub[u] \in Seq(Tabs) /\ hub[u] # <<>>
  /\ \A t \in DOMAIN tabs : tabs[t].user \in DOMAIN hub
  /\ \A u \in DOMAIN hub :
       /\ IsInjective(hub[u])
       /\ ToSet(hub[u]) = {t \in DOMAIN tabs : tabs[t].user = u}

LEMMA Parts ==
  HubIsOpenTabs <=> /\ prefs \in [Users -> SUBSET Categories] /\ nextEvent \in 1..(MaxEvents + 1)
                    /\ TokensOK /\ NotifyingOK /\ TabsOK /\ HubOK
BY DEF HubIsOpenTabs, TypeOK, TokensOK, NotifyingOK, TabsOK, HubOK, Tab

LEMMA InitIInv == Init => IInv
<1> SUFFICES ASSUME Init PROVE IInv
  OBVIOUS
<1>1. 1 \in 1..(MaxEvents + 1)
  BY NotifyAssumption
<1>2. HubIsOpenTabs
  BY <1>1 DEF Init, NoRows, HubIsOpenTabs, TypeOK
<1> QED
  BY <1>2 DEF IInv, Init, NoRows, GoroutinesOK, ChannelsOK, OnlyTheReachedAreTold

-----------------------------------------------------------------------------
(* Starting a notification.                                                *)

LEMMA RecipientsType ==
  ASSUME NEW c \in Categories, NEW author \in Users, NEW reporter \in Users,
         NEW assignee \in Users \cup {Nobody}
  PROVE  /\ Recipients(c, author, reporter, assignee) \in Seq(Users)
         /\ Recipients(c, author, reporter, assignee) \in Seq(Users \ {author})
<1> DEFINE People == Users \cup {Nobody}
           people == CASE c = "new_issue" -> <<assignee>>
                       [] c = "new_comment" ->
                            IF Nobody \notin {reporter, assignee} /\ reporter # assignee
                            THEN <<reporter, assignee>> ELSE <<>>
                       [] c = "resolved" -> <<reporter, assignee>>
           told == Filter(people, Users \ {author})
<1>1. c \in {"new_issue", "new_comment", "resolved"}
  BY NotifyAssumption
<1>2. people \in Seq(People)
  <2>1. <<assignee>> \in Seq(People) /\ <<reporter, assignee>> \in Seq(People) /\ <<>> \in Seq(People)
    OBVIOUS
  <2>2. CASE c = "new_issue"
    BY <2>1, <2>2
  <2>3. CASE c = "new_comment"
    BY <2>1, <2>3
  <2>4. CASE c = "resolved"
    BY <2>1, <2>4
  <2> QED BY <1>1, <2>2, <2>3, <2>4
<1> HIDE DEF people
<1>3. told \in Seq(People) /\ ToSet(told) \subseteq Users \ {author}
  BY <1>2, FilterMembers
<1>4. Recipients(c, author, reporter, assignee) = told
  BY DEF Recipients, people
<1> HIDE DEF told, People
<1>5. told \in Seq(Users) /\ told \in Seq(Users \ {author})
  BY <1>3, SeqOfMembers
<1> QED BY <1>4, <1>5

-----------------------------------------------------------------------------
(* What every step reads of the invariant.                                 *)

LEMMA EventsAreNumbers == Events \subseteq Nat
BY NotifyAssumption DEF Events

LEMMA GoroutineType ==
  ASSUME NEW q \in Notifying
  PROVE  /\ q.step \in Steps /\ q.event \in Events /\ q.event \in Nat /\ q.author \in Users
         /\ q.category \in Categories /\ q.todo \in Seq(Users) /\ q.seen \in SUBSET Users
         /\ q.user \in Users \cup {Nobody}
         /\ q.devices \in SUBSET Devices /\ q.pushing \in SUBSET Devices
         /\ q.pushed \in Seq(Users \X Devices)
BY EventsAreNumbers DEF Notifying, Steps

LEMMA MessageType ==
  ASSUME NEW queue \in Seq(Message)
  PROVE  \A i \in DOMAIN queue :
           queue[i] \in Message /\ queue[i].event \in Nat /\ queue[i].author \in Users
<1> SUFFICES ASSUME NEW i \in DOMAIN queue
    PROVE  queue[i] \in Message /\ queue[i].event \in Nat /\ queue[i].author \in Users
  OBVIOUS
<1>1. queue[i] \in Message
  OBVIOUS
<1> QED BY <1>1, EventsAreNumbers DEF Message

LEMMA Known ==
  ASSUME IInv
  PROVE  /\ HubIsOpenTabs /\ GoroutinesOK /\ ChannelsOK /\ OnlyTheReachedAreTold
         /\ TokensOK /\ NotifyingOK /\ TabsOK /\ HubOK
         /\ prefs \in [Users -> SUBSET Categories]
         /\ nextEvent \in 1..(MaxEvents + 1) /\ nextEvent \in Nat
BY Parts DEF IInv

LEMMA TriggerStep ==
  ASSUME IInv, NEW g \in Notifiers, Trigger(g)
  PROVE  IInv'
<1>1. /\ HubIsOpenTabs /\ GoroutinesOK /\ ChannelsOK /\ OnlyTheReachedAreTold
      /\ NotifyingOK /\ nextEvent \in 1..(MaxEvents + 1) /\ nextEvent \in Nat
  BY Known
<1>2. PICK c \in Categories, author \in Users, reporter \in Users, assignee \in Users \cup {Nobody} :
        notifying' = Put(notifying, g,
          [step |-> "recipients", event |-> nextEvent, author |-> author, category |-> c,
           todo |-> Recipients(c, author, reporter, assignee), seen |-> {}, user |-> Nobody,
           devices |-> {}, pushing |-> {}, pushed |-> <<>>])
  BY DEF Trigger
<1> DEFINE q == [step |-> "recipients", event |-> nextEvent, author |-> author, category |-> c,
                 todo |-> Recipients(c, author, reporter, assignee), seen |-> {}, user |-> Nobody,
                 devices |-> {}, pushing |-> {}, pushed |-> <<>>]
<1>3. /\ g \notin DOMAIN notifying /\ nextEvent \in Events /\ nextEvent' = nextEvent + 1
      /\ UNCHANGED <<prefs, tokens, hub, tabs>>
  BY DEF Trigger
<1>4. q \in Notifying /\ PushesOK(q)
  <2>1. q \in Notifying
    <3>1. <<>> \in Seq(Users \X Devices)
      OBVIOUS
    <3> QED BY <1>3, <3>1, RecipientsType DEF Notifying
  <2>2. PushesOK(q)
    BY DEF PushesOK, IsInjective
  <2> QED BY <2>1, <2>2
<1>5. /\ q.event = nextEvent /\ q.step = "recipients" /\ q.user = Nobody /\ q.author \in Users
      /\ q.todo \in Seq(Users \ {q.author})
  BY RecipientsType
<1> HIDE DEF q
<1>6. notifying' = Put(notifying, g, q)
  BY <1>2 DEF q
<1>7. /\ DOMAIN notifying' = DOMAIN notifying \cup {g} /\ notifying'[g] = q
      /\ \A h \in DOMAIN notifying : notifying'[h] = notifying[h]
  BY <1>3, <1>6 DEF Put
<1>8. NotifyingOK'
  BY <1>1, <1>4, <1>6, PutType, <1>7 DEF NotifyingOK
<1>9. nextEvent' \in 1..(MaxEvents + 1)
  BY <1>1, <1>3, NotifyAssumption DEF Events
<1>10. HubIsOpenTabs'
  <2>1. TokensOK' /\ TabsOK' /\ HubOK' /\ prefs' \in [Users -> SUBSET Categories]
    BY <1>1, <1>3, Parts DEF TokensOK, TabsOK, HubOK
  <2> QED BY <1>8, <1>9, <2>1, Parts DEF HubIsOpenTabs, TypeOK, TokensOK, NotifyingOK, TabsOK, HubOK, Tab
<1>11. \A h \in DOMAIN notifying : notifying[h].event \in Nat /\ notifying[h].event < nextEvent
  BY <1>1, GoroutineType DEF NotifyingOK, GoroutinesOK
<1>12. GoroutinesOK'
  <2>1. \A h \in DOMAIN notifying' : PushesOK(notifying[h])'
    <3>1. \A h \in DOMAIN notifying' : PushesOK(notifying'[h])
      BY <1>1, <1>4, <1>7 DEF GoroutinesOK
    <3> QED BY <3>1 DEF PushesOK
  <2> QED BY <1>1, <1>3, <1>5, <1>7, <1>11, <2>1, NotifyAssumption DEF GoroutinesOK
<1>13. \A t \in DOMAIN tabs : tabs[t].queue \in Seq(Message)
  BY <1>1, Parts DEF TabsOK, Tab
<1>14. \A t \in DOMAIN tabs : \A i \in DOMAIN tabs[t].queue :
         tabs[t].queue[i].event \in Nat /\ tabs[t].queue[i].event < nextEvent
  BY <1>1, <1>13, MessageType DEF ChannelsOK
<1>15. ChannelsOK'
  BY <1>1, <1>3, <1>14 DEF ChannelsOK
<1>16. OnlyTheReachedAreTold'
  BY <1>1, <1>3, <1>5, <1>7, <1>14 DEF OnlyTheReachedAreTold, Reached
<1> QED BY <1>10, <1>12, <1>15, <1>16 DEF IInv

-----------------------------------------------------------------------------
(* Steps of one goroutine.                                                 *)

\* A goroutine that goes on with its event.
LEMMA GoroutineGoesOn ==
  ASSUME NotifyingOK, GoroutinesOK, NEW g \in DOMAIN notifying, NEW q \in Notifying,
         notifying' = [notifying EXCEPT ![g] = q],
         q.event = notifying[g].event, q.author = notifying[g].author,
         q.todo \in Seq(Users \ {q.author}), q.user # q.author,
         PushesOK(q), UNCHANGED nextEvent
  PROVE  NotifyingOK' /\ GoroutinesOK'
<1>1. /\ DOMAIN notifying' = DOMAIN notifying /\ notifying'[g] = q
      /\ \A h \in DOMAIN notifying \ {g} : notifying'[h] = notifying[h]
  BY DEF NotifyingOK
<1>2. NotifyingOK'
  BY DEF NotifyingOK
<1>3. GoroutinesOK'
  <2>1. \A h \in DOMAIN notifying : notifying'[h].event = notifying[h].event
    BY <1>1
  <2>2. \A h, k \in DOMAIN notifying : notifying'[h].event = notifying'[k].event => h = k
    BY <2>1 DEF GoroutinesOK
  <2>3. /\ q.event < nextEvent' /\ q.todo \in Seq(Users \ {q.author}) /\ q.user # q.author
        /\ PushesOK(q)
    BY DEF GoroutinesOK
  <2>4. \A h \in DOMAIN notifying :
          /\ notifying'[h].event < nextEvent'
          /\ notifying'[h].todo \in Seq(Users \ {notifying'[h].author})
          /\ notifying'[h].user # notifying'[h].author
          /\ PushesOK(notifying'[h])
    <3> SUFFICES ASSUME NEW h \in DOMAIN notifying
        PROVE  /\ notifying'[h].event < nextEvent'
               /\ notifying'[h].todo \in Seq(Users \ {notifying'[h].author})
               /\ notifying'[h].user # notifying'[h].author
               /\ PushesOK(notifying'[h])
      OBVIOUS
    <3>1. CASE h = g
      BY <1>1, <2>3, <3>1
    <3>2. CASE h # g
      BY <1>1, <3>2 DEF GoroutinesOK
    <3> QED BY <3>1, <3>2
  <2>5. \A h \in DOMAIN notifying : PushesOK(notifying[h])'
    BY <1>1, <2>4 DEF PushesOK
  <2> QED BY <1>1, <2>2, <2>4, <2>5 DEF GoroutinesOK
<1> QED BY <1>2, <1>3

\* A goroutine that goes on with its event, and forgets nobody it has reached,
\* keeps the invariant.
LEMMA GoroutineMoves ==
  ASSUME IInv, NEW g \in DOMAIN notifying, NEW q \in Notifying,
         notifying' = [notifying EXCEPT ![g] = q],
         q.event = notifying[g].event, q.author = notifying[g].author,
         q.todo \in Seq(Users \ {q.author}), q.user # q.author,
         PushesOK(q),
         \A u \in Users : Reached(g, u) => u \in q.seen /\ ~(q.step = "publish" /\ q.user = u),
         TokensOK', UNCHANGED <<prefs, hub, tabs, nextEvent>>
  PROVE  IInv'
<1>1. /\ GoroutinesOK /\ ChannelsOK /\ OnlyTheReachedAreTold /\ NotifyingOK /\ TabsOK /\ HubOK
      /\ prefs \in [Users -> SUBSET Categories] /\ nextEvent \in 1..(MaxEvents + 1)
  BY Known
<1>2. /\ DOMAIN notifying' = DOMAIN notifying /\ notifying'[g] = q
      /\ \A h \in DOMAIN notifying \ {g} : notifying'[h] = notifying[h]
  OBVIOUS
<1>3. NotifyingOK' /\ GoroutinesOK'
  BY <1>1, GoroutineGoesOn
<1>4. TabsOK' /\ HubOK'
  BY <1>1 DEF TabsOK, HubOK
<1>5. HubIsOpenTabs'
  BY <1>1, <1>3, <1>4 DEF HubIsOpenTabs, TypeOK, TokensOK, NotifyingOK, TabsOK, HubOK, Tab
<1>6. ChannelsOK'
  BY <1>1 DEF ChannelsOK
<1>7. OnlyTheReachedAreTold'
  <2> SUFFICES ASSUME NEW h \in DOMAIN notifying, NEW t \in DOMAIN tabs,
                      \E i \in DOMAIN tabs[t].queue : tabs[t].queue[i].event = notifying'[h].event
      PROVE  Reached(h, tabs[t].user)'
    BY <1>2 DEF OnlyTheReachedAreTold
  <2>1. Reached(h, tabs[t].user)
    BY <1>1, <1>2 DEF OnlyTheReachedAreTold
  <2>2. tabs[t].user \in Users
    BY <1>1 DEF TabsOK, Tab
  <2>3. CASE h = g
    BY <1>2, <2>1, <2>2, <2>3 DEF Reached
  <2>4. CASE h # g
    BY <1>2, <2>1, <2>4 DEF Reached
  <2> QED BY <2>3, <2>4
<1> QED BY <1>3, <1>5, <1>6, <1>7 DEF IInv

\* What a goroutine that is under way knows of itself.
LEMMA Goroutine ==
  ASSUME IInv, NEW g \in DOMAIN notifying
  PROVE  /\ notifying[g] \in Notifying
         /\ notifying[g].todo \in Seq(Users \ {notifying[g].author})
         /\ notifying[g].user # notifying[g].author
         /\ notifying[g].event < nextEvent
         /\ PushesOK(notifying[g])
BY Known DEF NotifyingOK, GoroutinesOK

LEMMA NextRecipientStep ==
  ASSUME IInv, NEW g \in Notifiers, NextRecipient(g)
  PROVE  IInv'
<1>1. g \in DOMAIN notifying /\ notifying[g].todo # <<>>
  BY DEF NextRecipient, At
<1> DEFINE p == notifying[g]
           u == Head(p.todo)
           step == IF u \notin p.seen /\ p.category \in prefs[u] THEN "publish" ELSE "recipients"
           q == [p EXCEPT !.todo = Tail(@), !.seen = @ \cup {u}, !.user = u, !.step = step]
<1>2. /\ notifying' = [notifying EXCEPT ![g] = q]
      /\ UNCHANGED <<prefs, tokens, hub, tabs, nextEvent>>
  BY DEF NextRecipient, Skips
<1>3. /\ p \in Notifying /\ p.todo \in Seq(Users \ {p.author})
  BY <1>1, Goroutine
<1>4. /\ u \in Users \ {p.author} /\ Tail(p.todo) \in Seq(Users \ {p.author})
      /\ Tail(p.todo) \in Seq(Users)
  BY <1>1, <1>3, GoroutineType
<1>5. q \in Notifying
  BY <1>3, <1>4 DEF Notifying
<1>6. /\ q.event = p.event /\ q.author = p.author /\ q.todo = Tail(p.todo)
      /\ q.seen = p.seen \cup {u} /\ q.user = u /\ q.step = step
  BY <1>3 DEF Notifying
<1>7. TokensOK'
  BY <1>2, Known DEF TokensOK
<1> HIDE DEF u, q
<1>8. \A v \in Users : Reached(g, v) => v \in q.seen /\ ~(q.step = "publish" /\ q.user = v)
  BY <1>6 DEF Reached
<1>9. PushesOK(q)
  <2>1. q.pushed = p.pushed /\ q.pushing = p.pushing /\ PushesOK(p) /\ p.step = "recipients"
    BY <1>1, <1>3, Goroutine DEF q, Notifying, NextRecipient, At
  <2>2. q.step \in {"publish", "recipients"} /\ (q.step = "publish" => u \notin p.seen)
    BY <1>6
  <2>3. /\ \A i \in DOMAIN q.pushed : q.pushed[i][1] \in q.seen /\ q.pushed[i][1] # q.author
        /\ q.step = "publish" => \A i \in DOMAIN q.pushed : q.pushed[i][1] # q.user
    BY <1>6, <2>1, <2>2 DEF PushesOK
  <2> HIDE DEF p
  <2> QED BY <1>6, <2>1, <2>2, <2>3 DEF PushesOK
<1> QED BY <1>1, <1>2, <1>4, <1>5, <1>6, <1>7, <1>8, <1>9, GoroutineMoves

\* The steps that are about devices: they come after publishing.
OnDevices(p, step, devices, pushing, pushed) ==
  [p EXCEPT !.step = step, !.devices = devices, !.pushing = pushing, !.pushed = pushed]

LEMMA OnDevicesRecord ==
  ASSUME NEW p \in Notifying, NEW step, NEW devices, NEW pushing, NEW pushed
  PROVE  LET q == OnDevices(p, step, devices, pushing, pushed) IN
         /\ q.step = step /\ q.devices = devices /\ q.pushing = pushing /\ q.pushed = pushed
         /\ q.seen = p.seen /\ q.author = p.author /\ q.user = p.user
BY DEF OnDevices, Notifying

LEMMA DeviceStep ==
  ASSUME IInv, NEW g \in DOMAIN notifying, notifying[g].step \notin {"publish", "recipients"},
         NEW step \in Steps \ {"publish", "tokens"}, NEW devices \in SUBSET Devices,
         NEW pushing \in SUBSET Devices, NEW pushed \in Seq(Users \X Devices),
         PushesOK(OnDevices(notifying[g], step, devices, pushing, pushed)),
         notifying' = [notifying EXCEPT
                         ![g] = OnDevices(notifying[g], step, devices, pushing, pushed)],
         TokensOK', UNCHANGED <<prefs, hub, tabs, nextEvent>>
  PROVE  IInv'
<1> DEFINE p == notifying[g]
           q == OnDevices(p, step, devices, pushing, pushed)
<1>1. /\ p \in Notifying /\ p.todo \in Seq(Users \ {p.author}) /\ p.user # p.author
  BY Goroutine
<1>2. q \in Notifying
  BY <1>1 DEF Notifying, Steps, OnDevices
<1>3. /\ q.event = p.event /\ q.author = p.author /\ q.todo = p.todo
      /\ q.seen = p.seen /\ q.user = p.user /\ q.step = step
      /\ q.devices = devices /\ q.pushing = pushing /\ q.pushed = pushed
  BY <1>1 DEF Notifying, OnDevices
<1>4. notifying' = [notifying EXCEPT ![g] = q]
  OBVIOUS
<1>5. PushesOK(q)
  OBVIOUS
<1> HIDE DEF q
<1>6. \A v \in Users : Reached(g, v) => v \in q.seen /\ ~(q.step = "publish" /\ q.user = v)
  BY <1>3 DEF Reached
<1> QED BY <1>1, <1>2, <1>3, <1>4, <1>5, <1>6, GoroutineMoves

\* What such a step starts from.
LEMMA PushesSoFar ==
  ASSUME IInv, NEW g \in DOMAIN notifying
  PROVE  LET p == notifying[g] IN
         /\ p.pushed \in Seq(Users \X Devices) /\ IsInjective(p.pushed)
         /\ \A i \in DOMAIN p.pushed : p.pushed[i][1] \in p.seen /\ p.pushed[i][1] # p.author
         /\ p.step \notin {"send", "remove"} => p.pushing = {}
         /\ p.step = "tokens" => \A i \in DOMAIN p.pushed : p.pushed[i][1] # p.user
         /\ p.step \in {"badge", "send", "remove"} =>
              /\ p.devices \cap p.pushing = {}
              /\ \A i \in DOMAIN p.pushed :
                   p.pushed[i][1] = p.user => p.pushed[i][2] \notin p.devices \cup p.pushing
         /\ p.step # "recipients" => p.user \in p.seen
BY Goroutine, GoroutineType DEF PushesOK

LEMMA LoadTokensStep ==
  ASSUME IInv, NEW g \in Notifiers, LoadTokens(g)
  PROVE  IInv'
<1> DEFINE p == notifying[g]
           mine == {d \in DOMAIN tokens : tokens[d].user = p.user}
<1>1. /\ g \in DOMAIN notifying /\ p.step = "tokens"
      /\ UNCHANGED <<prefs, tokens, hub, tabs, nextEvent>>
  BY DEF LoadTokens, At
<1>2. p \in Notifying /\ mine \in SUBSET Devices /\ TokensOK' /\ p.pushing = {}
  BY <1>1, Goroutine, PushesSoFar, Known DEF TokensOK
<1>3. [p EXCEPT !.devices = mine, !.step = "badge"] =
      OnDevices(p, "badge", mine, {}, p.pushed)
  BY <1>2 DEF Notifying, OnDevices
<1>4. notifying' = [notifying EXCEPT ![g] = OnDevices(p, "badge", mine, {}, p.pushed)]
  BY <1>3 DEF LoadTokens
<1> HIDE DEF mine
<1>5. "badge" \in Steps \ {"publish", "tokens"} /\ {} \in SUBSET Devices
  BY DEF Steps
<1>6. p.pushed \in Seq(Users \X Devices) /\ PushesOK(OnDevices(p, "badge", mine, {}, p.pushed))
  <2> DEFINE q == OnDevices(p, "badge", mine, {}, p.pushed)
  <2>1. /\ q.step = "badge" /\ q.devices = mine /\ q.pushing = {} /\ q.pushed = p.pushed
        /\ q.seen = p.seen /\ q.author = p.author /\ q.user = p.user
    BY <1>2, OnDevicesRecord
  <2> HIDE DEF q
  <2>2. PushesOK(q)
    BY <1>1, <2>1, PushesSoFar DEF PushesOK
  <2> QED BY <1>1, <2>2, PushesSoFar DEF q
<1> QED BY <1>1, <1>2, <1>4, <1>5, <1>6, DeviceStep

LEMMA RaisedType ==
  ASSUME TokensOK, NEW d
  PROVE  /\ DOMAIN Raised(d) \subseteq Devices
         /\ Raised(d) \in [DOMAIN Raised(d) -> [user: Users, badge: BOOLEAN]]
BY DEF TokensOK, Raised

LEMMA RaiseBadgeStep ==
  ASSUME IInv, NEW g \in Notifiers, RaiseBadge(g)
  PROVE  IInv'
<1> DEFINE p == notifying[g]
<1>1. g \in DOMAIN notifying /\ p.step = "badge" /\ UNCHANGED <<prefs, hub, tabs, nextEvent>>
  BY DEF RaiseBadge, At
<1>2. p \in Notifying /\ TokensOK
  BY <1>1, Goroutine, Known
<1>3. p.devices \in SUBSET Devices /\ p.pushing = {} /\ {} \in SUBSET Devices
  BY <1>1, <1>2, GoroutineType, PushesSoFar
<1>4. CASE p.devices = {}
  <2>1. UNCHANGED tokens /\ notifying' = [notifying EXCEPT ![g] = [p EXCEPT !.step = "recipients"]]
    BY <1>4 DEF RaiseBadge, Advance
  <2>2. [p EXCEPT !.step = "recipients"] =
        OnDevices(p, "recipients", {}, {}, p.pushed)
    BY <1>2, <1>3, <1>4 DEF Notifying, OnDevices
  <2>3. notifying' = [notifying EXCEPT ![g] = OnDevices(p, "recipients", {}, {}, p.pushed)]
    BY <2>1, <2>2
  <2>4. TokensOK' /\ "recipients" \in Steps \ {"publish", "tokens"}
    BY <1>2, <2>1 DEF TokensOK, Steps
  <2>5. p.pushed \in Seq(Users \X Devices) /\ PushesOK(OnDevices(p, "recipients", {}, {}, p.pushed))
    <3> DEFINE q == OnDevices(p, "recipients", {}, {}, p.pushed)
    <3>1. /\ q.step = "recipients" /\ q.pushing = {} /\ q.pushed = p.pushed
          /\ q.seen = p.seen /\ q.author = p.author
      BY <1>2, OnDevicesRecord
    <3> HIDE DEF q
    <3>2. PushesOK(q)
      BY <1>1, <3>1, PushesSoFar DEF PushesOK
    <3> QED BY <1>1, <3>2, PushesSoFar DEF q
  <2> QED BY <1>1, <1>3, <2>3, <2>4, <2>5, DeviceStep
<1>5. CASE p.devices # {}
  <2>1. PICK d \in p.devices :
          /\ tokens' = Raised(d)
          /\ notifying' = [notifying EXCEPT ![g] =
               [p EXCEPT !.devices = p.devices \ {d}, !.pushing = {d}, !.step = "send"]]
    BY <1>5 DEF RaiseBadge
  <2>2. [p EXCEPT !.devices = p.devices \ {d}, !.pushing = {d}, !.step = "send"] =
        OnDevices(p, "send", p.devices \ {d}, {d}, p.pushed)
    BY <1>2 DEF Notifying, OnDevices
  <2>3. notifying' = [notifying EXCEPT
                        ![g] = OnDevices(p, "send", p.devices \ {d}, {d}, p.pushed)]
    BY <2>1, <2>2
  <2>4. TokensOK' /\ "send" \in Steps \ {"publish", "tokens"}
    BY <1>2, <2>1, RaisedType DEF TokensOK, Steps
  <2>5. p.devices \ {d} \in SUBSET Devices /\ {d} \in SUBSET Devices
    BY <1>3
  <2>6. /\ p.pushed \in Seq(Users \X Devices)
        /\ PushesOK(OnDevices(p, "send", p.devices \ {d}, {d}, p.pushed))
    <3> DEFINE q == OnDevices(p, "send", p.devices \ {d}, {d}, p.pushed)
    <3>1. /\ q.step = "send" /\ q.devices = p.devices \ {d} /\ q.pushing = {d}
          /\ q.pushed = p.pushed /\ q.seen = p.seen /\ q.author = p.author /\ q.user = p.user
      BY <1>2, OnDevicesRecord
    <3> HIDE DEF q
    <3>2. PushesOK(q)
      BY <1>1, <3>1, PushesSoFar DEF PushesOK
    <3> QED BY <1>1, <3>2, PushesSoFar DEF q
  <2> QED BY <1>1, <2>3, <2>4, <2>5, <2>6, DeviceStep
<1> QED BY <1>4, <1>5

\* One push more, for somebody or to a device there was none for yet.
LEMMA PushedOnce ==
  ASSUME NEW S, NEW pushed \in Seq(S), IsInjective(pushed), NEW x \in S,
         \A i \in DOMAIN pushed : pushed[i] # x
  PROVE  /\ Append(pushed, x) \in Seq(S) /\ IsInjective(Append(pushed, x))
         /\ \A i \in DOMAIN Append(pushed, x) :
              Append(pushed, x)[i] = x \/ (i \in DOMAIN pushed /\ Append(pushed, x)[i] = pushed[i])
<1> DEFINE new == Append(pushed, x)
<1>1. /\ new \in Seq(S)
      /\ \A i \in DOMAIN pushed : new[i] = pushed[i]
      /\ \A i \in DOMAIN new : i \notin DOMAIN pushed => i = Len(pushed) + 1 /\ new[i] = x
  OBVIOUS
<1> HIDE DEF new
<1>2. IsInjective(new)
  BY <1>1 DEF IsInjective
<1> QED BY <1>1, <1>2 DEF new

LEMMA SendPushStep ==
  ASSUME IInv, NEW g \in Notifiers, SendPush(g)
  PROVE  IInv'
<1> DEFINE p == notifying[g]
<1>1. /\ g \in DOMAIN notifying /\ p.step = "send"
      /\ UNCHANGED <<prefs, tokens, hub, tabs, nextEvent>>
  BY DEF SendPush, At
<1>2. p \in Notifying /\ TokensOK' /\ p.user # p.author
  BY <1>1, Goroutine, Known DEF TokensOK
<1>3. p.devices \in SUBSET Devices /\ p.pushing \in SUBSET Devices /\ {} \in SUBSET Devices
  BY <1>2, GoroutineType
<1>4. ASSUME NEW d \in p.pushing,
             notifying' = [notifying EXCEPT ![g].pushed = Append(@, <<p.user, d>>),
                                            ![g].pushing = {}, ![g].step = "badge"]
      PROVE  IInv'
  <2> DEFINE x == <<p.user, d>>
             pushed == Append(p.pushed, x)
  <2>1. [p EXCEPT !.pushed = pushed, !.pushing = {}, !.step = "badge"] =
        OnDevices(p, "badge", p.devices, {}, pushed)
    BY <1>2 DEF Notifying, OnDevices
  <2>2. notifying' = [notifying EXCEPT ![g] = OnDevices(p, "badge", p.devices, {}, pushed)]
    BY <1>4, <2>1
  <2>3. /\ p.pushed \in Seq(Users \X Devices) /\ IsInjective(p.pushed)
        /\ \A i \in DOMAIN p.pushed : p.pushed[i][1] \in p.seen /\ p.pushed[i][1] # p.author
        /\ p.user \in p.seen /\ p.devices \cap p.pushing = {}
        /\ \A i \in DOMAIN p.pushed :
             p.pushed[i][1] = p.user => p.pushed[i][2] \notin p.devices \cup p.pushing
    BY <1>1, PushesSoFar
  <2>4. x \in Users \X Devices /\ x[1] = p.user /\ x[2] = d /\ d \notin p.devices
    <3>1. p.user \in Users
      BY <1>2, <2>3, GoroutineType
    <3> QED BY <1>3, <1>4, <2>3, <3>1
  <2>5. \A i \in DOMAIN p.pushed : p.pushed[i] # x
    BY <1>4, <2>3, <2>4
  <2> HIDE DEF x, p
  <2>6. /\ pushed \in Seq(Users \X Devices) /\ IsInjective(pushed)
        /\ \A i \in DOMAIN pushed :
             pushed[i] = x \/ (i \in DOMAIN p.pushed /\ pushed[i] = p.pushed[i])
    BY <2>3, <2>4, <2>5, PushedOnce
  <2> HIDE DEF pushed
  <2>7. /\ \A i \in DOMAIN pushed : pushed[i][1] \in p.seen /\ pushed[i][1] # p.author
        /\ \A i \in DOMAIN pushed : pushed[i][1] = p.user => pushed[i][2] \notin p.devices \cup {}
    BY <1>2, <2>3, <2>4, <2>6
  <2>8. "badge" \in Steps \ {"publish", "tokens"}
    BY DEF Steps
  <2>9. PushesOK(OnDevices(p, "badge", p.devices, {}, pushed))
    <3> DEFINE q == OnDevices(p, "badge", p.devices, {}, pushed)
    <3>1. /\ q.step = "badge" /\ q.devices = p.devices /\ q.pushing = {} /\ q.pushed = pushed
          /\ q.seen = p.seen /\ q.author = p.author /\ q.user = p.user
      BY <1>2, OnDevicesRecord
    <3> HIDE DEF q
    <3>2. PushesOK(q)
      BY <2>3, <2>6, <2>7, <3>1 DEF PushesOK
    <3> QED BY <3>2 DEF q
  <2> QED BY <1>1, <1>2, <1>3, <2>2, <2>6, <2>8, <2>9, DeviceStep DEF p
<1>5. CASE Advance(g, "remove")
  <2>1. [p EXCEPT !.step = "remove"] =
        OnDevices(p, "remove", p.devices, p.pushing, p.pushed)
    BY <1>2 DEF Notifying, OnDevices
  <2>2. notifying' = [notifying EXCEPT
                        ![g] = OnDevices(p, "remove", p.devices, p.pushing, p.pushed)]
    BY <1>5, <2>1 DEF Advance
  <2>3. "remove" \in Steps \ {"publish", "tokens"}
    BY DEF Steps
  <2>4. /\ p.pushed \in Seq(Users \X Devices)
        /\ PushesOK(OnDevices(p, "remove", p.devices, p.pushing, p.pushed))
    <3> DEFINE q == OnDevices(p, "remove", p.devices, p.pushing, p.pushed)
    <3>1. /\ q.step = "remove" /\ q.devices = p.devices /\ q.pushing = p.pushing
          /\ q.pushed = p.pushed /\ q.seen = p.seen /\ q.author = p.author /\ q.user = p.user
      BY <1>2, OnDevicesRecord
    <3> HIDE DEF q
    <3>2. PushesOK(q)
      BY <1>1, <3>1, PushesSoFar DEF PushesOK
    <3> QED BY <1>1, <3>2, PushesSoFar DEF q
  <2> QED BY <1>1, <1>2, <1>3, <2>2, <2>3, <2>4, DeviceStep
<1> QED BY <1>4, <1>5 DEF SendPush

LEMMA RemoveTokenStep ==
  ASSUME IInv, NEW g \in Notifiers, RemoveToken(g)
  PROVE  IInv'
<1> DEFINE p == notifying[g]
<1>1. /\ g \in DOMAIN notifying /\ p.step = "remove"
      /\ tokens' = Without(tokens, p.pushing) /\ UNCHANGED <<prefs, hub, tabs, nextEvent>>
  BY DEF RemoveToken, At
<1>2. p \in Notifying /\ TokensOK
  BY <1>1, Goroutine, Known
<1>3. TokensOK'
  <2>1. DOMAIN tokens' = DOMAIN tokens \ p.pushing
    BY <1>1, WithoutRows
  <2>2. tokens' \in [DOMAIN tokens \ p.pushing -> [user: Users, badge: BOOLEAN]]
    BY <1>1, <1>2, WithoutType DEF TokensOK
  <2> QED BY <1>2, <2>1, <2>2 DEF TokensOK
<1>4. [p EXCEPT !.pushing = {}, !.step = "badge"] =
      OnDevices(p, "badge", p.devices, {}, p.pushed)
  BY <1>2 DEF Notifying, OnDevices
<1>5. notifying' = [notifying EXCEPT ![g] = OnDevices(p, "badge", p.devices, {}, p.pushed)]
  BY <1>4 DEF RemoveToken
<1>6. /\ p.devices \in SUBSET Devices /\ {} \in SUBSET Devices
      /\ "badge" \in Steps \ {"publish", "tokens"}
  BY <1>2, GoroutineType DEF Steps
<1>7. p.pushed \in Seq(Users \X Devices) /\ PushesOK(OnDevices(p, "badge", p.devices, {}, p.pushed))
  <2> DEFINE q == OnDevices(p, "badge", p.devices, {}, p.pushed)
  <2>1. /\ q.step = "badge" /\ q.devices = p.devices /\ q.pushing = {} /\ q.pushed = p.pushed
        /\ q.seen = p.seen /\ q.author = p.author /\ q.user = p.user
    BY <1>2, OnDevicesRecord
  <2> HIDE DEF q
  <2>2. PushesOK(q)
    BY <1>1, <2>1, PushesSoFar DEF PushesOK
  <2> QED BY <1>1, <2>2, PushesSoFar DEF q
<1> QED BY <1>1, <1>3, <1>5, <1>6, <1>7, DeviceStep

LEMMA NotifyEndStep ==
  ASSUME IInv, NEW g \in Notifiers, NotifyEnd(g)
  PROVE  IInv'
<1>1. /\ notifying' = Without(notifying, {g})
      /\ UNCHANGED <<prefs, tokens, hub, tabs, nextEvent>>
  BY DEF NotifyEnd
<1>2. /\ GoroutinesOK /\ ChannelsOK /\ OnlyTheReachedAreTold /\ NotifyingOK /\ TabsOK /\ HubOK
      /\ prefs \in [Users -> SUBSET Categories] /\ nextEvent \in 1..(MaxEvents + 1) /\ TokensOK
  BY Known
<1>3. /\ DOMAIN notifying' = DOMAIN notifying \ {g}
      /\ \A h \in DOMAIN notifying' : notifying'[h] = notifying[h]
  <2>1. /\ DOMAIN notifying' = DOMAIN notifying \ {g}
        /\ \A h \in DOMAIN notifying \ {g} : notifying'[h] = notifying[h]
    BY <1>1, WithoutRows
  <2> QED BY <2>1
<1>4. NotifyingOK'
  BY <1>1, <1>2, <1>3, WithoutType DEF NotifyingOK
<1>5. TabsOK' /\ HubOK' /\ TokensOK'
  BY <1>1, <1>2 DEF TabsOK, HubOK, TokensOK
<1>6. HubIsOpenTabs'
  BY <1>1, <1>2, <1>4, <1>5 DEF HubIsOpenTabs, TypeOK, TokensOK, NotifyingOK, TabsOK, HubOK, Tab
<1>7. GoroutinesOK'
  BY <1>1, <1>2, <1>3 DEF GoroutinesOK
<1>8. ChannelsOK'
  BY <1>1, <1>2 DEF ChannelsOK
<1>9. OnlyTheReachedAreTold'
  <2> SUFFICES ASSUME NEW h \in DOMAIN notifying', NEW t \in DOMAIN tabs,
                      \E i \in DOMAIN tabs[t].queue : tabs[t].queue[i].event = notifying'[h].event
      PROVE  Reached(h, tabs[t].user)'
    BY <1>1 DEF OnlyTheReachedAreTold
  <2>1. Reached(h, tabs[t].user)
    BY <1>2, <1>3 DEF OnlyTheReachedAreTold
  <2> QED BY <1>1, <1>3, <2>1 DEF Reached
<1> QED BY <1>6, <1>7, <1>8, <1>9 DEF IInv

LEMMA Appended ==
  ASSUME NEW queue \in Seq(Message), NEW m \in Message
  PROVE  /\ Append(queue, m) \in Seq(Message)
         /\ Len(queue) \in Nat /\ Len(Append(queue, m)) = Len(queue) + 1
         /\ \A i \in DOMAIN queue : Append(queue, m)[i] = queue[i]
         /\ \A i \in DOMAIN Append(queue, m) :
              i \notin DOMAIN queue => i = Len(queue) + 1 /\ Append(queue, m)[i] = m
OBVIOUS

\* Publishing fills channels that are open and do not hold the event yet.
LEMMA PublishStep ==
  ASSUME IInv, NEW g \in Notifiers, Publish(g)
  PROVE  IInv'
<1> DEFINE p == notifying[g]
           u == p.user
           m == EventOf(g)
           told == {t \in DOMAIN tabs : t \in ChannelsOf(u) /\ HasRoom(t)}
           next == IF PushIsSetUp THEN "tokens" ELSE "recipients"
           q == [p EXCEPT !.step = next]
<1>1. /\ g \in DOMAIN notifying /\ p.step = "publish" /\ UNCHANGED <<prefs, tokens, hub, nextEvent>>
  BY DEF Publish, At
<1>2. /\ GoroutinesOK /\ ChannelsOK /\ OnlyTheReachedAreTold /\ NotifyingOK /\ TabsOK /\ HubOK
      /\ prefs \in [Users -> SUBSET Categories] /\ nextEvent \in 1..(MaxEvents + 1) /\ TokensOK
  BY Known
<1>3. /\ p \in Notifying /\ p.todo \in Seq(Users \ {p.author}) /\ u # p.author
      /\ u \in p.seen /\ p.event < nextEvent
  BY <1>1, Goroutine DEF PushesOK
<1>4. u \in Users /\ p.event \in Nat
  BY <1>3, GoroutineType
<1>5. m \in Message /\ m.event = p.event /\ m.author = p.author
  BY <1>3, GoroutineType DEF EventOf, Message
<1>6. \A t \in told : tabs[t].user = u /\ Len(tabs[t].queue) < EventBuffer
  BY <1>2 DEF HubOK, ChannelsOf, HasRoom
<1>7. /\ DOMAIN tabs' = DOMAIN tabs
      /\ \A t \in DOMAIN tabs \ told : tabs'[t] = tabs[t]
      /\ \A t \in told : tabs'[t] = [tabs[t] EXCEPT !.queue = Append(@, m)]
  BY DEF Publish
<1> HIDE DEF told, m
<1>8. \A t \in DOMAIN tabs : Tab(tabs[t])
  BY <1>2 DEF TabsOK
<1>9. \A t \in told :
         /\ tabs'[t].user = tabs[t].user /\ tabs'[t].queue = Append(tabs[t].queue, m)
         /\ tabs[t] \in [user: Users, queue: Seq(Message)] /\ t \in DOMAIN tabs
  <2> SUFFICES ASSUME NEW t \in told
      PROVE  /\ tabs'[t].user = tabs[t].user /\ tabs'[t].queue = Append(tabs[t].queue, m)
             /\ tabs[t] \in [user: Users, queue: Seq(Message)] /\ t \in DOMAIN tabs
    OBVIOUS
  <2>1. t \in DOMAIN tabs
    BY DEF told
  <2> QED BY <1>7, <1>8, <2>1 DEF Tab
<1>10. \A t \in DOMAIN tabs : tabs'[t].user = tabs[t].user
  BY <1>7, <1>9
<1>11. \A t \in told : Tab(tabs'[t])
  <2> SUFFICES ASSUME NEW t \in told PROVE Tab(tabs'[t])
    OBVIOUS
  <2>1. /\ tabs[t].queue \in Seq(Message) /\ tabs[t].user \in Users
        /\ Len(tabs[t].queue) < EventBuffer /\ tabs'[t] = [tabs[t] EXCEPT !.queue = Append(@, m)]
        /\ tabs[t] \in [user: Users, queue: Seq(Message)]
    BY <1>6, <1>7, <1>9
  <2>2. /\ Append(tabs[t].queue, m) \in Seq(Message) /\ Len(tabs[t].queue) \in Nat
        /\ Len(Append(tabs[t].queue, m)) = Len(tabs[t].queue) + 1
    BY <1>5, <2>1, Appended
  <2>3. tabs'[t] \in [user: Users, queue: Seq(Message)]
    BY <2>1, <2>2
  <2>4. Len(tabs'[t].queue) <= EventBuffer
    BY <1>9, <2>1, <2>2, NotifyAssumption
  <2> QED BY <2>3, <2>4 DEF Tab
<1>12. TabsOK' /\ HubOK' /\ TokensOK'
  <2>1. TabsOK'
    BY <1>2, <1>7, <1>8, <1>11 DEF TabsOK
  <2>2. HubOK'
    BY <1>1, <1>2, <1>7, <1>10 DEF HubOK
  <2> QED BY <1>1, <1>2, <2>1, <2>2 DEF TokensOK
<1>13. /\ q \in Notifying /\ q.step = next /\ q.event = p.event /\ q.author = p.author
       /\ q.todo = p.todo /\ q.seen = p.seen /\ q.user = u
       /\ q.pushing = p.pushing /\ q.pushed = p.pushed
  BY <1>3 DEF Notifying
<1>14. notifying' = [notifying EXCEPT ![g] = q] /\ next \in {"tokens", "recipients"}
  BY DEF Publish, Advance
<1> HIDE DEF q, next
<1>15. NotifyingOK' /\ GoroutinesOK'
  <2>1. PushesOK(p)
    BY <1>1, Goroutine
  <2>2. PushesOK(q)
    BY <1>1, <1>3, <1>13, <1>14, <2>1 DEF PushesOK
  <2> QED BY <1>1, <1>2, <1>3, <1>13, <1>14, <2>2, GoroutineGoesOn
<1>16. HubIsOpenTabs'
  BY <1>1, <1>2, <1>12, <1>15 DEF HubIsOpenTabs, TypeOK, TokensOK, NotifyingOK, TabsOK, HubOK, Tab
\* What a channel holds now: what it held, and in those told the event once.
<1>17. \A t \in told : \A i \in DOMAIN tabs[t].queue : tabs[t].queue[i].event # p.event
  BY <1>1, <1>2, <1>6, <1>9 DEF OnlyTheReachedAreTold, Reached
<1>18. \A t \in DOMAIN tabs : \A i \in DOMAIN tabs'[t].queue :
         \/ i \in DOMAIN tabs[t].queue /\ tabs'[t].queue[i] = tabs[t].queue[i]
         \/ t \in told /\ i = Len(tabs[t].queue) + 1 /\ tabs'[t].queue[i] = m
  <2> SUFFICES ASSUME NEW t \in told, NEW i \in DOMAIN tabs'[t].queue
      PROVE  \/ i \in DOMAIN tabs[t].queue /\ tabs'[t].queue[i] = tabs[t].queue[i]
             \/ i = Len(tabs[t].queue) + 1 /\ tabs'[t].queue[i] = m
    BY <1>7
  <2>1. tabs[t].queue \in Seq(Message) /\ tabs'[t].queue = Append(tabs[t].queue, m)
    BY <1>9
  <2> QED BY <1>5, <2>1, Appended
<1>19. ChannelsOK'
  <2> SUFFICES ASSUME NEW t \in DOMAIN tabs
      PROVE  /\ \A i \in DOMAIN tabs'[t].queue :
                  tabs'[t].queue[i].event < nextEvent /\ tabs'[t].queue[i].author # tabs[t].user
             /\ \A i, j \in DOMAIN tabs'[t].queue :
                  tabs'[t].queue[i].event = tabs'[t].queue[j].event => i = j
    BY <1>1, <1>7, <1>10 DEF ChannelsOK
  <2>1. \A i \in DOMAIN tabs'[t].queue :
          tabs'[t].queue[i].event < nextEvent /\ tabs'[t].queue[i].author # tabs[t].user
    BY <1>2, <1>3, <1>5, <1>6, <1>18 DEF ChannelsOK
  <2>2. \A i, j \in DOMAIN tabs'[t].queue :
          tabs'[t].queue[i].event = tabs'[t].queue[j].event => i = j
    BY <1>2, <1>5, <1>17, <1>18 DEF ChannelsOK
  <2> QED BY <2>1, <2>2
<1>20. OnlyTheReachedAreTold'
  <2> SUFFICES ASSUME NEW h \in DOMAIN notifying, NEW t \in DOMAIN tabs,
                      NEW i \in DOMAIN tabs'[t].queue,
                      tabs'[t].queue[i].event = notifying'[h].event
      PROVE  Reached(h, tabs[t].user)'
    BY <1>7, <1>10, <1>14 DEF OnlyTheReachedAreTold
  <2>1. /\ notifying'[h].event = notifying[h].event /\ tabs'[t].user = tabs[t].user
        /\ notifying'[h].seen = notifying[h].seen /\ notifying'[g] = q
        /\ h # g => notifying'[h] = notifying[h]
    BY <1>1, <1>2, <1>10, <1>13, <1>14 DEF NotifyingOK
  <2>2. CASE i \in DOMAIN tabs[t].queue /\ tabs'[t].queue[i] = tabs[t].queue[i]
    <3>1. Reached(h, tabs[t].user)
      BY <1>2, <2>1, <2>2 DEF OnlyTheReachedAreTold
    <3>2. CASE h = g
      BY <1>13, <1>14, <2>1, <3>1, <3>2 DEF Reached
    <3>3. CASE h # g
      BY <2>1, <3>1, <3>3 DEF Reached
    <3> QED BY <3>2, <3>3
  <2>3. CASE t \in told /\ tabs'[t].queue[i] = m
    <3>1. h = g
      BY <1>1, <1>2, <1>5, <2>1, <2>3 DEF GoroutinesOK
    <3>2. tabs[t].user = u
      BY <1>6, <2>3
    <3> QED BY <1>3, <1>13, <1>14, <2>1, <3>1, <3>2 DEF Reached
  <2> QED BY <1>18, <2>2, <2>3
<1> QED BY <1>15, <1>16, <1>19, <1>20 DEF IInv

-----------------------------------------------------------------------------
(* Requests about devices and preferences, and a restart.                  *)

\* A step that is about neither goroutines nor tabs.
LEMMA SettingsStep ==
  ASSUME IInv, UNCHANGED <<hub, tabs, notifying, nextEvent>>,
         prefs' \in [Users -> SUBSET Categories], TokensOK'
  PROVE  IInv'
<1>1. /\ GoroutinesOK /\ ChannelsOK /\ OnlyTheReachedAreTold /\ NotifyingOK /\ TabsOK /\ HubOK
      /\ nextEvent \in 1..(MaxEvents + 1)
  BY Known
<1>2. NotifyingOK' /\ TabsOK' /\ HubOK'
  BY <1>1 DEF NotifyingOK, TabsOK, HubOK
<1>3. HubIsOpenTabs'
  BY <1>1, <1>2 DEF HubIsOpenTabs, TypeOK, TokensOK, NotifyingOK, TabsOK, HubOK, Tab
<1>4. GoroutinesOK' /\ ChannelsOK' /\ OnlyTheReachedAreTold'
  BY <1>1 DEF GoroutinesOK, ChannelsOK, OnlyTheReachedAreTold, Reached
<1> QED BY <1>3, <1>4 DEF IInv

LEMMA SettingsSteps ==
  ASSUME IInv, Register \/ Unregister \/ ResetBadge \/ SetPrefs
  PROVE  IInv'
<1>1. /\ UNCHANGED <<hub, tabs, notifying, nextEvent>>
      /\ TokensOK /\ prefs \in [Users -> SUBSET Categories]
  BY Known DEF Register, Unregister, ResetBadge, SetPrefs
<1>2. CASE Register
  <2>1. PICK w \in Users, d \in Devices :
          tokens' = IF d \in DOMAIN tokens THEN [tokens EXCEPT ![d].user = w]
                    ELSE Put(tokens, d, [user |-> w, badge |-> FALSE])
    BY <1>2 DEF Register
  <2>2. TokensOK'
    <3>1. CASE d \in DOMAIN tokens
      BY <1>1, <2>1, <3>1 DEF TokensOK
    <3>2. CASE d \notin DOMAIN tokens
      <4> DEFINE row == [user |-> w, badge |-> FALSE]
      <4>1. row \in [user: Users, badge: BOOLEAN]
        OBVIOUS
      <4>2. tokens' = Put(tokens, d, row)
        BY <2>1, <3>2
      <4> HIDE DEF row
      <4>3. DOMAIN tokens' = DOMAIN tokens \cup {d}
        BY <4>2 DEF Put
      <4> QED BY <1>1, <4>1, <4>2, <4>3, PutType DEF TokensOK
    <3> QED BY <3>1, <3>2
  <2> QED BY <1>1, <1>2, <2>2, SettingsStep DEF Register
<1>3. CASE Unregister
  <2>1. PICK d \in DOMAIN tokens : tokens' = Without(tokens, {d})
    BY <1>3 DEF Unregister
  <2>2. DOMAIN tokens' = DOMAIN tokens \ {d}
    BY <2>1, WithoutRows
  <2>3. tokens' \in [DOMAIN tokens \ {d} -> [user: Users, badge: BOOLEAN]]
    BY <1>1, <2>1, WithoutType DEF TokensOK
  <2>4. TokensOK'
    BY <1>1, <2>2, <2>3 DEF TokensOK
  <2> QED BY <1>1, <1>3, <2>4, SettingsStep DEF Unregister
<1>4. CASE ResetBadge
  <2>1. TokensOK'
    BY <1>1, <1>4 DEF ResetBadge, TokensOK
  <2> QED BY <1>1, <1>4, <2>1, SettingsStep DEF ResetBadge
<1>5. CASE SetPrefs
  <2>1. TokensOK' /\ prefs' \in [Users -> SUBSET Categories]
    BY <1>1, <1>5 DEF SetPrefs, TokensOK
  <2> QED BY <1>1, <2>1, SettingsStep
<1> QED BY <1>2, <1>3, <1>4, <1>5

LEMMA RestartStep ==
  ASSUME IInv, Restart
  PROVE  IInv'
<1>1. TokensOK /\ prefs \in [Users -> SUBSET Categories] /\ nextEvent \in 1..(MaxEvents + 1)
  BY Known
<1>2. HubIsOpenTabs'
  BY <1>1 DEF Restart, NoRows, HubIsOpenTabs, TypeOK, TokensOK
<1> QED
  BY <1>2 DEF IInv, Restart, NoRows, GoroutinesOK, ChannelsOK, OnlyTheReachedAreTold

-----------------------------------------------------------------------------
(* The stream of a tab.                                                    *)

\* A step of a stream keeps the goroutines' part of the invariant.
LEMMA StreamStep ==
  ASSUME IInv, UNCHANGED <<prefs, tokens, notifying, nextEvent>>, TabsOK', HubOK',
         ChannelsOK', OnlyTheReachedAreTold'
  PROVE  IInv'
<1>1. /\ GoroutinesOK /\ NotifyingOK /\ TokensOK
      /\ prefs \in [Users -> SUBSET Categories] /\ nextEvent \in 1..(MaxEvents + 1)
  BY Known
<1>2. NotifyingOK' /\ TokensOK' /\ GoroutinesOK'
  BY <1>1 DEF NotifyingOK, TokensOK, GoroutinesOK
<1>3. HubIsOpenTabs'
  BY <1>1, <1>2 DEF HubIsOpenTabs, TypeOK, TokensOK, NotifyingOK, TabsOK, HubOK, Tab
<1> QED BY <1>2, <1>3 DEF IInv

LEMMA ReceiveStep ==
  ASSUME IInv, NEW t \in Tabs, Receive(t)
  PROVE  IInv'
<1> DEFINE queue == tabs[t].queue
           n == Len(queue)
<1>1. /\ GoroutinesOK /\ ChannelsOK /\ OnlyTheReachedAreTold /\ NotifyingOK /\ TabsOK /\ HubOK
  BY Known
<1>2. /\ t \in DOMAIN tabs /\ queue # <<>> /\ UNCHANGED <<prefs, tokens, hub, notifying, nextEvent>>
      /\ tabs' = [tabs EXCEPT ![t] = [tabs[t] EXCEPT !.queue = Tail(queue)]]
  BY DEF Receive
<1>3. tabs[t] \in [user: Users, queue: Seq(Message)] /\ queue \in Seq(Message) /\ n <= EventBuffer
  BY <1>1, <1>2 DEF TabsOK, Tab
<1>4. /\ Tail(queue) \in Seq(Message) /\ n \in Nat /\ Len(Tail(queue)) = n - 1
      /\ DOMAIN Tail(queue) = 1..(n - 1)
      /\ \A i \in 1..(n - 1) : i + 1 \in DOMAIN queue /\ Tail(queue)[i] = queue[i + 1]
  BY <1>2, <1>3, TailMembers
<1>5. /\ DOMAIN tabs' = DOMAIN tabs /\ tabs'[t].user = tabs[t].user /\ tabs'[t].queue = Tail(queue)
      /\ \A r \in DOMAIN tabs \ {t} : tabs'[r] = tabs[r]
      /\ tabs'[t] \in [user: Users, queue: Seq(Message)]
  BY <1>2, <1>3, <1>4
<1>6. Tab(tabs'[t])
  BY <1>3, <1>4, <1>5, NotifyAssumption DEF Tab
<1>7. TabsOK'
  BY <1>1, <1>5, <1>6 DEF TabsOK
<1>8. \A r \in DOMAIN tabs : tabs'[r].user = tabs[r].user
  BY <1>5
<1>9. HubOK'
  BY <1>1, <1>2, <1>5, <1>8 DEF HubOK
<1>10. ChannelsOK'
  <2>1. /\ \A i \in DOMAIN queue : queue[i].event < nextEvent /\ queue[i].author # tabs[t].user
        /\ \A i, j \in DOMAIN queue : queue[i].event = queue[j].event => i = j
    BY <1>1, <1>2 DEF ChannelsOK
  <2> HIDE DEF queue, n
  <2>2. \A i \in DOMAIN Tail(queue) :
          Tail(queue)[i].event < nextEvent /\ Tail(queue)[i].author # tabs[t].user
    BY <1>4, <2>1
  <2>3. \A i, j \in DOMAIN Tail(queue) : Tail(queue)[i].event = Tail(queue)[j].event => i = j
    <3> SUFFICES ASSUME NEW i \in 1..(n - 1), NEW j \in 1..(n - 1),
                        queue[i + 1].event = queue[j + 1].event
        PROVE  i = j
      BY <1>4
    <3>1. i + 1 = j + 1
      BY <1>4, <2>1
    <3> QED BY <1>4, <3>1
  <2>4. \A r \in DOMAIN tabs \ {t} :
          /\ \A i \in DOMAIN tabs'[r].queue :
               tabs'[r].queue[i].event < nextEvent /\ tabs'[r].queue[i].author # tabs'[r].user
          /\ \A i, j \in DOMAIN tabs'[r].queue :
               tabs'[r].queue[i].event = tabs'[r].queue[j].event => i = j
    BY <1>1, <1>5 DEF ChannelsOK
  <2> QED BY <1>2, <1>5, <2>2, <2>3, <2>4 DEF ChannelsOK
<1>11. OnlyTheReachedAreTold'
  <2> SUFFICES ASSUME NEW g \in DOMAIN notifying, NEW r \in DOMAIN tabs,
                      NEW i \in DOMAIN tabs'[r].queue,
                      tabs'[r].queue[i].event = notifying[g].event
      PROVE  Reached(g, tabs[r].user)
    BY <1>2, <1>5, <1>8 DEF OnlyTheReachedAreTold, Reached
  <2>1. CASE r = t
    <3>1. i + 1 \in DOMAIN queue /\ queue[i + 1].event = notifying[g].event
      BY <1>4, <1>5, <2>1
    <3> QED BY <1>1, <2>1, <3>1 DEF OnlyTheReachedAreTold
  <2>2. CASE r # t
    BY <1>1, <1>5, <2>2 DEF OnlyTheReachedAreTold
  <2> QED BY <2>1, <2>2
<1> QED BY <1>2, <1>7, <1>9, <1>10, <1>11, StreamStep

LEMMA SubscribeStep ==
  ASSUME IInv, NEW t \in Tabs, Subscribe(t)
  PROVE  IInv'
<1>1. /\ GoroutinesOK /\ ChannelsOK /\ OnlyTheReachedAreTold /\ NotifyingOK /\ TabsOK /\ HubOK
  BY Known
<1>2. PICK u \in Users :
        /\ hub' = Put(hub, u, Append(IF u \in DOMAIN hub THEN hub[u] ELSE <<>>, t))
        /\ tabs' = Put(tabs, t, [user |-> u, queue |-> <<>>])
  BY DEF Subscribe
<1>3. t \notin DOMAIN tabs /\ UNCHANGED <<prefs, tokens, notifying, nextEvent>>
  BY DEF Subscribe
<1> DEFINE old == IF u \in DOMAIN hub THEN hub[u] ELSE <<>>
           tab == [user |-> u, queue |-> <<>>]
           mine == {r \in DOMAIN tabs : tabs[r].user = u}
<1>4. old \in Seq(Tabs) /\ IsInjective(old) /\ ToSet(old) = mine
  <2>1. CASE u \in DOMAIN hub
    BY <1>1, <2>1 DEF HubOK
  <2>2. CASE u \notin DOMAIN hub
    <3>1. old = <<>> /\ mine = {}
      BY <1>1, <2>2 DEF HubOK
    <3>2. <<>> \in Seq(Tabs) /\ IsInjective(<<>>) /\ ToSet(<<>>) = {}
      BY DEF IsInjective, ToSet
    <3> QED BY <3>1, <3>2
  <2> QED BY <2>1, <2>2
<1>5. tab \in [user: Users, queue: Seq(Message)] /\ tab.user = u /\ tab.queue = <<>> /\ Tab(tab)
  <2>1. <<>> \in Seq(Message) /\ Len(<<>>) = 0
    OBVIOUS
  <2> QED BY <2>1, NotifyAssumption DEF Tab
<1> HIDE DEF old, tab
<1> DEFINE new == Append(old, t)
<1>6. /\ new \in Seq(Tabs) /\ new # <<>> /\ ToSet(new) = mine \cup {t}
  BY <1>4, AppendMembers
<1>7. IsInjective(new)
  <2>1. /\ \A i \in DOMAIN old : new[i] = old[i] /\ old[i] # t
        /\ \A i \in DOMAIN new : i \notin DOMAIN old => i = Len(old) + 1 /\ new[i] = t
    BY <1>3, <1>4 DEF ToSet
  <2> HIDE DEF new
  <2> QED BY <1>4, <2>1 DEF IsInjective
<1>8. hub' = Put(hub, u, new) /\ tabs' = Put(tabs, t, tab)
  BY <1>2 DEF old, tab
<1> HIDE DEF new
<1>9. /\ DOMAIN hub' = DOMAIN hub \cup {u} /\ hub'[u] = new
      /\ \A v \in DOMAIN hub \ {u} : hub'[v] = hub[v]
  BY <1>8 DEF Put
<1>10. /\ DOMAIN tabs' = DOMAIN tabs \cup {t} /\ tabs'[t] = tab
       /\ \A r \in DOMAIN tabs : tabs'[r] = tabs[r]
  BY <1>3, <1>8 DEF Put
<1>11. TabsOK'
  BY <1>1, <1>5, <1>10 DEF TabsOK
<1>12. HubOK'
  <2>1. \A v \in DOMAIN hub' : hub'[v] \in Seq(Tabs) /\ hub'[v] # <<>> /\ IsInjective(hub'[v])
    BY <1>1, <1>6, <1>7, <1>9 DEF HubOK
  <2>2. \A v \in DOMAIN hub' : ToSet(hub'[v]) = {r \in DOMAIN tabs' : tabs'[r].user = v}
    <3>1. ToSet(hub'[u]) = {r \in DOMAIN tabs' : tabs'[r].user = u}
      BY <1>3, <1>5, <1>6, <1>9, <1>10
    <3>2. \A v \in DOMAIN hub \ {u} : ToSet(hub'[v]) = {r \in DOMAIN tabs' : tabs'[r].user = v}
      BY <1>1, <1>3, <1>5, <1>9, <1>10 DEF HubOK
    <3> QED BY <1>9, <3>1, <3>2
  <2>3. \A r \in DOMAIN tabs' : tabs'[r].user \in DOMAIN hub'
    BY <1>1, <1>5, <1>9, <1>10 DEF HubOK
  <2>4. DOMAIN hub' \subseteq Users
    BY <1>1, <1>9 DEF HubOK
  <2> QED BY <2>1, <2>2, <2>3, <2>4 DEF HubOK
<1>13. DOMAIN tabs'[t].queue = {}
  BY <1>5, <1>10
<1>14. ChannelsOK'
  BY <1>1, <1>3, <1>10, <1>13 DEF ChannelsOK
<1>15. OnlyTheReachedAreTold'
  BY <1>1, <1>3, <1>10, <1>13 DEF OnlyTheReachedAreTold, Reached
<1> QED BY <1>3, <1>11, <1>12, <1>14, <1>15, StreamStep

LEMMA UnsubscribeStep ==
  ASSUME IInv, NEW t \in Tabs, Unsubscribe(t)
  PROVE  IInv'
<1> DEFINE u == tabs[t].user
           rest == RemoveFirst(hub[u], t)
<1>1. /\ GoroutinesOK /\ ChannelsOK /\ OnlyTheReachedAreTold /\ NotifyingOK /\ TabsOK /\ HubOK
  BY Known
<1>2. /\ t \in DOMAIN tabs /\ UNCHANGED <<prefs, tokens, notifying, nextEvent>>
      /\ hub' = IF rest = <<>> THEN Without(hub, {u}) ELSE [hub EXCEPT ![u] = rest]
      /\ tabs' = Without(tabs, {t})
  BY DEF Unsubscribe, Unsubscribed
<1>3. /\ u \in DOMAIN hub /\ hub[u] \in Seq(Tabs) /\ IsInjective(hub[u]) /\ t \in ToSet(hub[u])
      /\ ToSet(hub[u]) = {r \in DOMAIN tabs : tabs[r].user = u}
  BY <1>1, <1>2 DEF HubOK
<1>4. rest \in Seq(Tabs) /\ IsInjective(rest) /\ ToSet(rest) = ToSet(hub[u]) \ {t}
  BY <1>3, RemoveFirstMembers
<1> HIDE DEF rest
<1>5. /\ DOMAIN tabs' = DOMAIN tabs \ {t} /\ \A r \in DOMAIN tabs \ {t} : tabs'[r] = tabs[r]
  BY <1>2, WithoutRows
<1>6. TabsOK'
  BY <1>1, <1>5 DEF TabsOK
<1>7. \A v \in DOMAIN hub \ {u} : t \notin {r \in DOMAIN tabs : tabs[r].user = v}
  OBVIOUS
<1>8. HubOK'
  <2>1. CASE rest = <<>>
    <3>1. /\ DOMAIN hub' = DOMAIN hub \ {u} /\ \A v \in DOMAIN hub \ {u} : hub'[v] = hub[v]
      BY <1>2, <2>1, WithoutRows
    <3>2. ToSet(rest) = {}
      BY <2>1 DEF ToSet
    <3>3. \A r \in DOMAIN tabs' : tabs'[r].user \in DOMAIN hub'
      BY <1>1, <1>3, <1>4, <1>5, <3>1, <3>2 DEF HubOK
    <3>4. \A v \in DOMAIN hub' : ToSet(hub'[v]) = {r \in DOMAIN tabs' : tabs'[r].user = v}
      BY <1>1, <1>5, <1>7, <3>1 DEF HubOK
    <3> QED BY <1>1, <3>1, <3>3, <3>4 DEF HubOK
  <2>2. CASE rest # <<>>
    <3>1. /\ DOMAIN hub' = DOMAIN hub /\ hub'[u] = rest
          /\ \A v \in DOMAIN hub \ {u} : hub'[v] = hub[v]
      BY <1>2, <1>3, <2>2
    <3>2. \A r \in DOMAIN tabs' : tabs'[r].user \in DOMAIN hub'
      BY <1>1, <1>5, <3>1 DEF HubOK
    <3>3. \A v \in DOMAIN hub \ {u} : ToSet(hub'[v]) = {r \in DOMAIN tabs' : tabs'[r].user = v}
      BY <1>1, <1>5, <1>7, <3>1 DEF HubOK
    <3>4. ToSet(hub'[u]) = {r \in DOMAIN tabs' : tabs'[r].user = u}
      BY <1>3, <1>4, <1>5, <3>1
    <3> QED BY <1>1, <1>4, <2>2, <3>1, <3>2, <3>3, <3>4 DEF HubOK
  <2> QED BY <2>1, <2>2
<1>9. ChannelsOK' /\ OnlyTheReachedAreTold'
  <2>0. nextEvent' = nextEvent /\ notifying' = notifying
    BY <1>2
  <2>1. \A r \in DOMAIN tabs' : r \in DOMAIN tabs /\ tabs'[r] = tabs[r]
    BY <1>5
  <2>2. ChannelsOK'
    <3> SUFFICES ASSUME NEW r \in DOMAIN tabs'
        PROVE  /\ \A i \in DOMAIN tabs[r].queue :
                    tabs[r].queue[i].event < nextEvent /\ tabs[r].queue[i].author # tabs[r].user
               /\ \A i, j \in DOMAIN tabs[r].queue :
                    tabs[r].queue[i].event = tabs[r].queue[j].event => i = j
      BY <2>0, <2>1 DEF ChannelsOK
    <3> QED BY <1>1, <2>1 DEF ChannelsOK
  <2>3. OnlyTheReachedAreTold'
    <3> SUFFICES ASSUME NEW g \in DOMAIN notifying, NEW r \in DOMAIN tabs',
                        \E i \in DOMAIN tabs[r].queue : tabs[r].queue[i].event = notifying[g].event
        PROVE  Reached(g, tabs[r].user)
      BY <2>0, <2>1 DEF OnlyTheReachedAreTold, Reached
    <3> QED BY <1>1, <2>1 DEF OnlyTheReachedAreTold
  <2> QED BY <2>2, <2>3
<1> QED BY <1>2, <1>6, <1>8, <1>9, StreamStep

-----------------------------------------------------------------------------
(* The theorems.                                                           *)

LEMMA NextIInv == IInv /\ [Next]_vars => IInv'
<1> SUFFICES ASSUME IInv, [Next]_vars PROVE IInv'
  OBVIOUS
<1>1. CASE UNCHANGED vars
  <2>1. TokensOK' /\ prefs' \in [Users -> SUBSET Categories]
    BY <1>1, Known DEF TokensOK, vars
  <2> QED BY <1>1, <2>1, SettingsStep DEF vars
<1>2. ASSUME NEW g \in Notifiers, Trigger(g) \/ NotifierStep(g) PROVE IInv'
  BY <1>2, TriggerStep, NotifyEndStep, NextRecipientStep, PublishStep, LoadTokensStep,
     RaiseBadgeStep, SendPushStep, RemoveTokenStep DEF NotifierStep
<1>3. ASSUME NEW t \in Tabs, Subscribe(t) \/ Receive(t) \/ Unsubscribe(t) PROVE IInv'
  BY <1>3, SubscribeStep, ReceiveStep, UnsubscribeStep
<1>4. CASE Register \/ Unregister \/ ResetBadge \/ SetPrefs
  BY <1>4, SettingsSteps
<1>5. CASE Restart
  BY <1>5, RestartStep
<1> QED BY <1>1, <1>2, <1>3, <1>4, <1>5 DEF Next

LEMMA AlwaysIInv == Spec => []IInv
BY InitIInv, NextIInv, PTL DEF Spec

\* Every open tab is in the hub exactly once, under its user, and no closed one
\* is, so that hub.publish (webnotify.go) never sends on a closed channel.
THEOREM HubHoldsOpenTabs == Spec => []HubIsOpenTabs
<1>1. IInv => HubIsOpenTabs
  BY DEF IInv
<1> QED BY <1>1, AlwaysIInv, PTL

\* notify and notifyOne (notify.go) tell nobody twice of one event, be it in a
\* tab or by a push to one of his devices, and address neither to its author, in
\* whatever order goroutines, tabs and requests act.
THEOREM NobodyIsToldTwice == Spec => []ToldOnce
<1>1. IInv => ToldOnce
  BY DEF IInv, GoroutinesOK, PushesOK, ChannelsOK, ToldOnce
<1> QED BY <1>1, AlwaysIInv, PTL
=============================================================================
