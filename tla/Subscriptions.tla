--------------------------- MODULE Subscriptions ---------------------------
(***************************************************************************)
(* A user's sources and the lists they go to.  The feeds a user has are    *)
(* rows of the fetcher, the senders rows of the email service, the routes  *)
(* (which list a source's items go to) rows of the content service, and no *)
(* transaction spans two of them.  Every request of an app goes through a  *)
(* handler of the content service, which asks the other two over HTTP.     *)
(*                                                                         *)
(* A statement is one action, apart from the insert of a subscription,     *)
(* which others can overlap: its trigger counts committed rows when it     *)
(* begins, and what it inserts is visible when it has committed.           *)
(***************************************************************************)
EXTENDS Naturals, FiniteSets

CONSTANTS
  Users, Feeds, Senders,
  Lists, Reads,    \* the lists, and the one a source without route goes to
  Slots,           \* the requests in progress at a time
  None,            \* no user, source, list or reply
  MaxFeedsPerUser, \* 100, in the service and in the trigger
  PageSize,        \* the senders ListSendersInternal returns at most: 100
  MaxRequests,     \* bound: the requests there are
  MaxFaults        \* bound: the statements and calls that fail

Sources == Feeds \cup Senders

ASSUME SubscriptionsAssumption ==
  /\ Reads \in Lists /\ None \notin Users \cup Sources \cup Lists
  /\ Feeds \cap Senders = {}
  /\ IsFiniteSet(Users) /\ IsFiniteSet(Sources) /\ IsFiniteSet(Slots)
  /\ MaxFeedsPerUser \in Nat \ {0} /\ PageSize \in Nat \ {0}
  /\ MaxRequests \in Nat /\ MaxFaults \in Nat

VARIABLES
  feeds,      \* the URLs that have a row in feeds
  subs,       \* feed_subscriptions: <<user, feed>>
  senders,    \* email_senders: <<user, sender>>
  routes,     \* source_routes: the list of <<user, source>>, or None
  work,       \* what each request is doing
  asked, faults,
  overlapped, \* history: a user's inserts counted while another had not committed
  strayed,    \* history: <<user, feed>> unsubscribed in part, or while being routed
  steady      \* history: the sources no other request changed since this one began

subscriptionsVars ==
  <<feeds, subs, senders, routes, work, asked, faults, overlapped, strayed, steady>>
history == <<overlapped, strayed>>

Stages == {"idle", "count", "lookup", "check", "validate", "create", "insert",
           "commit", "resolve", "find", "delete", "unroute", "verify", "upsert",
           "rss", "email", "routes", "answered"}
Replies == {"created", "unsubscribed", "routed", "listed",
            "conflict", "bad request", "not found", "error"}

\* found is what a listing has collected: sources, later with their lists.
Idle == [at |-> "idle", user |-> None, source |-> None, list |-> None,
         found |-> {}, failed |-> {}, reply |-> None]

Goto(r, stage)    == work' = [work EXCEPT ![r].at = stage]
Answer(r, answer) == work' = [work EXCEPT ![r].at = "answered", ![r].reply = answer]
At(r, stage)      == work[r].at = stage
UserOf(r)         == work[r].user
SourceOf(r)       == work[r].source
Key(r)            == <<UserOf(r), SourceOf(r)>>

\* r changes something about its source, under the eyes of the others.
Disturb(r) ==
  steady' = [q \in Slots |-> IF q # r /\ UserOf(q) = UserOf(r)
                             THEN steady[q] \ {SourceOf(r)} ELSE steady[q]]

Fault == faults < MaxFaults /\ faults' = faults + 1

-----------------------------------------------------------------------------
(* The queries.                                                            *)

GetByUserID(u)         == {f \in Feeds : <<u, f>> \in subs}
CountByUserID(u)       == Cardinality(GetByUserID(u))
GetByUserAndFeed(u, f) == <<u, f>> \in subs
GetByURL(f)            == f \in feeds
SendersOf(u)           == {s \in Senders : <<u, s>> \in senders}

\* ListUserSubscriptions drops a subscription whose feed has no row.  It reads
\* the feeds one by one after the subscriptions; as no feed is ever deleted,
\* that is the same as reading all at once.
ListUserSubscriptions(u) == {f \in GetByUserID(u) : f \in feeds}

\* ListSendersInternal: the first page; which senders it holds is a matter of
\* when each has last written.
ListUserSenders(u) ==
  {page \in SUBSET SendersOf(u) :
     \/ page = SendersOf(u) /\ Cardinality(page) <= PageSize
     \/ page # SendersOf(u) /\ Cardinality(page) = PageSize}

ListByUser(u) == [s \in Sources |-> routes[<<u, s>>]]
ListOf(u, s)  == IF routes[<<u, s>>] = None THEN Reads ELSE routes[<<u, s>>]

-----------------------------------------------------------------------------
(* What a refusal of the fetcher becomes on its way to the app: the status *)
(* of its handler, and what the client of the content service makes of it. *)

SubscribeStatus ==
  [limit |-> 400, already |-> 409, invalid |-> 400, failed |-> 500]

SubscribeUserToFeed(status) ==
  CASE status = 409 -> "conflict" [] status = 400 -> "bad request" [] OTHER -> "error"

UnsubscribeStatus == [missing |-> 404, failed |-> 500]

UnsubscribeUserFromFeed(status) == IF status = 404 THEN "not found" ELSE "error"

Refuse(r, reason)  == Answer(r, SubscribeUserToFeed(SubscribeStatus[reason]))
Decline(r, reason) == Answer(r, UnsubscribeUserFromFeed(UnsubscribeStatus[reason]))

Begin(r, u, s, list, stage) ==
  /\ At(r, "idle") /\ asked < MaxRequests /\ asked' = asked + 1
  /\ work' = [work EXCEPT ![r] = [Idle EXCEPT !.at = stage, !.user = u,
                                              !.source = s, !.list = list]]
  /\ steady' = [steady EXCEPT ![r] = Sources]
  /\ UNCHANGED <<feeds, subs, senders, routes, faults, history>>

\* A step that reads, and goes on.
Look(r) ==
  UNCHANGED <<feeds, subs, senders, routes, asked, faults, history, steady>>

-----------------------------------------------------------------------------
(* Subscribing.                                                            *)

\* What the web serves at a URL is its own affair, and may change: a URL that
\* cannot be read is "unknown".
DetectURL(url) == {"feed", "page", "unknown"}

\* A URL handed in, with its type or without.  What is not a feed is saved as a
\* page (ContentStore!Begin), which takes no list.
Submit(r, u, f, list) ==
  \E type \in DetectURL(f) :
    \/ type = "feed" /\ Begin(r, u, f, list, "count")
    \/ /\ type # "feed" /\ list # None
       /\ At(r, "idle") /\ asked < MaxRequests /\ asked' = asked + 1
       /\ work' = [work EXCEPT ![r] = [Idle EXCEPT !.at = "answered", !.user = u,
                                         !.source = f, !.reply = "bad request"]]
       /\ steady' = [steady EXCEPT ![r] = Sources]
       /\ UNCHANGED <<feeds, subs, senders, routes, faults, history>>

Count(r) ==
  /\ At(r, "count")
  /\ IF CountByUserID(UserOf(r)) >= MaxFeedsPerUser THEN Refuse(r, "limit")
                                                  ELSE Goto(r, "lookup")
  /\ Look(r)

LookUp(r) ==
  /\ At(r, "lookup")
  /\ Goto(r, IF GetByURL(SourceOf(r)) THEN "check" ELSE "validate")
  /\ Look(r)

Check(r) ==
  /\ At(r, "check")
  /\ IF GetByUserAndFeed(UserOf(r), SourceOf(r)) THEN Refuse(r, "already")
                                             ELSE Goto(r, "insert")
  /\ Look(r)

\* The feed is fetched and parsed, or it is none.
ValidateAndExtractFeedMetadata(r) ==
  /\ At(r, "validate")
  /\ Refuse(r, "invalid") \/ Goto(r, "create")
  /\ Look(r)

\* URLs are unique: of two requests for a new feed one fails.
CreateFeed(r) ==
  /\ At(r, "create")
  /\ IF SourceOf(r) \in feeds THEN Refuse(r, "failed") /\ UNCHANGED feeds
                            ELSE Goto(r, "insert") /\ feeds' = feeds \cup {SourceOf(r)}
  /\ UNCHANGED <<subs, senders, routes, asked, faults, history, steady>>

\* The trigger, which sees what has committed.
Overlaps(r) == \E q \in Slots \ {r} : At(q, "commit") /\ UserOf(q) = UserOf(r)
CheckNoLimit(r) ==
  /\ At(r, "insert") /\ Goto(r, "commit")
  /\ overlapped' = IF Overlaps(r) THEN [overlapped EXCEPT ![UserOf(r)] = @ + 1]
                                  ELSE overlapped
  /\ UNCHANGED <<feeds, subs, senders, routes, asked, faults, strayed, steady>>

CheckFeedLimit(r) ==
  /\ At(r, "insert")
  /\ \/ /\ CountByUserID(UserOf(r)) >= MaxFeedsPerUser
        /\ Refuse(r, "limit") /\ UNCHANGED overlapped
     \/ /\ CountByUserID(UserOf(r)) < MaxFeedsPerUser
        /\ Goto(r, "commit")
        /\ overlapped' = IF Overlaps(r) THEN [overlapped EXCEPT ![UserOf(r)] = @ + 1]
                                        ELSE overlapped
  /\ UNCHANGED <<feeds, subs, senders, routes, asked, faults, strayed, steady>>

\* A user has a feed once: the second insert fails.
Commit(r) ==
  /\ At(r, "commit")
  /\ IF Key(r) \in subs THEN Refuse(r, "failed") /\ UNCHANGED <<subs, steady>>
                        ELSE Goto(r, "resolve") /\ Disturb(r) /\ subs' = subs \cup {Key(r)}
  /\ UNCHANGED <<feeds, senders, routes, asked, faults, history>>

\* resolveFeedList: a list that is given becomes the route, otherwise the answer
\* names the one that is there.
Upsert(key, list) == routes' = [routes EXCEPT ![key] = list]
ResolveFeedList(r) ==
  /\ At(r, "resolve")
  /\ \/ /\ work[r].list # None
        /\ Upsert(Key(r), work[r].list) /\ Disturb(r) /\ Answer(r, "created")
     \/ /\ work[r].list = None /\ UNCHANGED <<routes, steady>>
        /\ work' = [work EXCEPT ![r].at = "answered", ![r].reply = "created",
                                ![r].list = ListOf(UserOf(r), SourceOf(r))]
  /\ UNCHANGED <<feeds, subs, senders, asked, faults, history>>

-----------------------------------------------------------------------------
(* Unsubscribing: the fetcher's row goes first, then the route.            *)

Find(r) ==
  /\ At(r, "find")
  /\ IF GetByUserAndFeed(UserOf(r), SourceOf(r)) THEN Goto(r, "delete")
                                             ELSE Decline(r, "missing")
  /\ Look(r)

\* Requests that will write the route of r's source, whatever becomes of r.
Routing(r) ==
  {q \in Slots \ {r} : /\ UserOf(q) = UserOf(r) /\ SourceOf(q) = SourceOf(r)
                          /\ \/ At(q, "upsert")
                             \/ At(q, "resolve") /\ work[q].list # None}
DeleteByUserAndFeed(r) ==
  /\ subs' = subs \ {Key(r)}
  /\ Disturb(r)
Delete(r) ==
  /\ At(r, "delete")
  /\ \/ /\ Key(r) \in subs
        /\ DeleteByUserAndFeed(r) /\ Goto(r, "unroute")
        /\ strayed' = IF Routing(r) = {} THEN strayed ELSE strayed \cup {Key(r)}
     \/ /\ Key(r) \notin subs
        /\ Decline(r, "missing") /\ UNCHANGED <<subs, strayed, steady>>
  /\ UNCHANGED <<feeds, senders, routes, asked, faults, overlapped>>

KeepRoute(key)   == routes' = routes
DeleteRoute(key) == routes' = [routes EXCEPT ![key] = None]
Unroute(r) ==
  /\ At(r, "unroute")
  /\ DeleteRoute(Key(r)) /\ Disturb(r) /\ Answer(r, "unsubscribed")
  /\ strayed' = IF Routing(r) = {} THEN strayed \ {Key(r)} ELSE strayed
  /\ UNCHANGED <<feeds, subs, senders, asked, faults, overlapped>>

-----------------------------------------------------------------------------
(* Choosing a list, and listing.                                           *)

\* isSubscribed asks for the whole list, of which it gets one page.
IsSubscribed(u, s, page) == s \in IF s \in Feeds THEN ListUserSubscriptions(u) ELSE page
Verify(r) ==
  /\ At(r, "verify")
  /\ \E page \in ListUserSenders(UserOf(r)) :
       IF IsSubscribed(UserOf(r), SourceOf(r), page) THEN Goto(r, "upsert")
                                                 ELSE Answer(r, "not found")
  /\ Look(r)

SetSourceList(r) ==
  /\ At(r, "upsert")
  /\ Upsert(Key(r), work[r].list) /\ Disturb(r) /\ Answer(r, "routed")
  /\ UNCHANGED <<feeds, subs, senders, asked, faults, history>>

\* A source that cannot be asked is named in failed_sources, and left out.
SkipSilently(r, type, stage) == Goto(r, stage)
SkipSource(r, type, stage) ==
  work' = [work EXCEPT ![r].at = stage, ![r].failed = @ \cup {type}]
RSSUnanswered(r) == Fault /\ SkipSource(r, "rss", "email")
FetchRSSSubscriptions(r) ==
  /\ At(r, "rss")
  /\ \/ /\ work' = [work EXCEPT ![r].at = "email",
                                ![r].found = ListUserSubscriptions(UserOf(r))]
        /\ UNCHANGED faults
     \/ RSSUnanswered(r)
  /\ UNCHANGED <<feeds, subs, senders, routes, asked, history, steady>>

EmailUnanswered(r) == Fault /\ SkipSource(r, "email", "routes")
FetchEmailSubscriptions(r) ==
  /\ At(r, "email")
  /\ \/ /\ \E page \in ListUserSenders(UserOf(r)) :
             work' = [work EXCEPT ![r].at = "routes", ![r].found = @ \cup page]
        /\ UNCHANGED faults
     \/ EmailUnanswered(r)
  /\ UNCHANGED <<feeds, subs, senders, routes, asked, history, steady>>

\* Every source is stamped with its list.
Stamped(found, list) == {<<s, IF list[s] = None THEN Reads ELSE list[s]>> : s \in found}
ListAllSubscriptions(r) ==
  /\ At(r, "routes")
  /\ work' = [work EXCEPT ![r].at = "answered", ![r].reply = "listed",
                          ![r].found = Stamped(@, ListByUser(UserOf(r)))]
  /\ Look(r)

-----------------------------------------------------------------------------
(* What goes wrong.  A statement or a call fails, or a client of 10 s does *)
(* not wait for it, which ends the request at the other end as well.       *)

Fail(r) ==
  /\ work[r].at \notin {"idle", "answered", "rss", "email"}
  /\ Fault /\ Answer(r, "error")
  /\ strayed' = IF At(r, "unroute") THEN strayed \cup {Key(r)} ELSE strayed
  /\ UNCHANGED <<feeds, subs, senders, routes, asked, overlapped, steady>>

\* What was done in the fetcher stays done, and the handler does not know.
CommitUnheard(r) ==
  /\ At(r, "commit") /\ Key(r) \notin subs
  /\ Fault /\ subs' = subs \cup {Key(r)} /\ Disturb(r) /\ Answer(r, "error")
  /\ UNCHANGED <<feeds, senders, routes, asked, history>>

DeleteUnheard(r) ==
  /\ At(r, "delete") /\ Key(r) \in subs
  /\ Fault /\ DeleteByUserAndFeed(r) /\ Answer(r, "error")
  /\ strayed' = strayed \cup {Key(r)}
  /\ UNCHANGED <<feeds, senders, routes, asked, overlapped>>

-----------------------------------------------------------------------------
(* The apps, and the mail: a sender is there as soon as it has written     *)
(* (EmailIngest!Upsert).                                                   *)

Unsubscribe(r, u, f)  == Begin(r, u, f, None, "find")
Choose(r, u, s, list) == Begin(r, u, s, list, "verify")
List(r, u)            == Begin(r, u, None, None, "rss")

Finish(r) ==
  /\ At(r, "answered")
  /\ work' = [work EXCEPT ![r] = Idle]
  /\ steady' = [steady EXCEPT ![r] = {}]
  /\ UNCHANGED <<feeds, subs, senders, routes, asked, faults, history>>

Receive(u, s) ==
  /\ <<u, s>> \notin senders
  /\ senders' = senders \cup {<<u, s>>}
  /\ steady' = [q \in Slots |-> IF UserOf(q) = u THEN steady[q] \ {s} ELSE steady[q]]
  /\ UNCHANGED <<feeds, subs, routes, work, asked, faults, history>>

-----------------------------------------------------------------------------
SubscriptionsInit ==
  /\ feeds = {} /\ subs = {} /\ senders = {}
  /\ routes = [key \in Users \X Sources |-> None]
  /\ work = [r \in Slots |-> Idle]
  /\ asked = 0 /\ faults = 0
  /\ overlapped = [u \in Users |-> 0] /\ strayed = {}
  /\ steady = [r \in Slots |-> {}]

Ask(r) ==
  \E u \in Users :
    \/ \E f \in Feeds, list \in Lists \cup {None} : Submit(r, u, f, list)
    \/ \E f \in Feeds : Unsubscribe(r, u, f)
    \/ \E s \in Sources, list \in Lists : Choose(r, u, s, list)
    \/ List(r, u)

Serve(r) ==
  \/ Count(r) \/ LookUp(r) \/ Check(r) \/ ValidateAndExtractFeedMetadata(r)
  \/ CreateFeed(r) \/ CheckFeedLimit(r) \/ Commit(r) \/ ResolveFeedList(r)
  \/ Find(r) \/ Delete(r) \/ Unroute(r)
  \/ Verify(r) \/ SetSourceList(r)
  \/ FetchRSSSubscriptions(r) \/ FetchEmailSubscriptions(r) \/ ListAllSubscriptions(r)
  \/ Fail(r) \/ CommitUnheard(r) \/ DeleteUnheard(r)

SubscriptionsNext ==
  \/ \E r \in Slots : Ask(r) \/ Serve(r) \/ Finish(r)
  \/ \E u \in Users, s \in Senders : Receive(u, s)

SubscriptionsSpec == SubscriptionsInit /\ [][SubscriptionsNext]_subscriptionsVars

-----------------------------------------------------------------------------
(* Properties.                                                             *)

Requested ==
  [at : Stages, user : Users \cup {None}, source : Sources \cup {None},
   list : Lists \cup {None}, found : SUBSET (Sources \cup (Sources \X Lists)),
   failed : SUBSET {"rss", "email"}, reply : Replies \cup {None}]

\* The values the variables take; a subscription's feed has a row.
SubscriptionsTypeOK ==
  /\ feeds \subseteq Feeds /\ subs \subseteq Users \X feeds
  /\ senders \subseteq Users \X Senders
  /\ routes \in [Users \X Sources -> Lists \cup {None}]
  /\ work \in [Slots -> Requested]
  /\ asked \in 0..MaxRequests /\ faults \in 0..MaxFaults
  /\ overlapped \in [Users -> 0..MaxRequests]
  /\ strayed \subseteq Users \X Feeds
  /\ steady \in [Slots -> SUBSET Sources]

\* No user has more feeds than the limit, however stale the count of the service
\* is when it inserts, but for the inserts that were counted while another of the
\* same user had not committed: each of those may add one.
LimitHolds ==
  /\ SubscriptionsTypeOK
  /\ \A u \in Users : CountByUserID(u) <= MaxFeedsPerUser + overlapped[u]

\* The limit as the trigger states it.
WithinLimit == \A u \in Users : CountByUserID(u) <= MaxFeedsPerUser

\* A feed that a user does not have has no route, unless it is being removed by an
\* unsubscription under way: so a feed taken up again starts from the default.
\* Excepted are feeds whose last unsubscription failed half-way, or ran while
\* another request was about to write the route.
RoutesFollowSubscriptions ==
  \A u \in Users, f \in Feeds :
    routes[<<u, f>>] # None /\ <<u, f>> \notin subs /\ <<u, f>> \notin strayed =>
      \E r \in Slots : At(r, "unroute") /\ Key(r) = <<u, f>>

\* As the comment in SetSourceList has it: a request to set the list of a feed does
\* not bring back the route of one that is gone.
NoRouteComesBack ==
  \A u \in Users, f \in Feeds :
    routes[<<u, f>>] # None /\ <<u, f>> \notin subs =>
      \E r \in Slots : At(r, "unroute") /\ Key(r) = <<u, f>>

\* What an answer says is so for every source nothing else touched meanwhile: a
\* listing that names no failed source has all of them, each with its list, and no
\* other; "not found" and "conflict" are said of sources the user lacks, or has;
\* and what is acknowledged is done, with the list that is named.  It takes
\* that the user's senders fit on a page.
Subscribed(u, s) == <<u, s>> \in subs \/ <<u, s>> \in senders
AnswerIsTrue(r) ==
  LET u == UserOf(r)  s == SourceOf(r)  reply == work[r].reply
      asks == {t \in steady[r] : ~ (t \in Feeds /\ "rss" \in work[r].failed)
                              /\ ~ (t \in Senders /\ "email" \in work[r].failed)}
  IN /\ reply = "listed" =>
          \A t \in asks : {e \in work[r].found : e[1] = t}
                            = IF Subscribed(u, t) THEN {<<t, ListOf(u, t)>>} ELSE {}
     /\ s \in steady[r] =>
          /\ reply = "not found" => ~ Subscribed(u, s)
          /\ reply = "conflict" => Subscribed(u, s)
          /\ reply \in {"created", "routed"} =>
               Subscribed(u, s) /\ ListOf(u, s) = work[r].list
          /\ reply = "unsubscribed" => ~ Subscribed(u, s) /\ routes[<<u, s>>] = None
AnswersAreTrue ==
  \A r \in Slots :
    At(r, "answered") /\ Cardinality(SendersOf(UserOf(r))) <= PageSize => AnswerIsTrue(r)

\* The same of every user, with any number of senders.
EveryAnswerIsTrue == \A r \in Slots : At(r, "answered") => AnswerIsTrue(r)
=============================================================================
