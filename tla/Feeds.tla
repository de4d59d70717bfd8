-------------------------------- MODULE Feeds --------------------------------
(***************************************************************************)
(* A reader who walks through a list page by page while the list changes:  *)
(* the messages of a channel or of a thread, paged by a cursor             *)
(* (channel.service listMessages), and the notifications of a user, paged  *)
(* by number (notification.service listNotifications with                  *)
(* helpers/pagination).                                                    *)
(*                                                                         *)
(* Items are numbered in the order their identifiers and timestamps are    *)
(* drawn, by one process and never two in one millisecond; they get into   *)
(* the list by commits of their own, in any order.                         *)
(***************************************************************************)
EXTENDS Naturals, FiniteSets

CONSTANTS
    MaxItems,   \* bound: how many items are ever drawn
    FeedMixes   \* bound: which list is walked (feed), from which end (sort),
                \* only its unread items or all (unread), how many at a time
                \* (limit); a behaviour keeps to one of these

ASSUME FeedsAssumption ==
    /\ MaxItems \in Nat
    /\ FeedMixes \subseteq [feed : {"messages", "notifications", "none"},
                            sort : {"newest", "oldest"},
                            unread : BOOLEAN, limit : Nat \ {0}]

VARIABLES
    stage,          \* where each item is
    walk,           \* the reader's walk: not begun, going on or over, and the
                    \* page number or the cursor it goes on with
    shown,          \* how often each item was shown to the reader
    kept,           \* ghost: the items listed ever since the walk began
    leaves,         \* ghost: how many left the list during the walk ...
    enters,         \* ... and how many entered it
    feedMix

feedVars == <<stage, walk, shown, kept, leaves, enters, feedMix>>

Items == 1..MaxItems

FeedsTypeOK ==
    /\ stage \in [Items -> {"none", "making", "unread", "read", "gone"}]
    /\ walk \in [st : {"new", "going", "over"}, at : 0..(MaxItems + 1)]
    /\ shown \in [Items -> Nat]
    /\ kept \subseteq Items
    /\ leaves \in Nat /\ enters \in Nat
    /\ feedMix \in FeedMixes

(* What the walk's filter lets through: messages not deleted, of one       *)
(* parent; notifications, the unread ones only if so asked.                *)
Passing(stages) ==
    {i \in Items : stages[i] = "unread" \/ (stages[i] = "read" /\ ~feedMix.unread)}

Listed == Passing(stage)

(* No cursor is beyond every item; the first page is number one.           *)
FirstAt == IF feedMix.feed = "messages" THEN MaxItems + 1 ELSE 1

FeedsInit ==
    /\ feedMix \in FeedMixes
    /\ stage = [i \in Items |-> "none"]
    /\ walk = [st |-> "new", at |-> FirstAt]
    /\ shown = [i \in Items |-> 0]
    /\ kept = {} /\ leaves = 0 /\ enters = 0

-----------------------------------------------------------------------------
(* The list                                                                *)

(* The list becomes what stages say.                                       *)
Change(stages) ==
    /\ stage' = stages
    /\ kept' = kept \cap Passing(stages)
    /\ IF walk.st = "going"
       THEN /\ leaves' = leaves + Cardinality(Listed \ Passing(stages))
            /\ enters' = enters + Cardinality(Passing(stages) \ Listed)
       ELSE UNCHANGED <<leaves, enters>>
    /\ UNCHANGED <<walk, shown, feedMix>>

(* sendMessage and deliver draw an identifier and a timestamp ...          *)
DrawItem(i) ==
    /\ feedMix.feed # "none"
    /\ stage[i] = "none" /\ \A j \in 1..(i - 1) : stage[j] # "none"
    /\ Change([stage EXCEPT ![i] = "making"])

(* ... and commit the document later, or not at all.                       *)
CommitItem(i) ==
    /\ stage[i] = "making"
    /\ \E st \in {"unread", "gone"} : Change([stage EXCEPT ![i] = st])

HideMessage(i) ==
    /\ feedMix.feed = "messages"
    /\ stage[i] = "unread"
    /\ Change([stage EXCEPT ![i] = "gone"])

MarkRead(i) ==
    /\ feedMix.feed = "notifications"
    /\ stage[i] = "unread"
    /\ Change([stage EXCEPT ![i] = "read"])

MarkAllRead ==
    /\ feedMix.feed = "notifications"
    /\ \E i \in Items : stage[i] = "unread"
    /\ Change([i \in Items |-> IF stage[i] = "unread" THEN "read" ELSE stage[i]])

(* The TTL index takes the oldest notifications.                           *)
ExpireNotification(i) ==
    /\ feedMix.feed = "notifications"
    /\ stage[i] \in {"unread", "read"}
    /\ \A j \in 1..(i - 1) : stage[j] = "gone"
    /\ Change([stage EXCEPT ![i] = "gone"])

-----------------------------------------------------------------------------
(* The walk                                                                *)

(* The reader is shown a page, and goes on at the next if there is one.    *)
ShowPage(page, more, next) ==
    /\ shown' = [i \in Items |-> shown[i] + IF i \in page THEN 1 ELSE 0]
    /\ walk' = IF more THEN [st |-> "going", at |-> next] ELSE [walk EXCEPT !.st = "over"]
    /\ kept' = IF walk.st = "new" THEN Listed ELSE kept
    /\ UNCHANGED <<stage, leaves, enters, feedMix>>

(* The first rows of those given, and whether there are more of them, for  *)
(* which one row beyond the limit was asked; the cursor to go on with is   *)
(* the oldest row of the page.                                             *)
ShowRows(rows) ==
    LET page == {i \in rows : Cardinality({j \in rows : j > i}) < feedMix.limit}
        more == Cardinality(rows) > feedMix.limit
    IN  \/ /\ ~more
           /\ ShowPage(page, FALSE, walk.at)
        \/ /\ more
           /\ \E oldest \in page :
                 /\ \A i \in page : oldest <= i
                 /\ ShowPage(page, TRUE, oldest)

\* Mutant: rows up to the cursor instead of before it.
ListMessagesFrom ==
    /\ feedMix.feed = "messages" /\ walk.st # "over"
    /\ ShowRows({i \in Listed : i <= walk.at})

ListMessages ==
    /\ feedMix.feed = "messages" /\ walk.st # "over"
    /\ ShowRows({i \in Listed : i < walk.at})

Before(i, j) == IF feedMix.sort = "newest" THEN i > j ELSE i < j

(* Page n of rows: limit of them from skip on, in the order of the sort.   *)
PageOf(rows, n) ==
    LET skip == (n - 1) * feedMix.limit
        rank == [i \in rows |-> Cardinality({j \in rows : Before(j, i)})]
    IN  {i \in rows : rank[i] >= skip /\ rank[i] < skip + feedMix.limit}

(* page < pages, where pages is the total over the limit, rounded up.      *)
HasNext(rows, n) == n * feedMix.limit < Cardinality(rows)

ListNotifications ==
    /\ feedMix.feed = "notifications" /\ walk.st # "over"
    /\ ShowPage(PageOf(Listed, walk.at), HasNext(Listed, walk.at), walk.at + 1)

FeedsNext ==
    \/ \E i \in Items :
          \/ DrawItem(i) \/ CommitItem(i) \/ HideMessage(i)
          \/ MarkRead(i) \/ ExpireNotification(i)
    \/ MarkAllRead
    \/ ListMessages \/ ListNotifications

FeedsSpec == FeedsInit /\ [][FeedsNext]_feedVars

-----------------------------------------------------------------------------
(* One for each time an item was shown after the first.                    *)
Repeats == {p \in Items \X (2..(MaxItems + 1)) : shown[p[1]] >= p[2]}

(* However the list changes during a walk, the cursor shows every message  *)
(* that was there all the time, and none twice.  Page numbers miss at most *)
(* one notification for each that left the list meanwhile, and repeat at   *)
(* most one for each that entered it.                                      *)
WalksComplete ==
    LET slack(changes) == IF feedMix.feed = "messages" THEN 0 ELSE changes
    IN  /\ walk.st = "over" =>
              Cardinality({i \in kept : shown[i] = 0}) <= slack(leaves)
        /\ Cardinality(Repeats) <= slack(enters)
=============================================================================
