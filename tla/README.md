# A TLA+ model of the FlowDeck backend

FlowDeck is an Express service over MongoDB and Redis: workspaces with members
and roles, kanban boards, a page tree, chat channels, files, notifications and
a Socket.IO gateway. All paths below are relative to the repository root.

The service keeps its state in documents. A handler awaits the database several
times: it *reads* a few documents, decides, and *writes*. Between two awaits any
other request may run, on this process or another. `withTransaction`
(`src/helpers/transaction.ts`) groups the writes of most handlers, but the reads
their decisions rest on almost always come before it. That is where this code is
hard to test, and what the models are about: every await is a step, and the
values read earlier are kept in the request.

## 1. Inventory

| Component | State | Operations | What is hard | What makes it correct |
|---|---|---|---|---|
| Boards, lists, cards (`services/board.service.ts`) | board, list and card documents; `position` of a list on its board and of a card in its list; `cardLimit` | create and archive each of them, `updateList`, `updateCard`, `moveCard` | range renumbering around a moved card; counts and positions read before the transaction | positions `0..n-1`; active cards only on active lists; limits; no operation reorders bystanders |
| Workspaces (`services/workspace.service.ts`, `middlewares/workspaceAccess.ts`) | `owner`, `memberCount`, one membership document per member, cached roles in Redis | create, add, change role, remove, leave, transfer; the guard before every workspace route | checks outside transactions; a read-through cache that can be written after it was dropped; Redis that fails | exact count; one owner; a revoked role stops working; stale entries do not live on |
| Sessions (`services/auth.service.ts`, `identity.service.ts`, `models/refreshToken`) | refresh tokens with family, revocation and expiry; `tokenVersion` | register, login, refresh, logout, logout everywhere, change password, revoke one session | no transaction anywhere; rotation is read, test, write; two stores of truth (token documents and version) | one usable token per family; replay ends a family for good; refresh and access tokens die together |
| Login guard and rate limit (`security.service.ts`, `helpers/rateLimitStore.ts`) | failure and request counters and a block flag in Redis | assert, record, clear; count a request | increment and expiry are two commands; counts are read before the password is checked and bumped after; Redis absent | a lock after N failures, that ends |
| Super admin seat (`admin.service.ts`) | one user with the role | status, claim | claims and registrations race, settled by two unique indexes | at most one, for good |
| Pages (`page.service.ts`) | tree with materialised `path`, `version`, revisions | create, update, move, reorder, archive, restore | a move rewrites a subtree it read earlier; cycle and depth checks on stale paths | path = ancestors; no cycle; depth; revisions without gaps |
| Channels (`channel.service.ts`) | channel with counters, members, messages, reactions | create, join, leave, mark read, send, edit, delete, react | counters beside documents; read-modify-write of reactions | counts exact; private channels closed |
| Files (`middlewares/upload.ts`, `file.service.ts`, `helpers/range.ts`) | assets deduplicated by checksum, bytes on disk | upload, serve ranges, delete | bytes and document change one by one; upload and delete of the same bytes overlap; failing writes, clients that go, crashes | an asset has its bytes, a file its asset |
| Notifications, audit, queues, workers (`notification.service.ts`, `audit.service.ts`, `queues/`, `server.ts`, `worker.ts`) | notification and audit documents, BullMQ jobs | notify, deliver, remind, record, mark read | retry after a partial delivery, inline fallback, processes that end, Redis that comes and goes | every recipient told, and once unless something failed |
| Notices of a card (`board.service.ts` `cardWatchers`, `notifyAboutCard`) | nothing of its own: assignees, creator, completion of the card | what each card operation tells whom | worked out from the card as loaded, after it was saved | who is concerned knows how the card stands |
| Paging (`helpers/pagination.ts`, `listMessages`, `listNotifications`) | the cursor or page number the client goes on with | pages | the list changes between two pages | nothing missed, nothing twice |
| Realtime (`sockets/`) | open sockets and their rooms | handshake, join, leave, emit | authenticated once, open for long | what a socket joins follows the memberships of its user |
| Cache (`cache.service.ts`) | Redis entries with a TTL | remember, drop, counters, flags | every command may fail and is then ignored | degraded, not wrong |
| Search, analytics, HTTP shell, validators, configuration | none: read-only queries, parsing, constants | - | little | - |

Interactions: every workspace route runs `authenticate` (sessions), then
`requireWorkspaceRole` (memberships through the cache), then a service, which
writes MongoDB, drops cached listings, notifies (queue, or inline) and emits to
rooms. The socket gateway calls the same two guards.

`PROJECT.json` lists the components file by file, and every hazard at its line,
with the properties that cover it.

## 2. Modules

| Module | Models | State variables and what they stand for |
|---|---|---|
| `Boards` | `board.service` | `board`, `listState`, `cardState`: absent, active, archived (`archivedAt`); `listPos`, `cardPos`, `cardList`, `cardLimit`: the fields; `req`: handlers in flight; `mix`: see below |
| `CardOrder` | nothing in the code: what a board promises | one sequence of cards per list |
| `CardNews` | the notices of `createCard`, `updateCard`, `moveCard`, `archiveCard` | `cardState`, `creator`, `assignees`, `done`, `column`: one card; `staff`: the members; `newsReq`; `heardOn`, `heardOf`: what people know from the notices; ghost `unheard` |
| `Workspaces` | `workspace.service`, the guard and its cache | `owner`, `memberCount`; `doc`, `role`: the membership document of each user by id, so that a document created again is another one; `cache`; `req` |
| `RoleTable` | nothing in the code: what a workspace promises about roles | `owner`, and the role of each user |
| `Sessions` | `auth.service`, `identity.service` | `state`, `family`, `access`: a refresh token document and the version its access token carries; `version`, `password`; `req`; `mix` |
| `Accounts` | `security.service`, `rateLimitStore`, `register`, the checks of `login`, `admin.service` | `count`, `ttl`, `blocked`: the Redis keys of one address; `account`: the user documents; `accReq`; `accMix` |
| `Pages` | `page.service` | `state`, `parent`, `path`, `version`, `text`: a page document; `history`: its revisions; `req`; `mix` |
| `PageForest` | nothing in the code: what the page tree promises | the pages made, those shown, and what is above each |
| `Files` | `middlewares/upload`, `file.service`, `helpers/range` | `copy`, `holds`: the disk; `asset`: the collection; `fileReq`; ghosts `left`, `cut`; `fileMix` |
| `Channels` | `channel.service` | `channel`, `private`, `memberCount`, `messageCount`: the channel; `doc`: the member document of each user by id; `author`, `parent`, `deleted`, `blank`, `replyCount`: a message; `req`; `mix` |
| `Realtime` | `sockets/index` | `sock`: each socket with its rooms and the join under way; `member`, `known`, `leaving`, `channelOpen`, `isPrivate`, `inChannel`, `boardOpen`: what the checks read; `sockMix` |
| `Feeds` | `listMessages`, `listNotifications`, `helpers/pagination`, mark read, expiry | `stage`: each item; `walk`: the client's place; `shown`; ghosts `kept`, `leaves`, `enters`; `feedMix` |
| `Delivery` | `notification.service`, `audit.service`, `auditTrail`, `queues/`, `server`, `worker`, the emitter | `redis`, `up`, `working`, `consumers`: processes; `change`: requests; `job`: BullMQ; `inbox`, `heard`, `audit`: what arrived; ghosts `trouble`, `mishaps`, `stranded`; `dlvMix` |
| `MC*` | | constants and symmetry for TLC; `MCTeam`, `MCGettingIn`, `MCContent`, `MCRooms` put modules side by side |
| `*_proofs` | | theorems and proofs |

`req[s]` is a handler: `op` is the operation, `step` the await it is at, the
other fields its local variables. `Start...` is a validated request that reached
the handler; `Load...`, `Find...`, `Read...`, `Count...`, `Guard...` are its reads,
with the early return each of them may take; the last step is its write, with all
its statements. An early return is `Refuse`: it answers an error and changes
nothing.

*Modules side by side.* `Workspaces` with `CardNews`, `Sessions` with `Accounts`, `Pages` with
`Files`, and `Channels` with `Realtime` and `Feeds` share no variable. Their MC modules start
one of them per behaviour and keep the others at rest, so that one run explores
each of them alone. Where the code of two modules does meet, each models the other's part as
single actions: `Realtime` takes memberships, the channel and the board as facts that HTTP requests change,
`CardNews` takes the workspace's members so, `Delivery` starts where `CardNews` ends (a notice `notify` has taken).

*`mix`* and its like are bounds and not state of the code: a behaviour keeps to one
set of operations, one set of request slots and one set of faults, so
that one run covers requests one at a time, requests that overlap, and failures. `OneAtATime` says
that the behaviour uses one slot. In `Workspaces` alone, constants say both
(`Offered`, `Requests`).

*Boards.* Mongoose's `save` writes only modified paths, so `UpdateList` and
`MoveCard` write a field only when it differs from the value loaded, not from the
value stored. The filters of `updateMany` are evaluated in the write, on what is
stored then. Ids are never reused. `updateList` may be given any position and writes it as it
is, which is why `ListPositionsContiguous` says that no *other* step makes contiguous lists
anything else.

*CardNews.* What a handler sends it works out from the card it loaded and the one it saved: assigned,
unassigned, completed, reopened, moved, archived, each to assignees or creator but the actor.
`assigned` and `unassigned` go to the difference of the two lists. The assignees are saved as a whole array, and Mongoose may
refuse to replace one that another save has replaced meanwhile (`SaveRefused`). A failed notice takes those behind it
along (`unheard`).

*Workspaces.* `GuardHit`, `GuardMiss`, `GuardLoad`, `GuardStore` are
`remember`: between the load and the store any drop may pass. A cached `false` is
the answer "none". With `RedisFails` a read may be a miss and a write or drop may do
nothing, which is `attempt` in `cache.service`. `deleteOne` and `save` go by the document id
found; the two `updateOne` of a transfer go by user. `MaxJoins` bounds how many
membership documents are ever created.

*Sessions.* One account. No handler uses a transaction, so every statement is a
step. `Expire` is the TTL of a refresh token, and afterwards MongoDB may remove
the document at any time, which `Rotate` allows for. The
account exists, and its first session is a login. Passwords are numbered by how
often they changed. `MaxVersion` bounds how often the version is bumped.

*Accounts.* Requests from one address pass `ipGuard` and the limiter, then `login`, `register` or `claim`.
Every Redis command is a step; those issued together by `Promise.all` run in any order (`todo`). With an outage
a command yields the neutral value of `attempt`, and may or may not have been carried out. What a login issues is `Sessions`.

*Pages.* A `save` that sets the `path` array compares Mongoose's version key, so of
two overlapping moves of one page the second fails: `fresh` in a request, which
another move of that page resets. A move to the parent the page has does
not set the array and compares nothing. The unique index on page and version makes the second of
two overlapping edits fail.
`MaxPath` stops moves once overlapping ones have lengthened paths, which
they can do without end; with requests one at a time none is longer, and `MaxPath` stops nothing.

*Files.* A file is written under a random name before anything else is known of it; `registerUpload`
keeps it or removes it as a duplicate; whatever refuses the request later leaves it to the listener on the
response's `finish`, which does not fire when the client has gone. Names are numbered in the order they are drawn.
A `Range` header is the two numbers around its dash; a content is its size.

*Channels.* One channel, and users who may write in the workspace (which `Workspaces` is about);
`Root` is the super admin. A message
names its parent when it is sent and never changes it. `deleteOne` goes by the member document found, and every
counter is changed by one whatever was found to delete. An edit writes the body only when it
differs from the one loaded, so one that comes after a deletion may or may not.

*Realtime.* A workspace, a board and a channel with one room each. A join of the first two goes
through the same cached membership as HTTP requests; the answer is shared by all sockets of the user. A join
of the channel asks `assertCanRead`: the channel must not be archived, and a private one wants a ChannelMember document. A
socket waits for its join; two sockets of a user overlap. One that disconnects with a join under way is `gone`: it is in no room, and the
handler goes on and may still cache an answer. Nothing of a session is left after the handshake, for
nothing in the gateway reads it again.

*Feeds.* Items are numbered in the order their ids (and timestamps) are drawn and are committed in any order.
Messages are paged by a cursor, downwards; notifications by page number, from either end, all or the unread ones.

*Delivery.* A request writes, notifies, answers, and leaves its audit entry when the answer was a
success. `enqueue` adds a job when Redis and the consumers are there and otherwise runs the handler in place. BullMQ
(a library) runs a job at least once and at most `Attempts` times after failures; a job whose worker process ended has stalled and is run again. Workers
live in the API process or, when the deployment is `split`, in one of their own.
`mishaps` bounds the faults of a behaviour; `trouble` counts those that hit a draft.

## 3. Runs

| Run | Shows | Bounds |
|---|---|---|
| `boards_all` | requests one at a time: contiguous positions of cards and lists, archiving, limits, and that `Boards` implements `CardOrder`; overlapping ones: no inversion of bystanders | 3 cards, 2 lists, one of them a default list of the board, list positions 0 and 1 from clients, limit 2; `createList`, `createCard` and `moveCard` with 2 overlapping requests, positions up to 2 |
| `boards_contiguity_lost` | *violation*: contiguity under overlap | 2 cards, 2 requests |
| `team` | `Workspaces`: exact count, immediate revocation, and that it implements `RoleTable`: roles are changed only by whoever is entitled to it then. `CardNews`: who knows what of a card | 3 users and the super admin, 1 request, Redis answers, 5 membership documents. 3 people; everything 1 request at a time; 1 request with people coming and going and notices that fail; assigning that overlaps each other operation |
| `workspaces_concurrent` | the count never exceeds the memberships; stale cache entries end (liveness) | 2 users, 2 overlapping requests, 2 memberships, Redis fails, no transfer |
| `workspaces_stale_refusal` | *violation*: the guard answers what the database says | the same with fewer operations |
| `getting_in` | `Sessions`: one usable token per family; tokens die together; a dead family stays dead. `Accounts`: failures bounded; counters end; one super admin for good | 4 tokens, 2 families; all operations 1 request at a time, and login, refresh, logout and logout everywhere with 2 overlapping requests. 2 emails, 2 clients; 2 failures lock an account, 3 an address, 3 requests a window; counters up to 4; once with an outage |
| `sessions_forked` | *violation*: one usable token per family under overlap | 3 tokens, 2 overlapping requests |
| `content` | `Pages`: paths are ancestors; it implements `PageForest`: subtrees are moved and archived whole; revisions complete; no edit lost. `Files`: disk and collection agree; uploads are kept; ranges are right | 4 pages moved one request at a time; 3 pages, 1 of them edited, 2 overlapping requests. 3 file names, contents of size 2 and 0, 20 `Range` headers; 1 request with each kind of fault, 2 overlapping ones with all of them |
| `pages_cycle` | *violation*: no page below itself | 2 pages, 2 overlapping moves |
| `rooms` | `Channels`: counters exact, never over under overlap; private channels closed; deleted messages empty. `Realtime`: a socket enters the rooms of the workspace and the board only for a member, a private channel's with a ChannelMember document, none of what is archived. `Feeds`: complete walks | a super admin and a user, 3 messages, 3 member documents; all operations 1 request at a time; membership, and messages, with 2 overlapping requests. 2 sockets, 2 people, everything one thing at a time; joins that overlap removals. 4 items, pages of 1 and 2 |
| `realtime_outsiders` | *violation*: the room of a private channel only for members of the workspace | 1 socket, 2 people, one thing at a time |
| `delivery` | told once unless something failed; an answered success arrives; what is stored is sent; jobs settle (liveness) | 2 changes, 2 due cards, 3 users with a super admin, 2 attempts, 2 faults (1 for two changes), workers apart and not |

Why the bounds are enough. The card operations renumber a list around one card:
with three cards a move has a card before, at and after its slot, in the same and
in another list, and a limit of two makes a list full with one card to spare. Two
requests are what a race of a read with a write needs; the stale values of a third
would only repeat the second's. `MaxPosition` stops positions that lost
contiguity from growing without end. Three users are an owner, somebody to
transfer to and a third; three people of a card are its creator, its actor and an assignee, or any two of them one. Four tokens let a
family rotate three times, or two families live side by side. With four pages a
moved page has a child and a grandchild that follow it, and still somewhere to go; `MAX_DEPTH`
is 2, so that it is reached. Three versions let a page be edited and an earlier
version restored while another edit is under way. Three file names are an asset, its duplicate and another upload.
Three messages make a reply to a reply, or two
to one message, and one member document more than users a user who comes back. Four items are two
pages of two, or four of one, with one that comes or goes between them. The counters of `Accounts` go one
beyond the greatest threshold. Two faults let a retry fail as well, or Redis go while a job waits and a process end after it.

Deadlock is not checked where the model may really stop: an archived board
accepts nothing, and the supply of card, page, message, token and file ids, of requests and of faults is finite. It is checked for
`Workspaces` and `CardNews` (`team`, `workspaces_concurrent`).

Fairness. Two runs state any. In `workspaces_concurrent` a handler that started goes on
(every await of the driver returns or throws), and Redis forgets an entry when its
TTL has passed; that an entry *expires* when it is
never dropped is all that ends a stale role when a drop failed or was overtaken. In `delivery` the workers go on with what is
in their queues, a process that ended is started again, which is what
`docker-compose.yml` says of both (`restart: unless-stopped`), and Redis comes back, as ioredis, which reconnects, expects. Nothing is assumed about clients, nor that a job succeeds.

Violations. Each of those runs checks a sentence of the README or of
`docs/architecture.md`; `PROJECT.json` quotes it.

* *Positions are always 0..n-1* holds for requests one at a time, not for two
  that overlap: the count and positions are read before the transaction.
* *Redis is a performance dependency, not a correctness one*: `addMember` leaves
  the cached refusal of the user it adds.
* *Using a refresh token revokes it*: two overlapping uses both succeed.
* *The client asking for a room it cannot see gets an error rather than the room* (`docs/architecture.md:83-84`): a member joins a
  channel, the channel turns private, the member is removed from the workspace, and the ChannelMember document stays: the socket enters
  the room again, although every route of the channel refuses its user. `MembersOnly` is about the private channel, because a public one takes nothing
  to violate it: `CHANNEL_JOIN` lets in whoever has the identifiers. `JoinsAuthorised` therefore claims nothing of the workspace for channel rooms.
* *Moves into the page's own descendant are rejected*: two overlapping moves, of A
  under B and of B under A, both pass, and both pages leave the tree. It takes the overlap: `NoCycleInTurn` is proved.

Three more races show when a second request slot is given to the run of
`Workspaces` (`Requests = {r1, r2}`) or to the serial mix of `Sessions`, which is why their properties are claimed of requests one
at a time: two overlapping removals of one member both decrement `memberCount`; an
`updateMemberRole` that loaded the member before a transfer to it overwrites the
owner role; and a login that overlaps `logoutEverywhere` is left half revoked.

What the modules show of the code beside the properties, each visible in the model and each the reason
for a condition in a property:

* *Files.* A write that fails, or a client that goes, leaves its partial file for good (`left`), and a crash in a delete an asset without bytes (`cut`).
  A download whose file is deleted between `stat` and the opening of the stream ends the process: the stream's error has no listener
  (`OpenGone`, `CrashServing`). An upload that finds an asset which a delete is about to remove is answered with an asset that is
  gone, and its own bytes were dropped: `UploadKept` is claimed one at a time. `bytes=-5` is read as `0-5`, and a range of an empty file is an error.
* *Delivery.* A worker process of its own never binds the realtime server, so what it stores is not sent to sockets: `StoredAreHeard` is
  claimed of one process. An API process started without Redis never starts its workers, and jobs already queued wait for the next start (`stranded`).
  A title longer than the schema allows (`models/notification.model.ts:10`) fails an inline notice, and with it the answer to a change already written; in the sweep it
  fails the whole job, whose retries remind the earlier cards again.
* *Accounts.* With a Redis that fails between the increment and its expiry, a counter has no end: `CountersExpire` is claimed while it answers.
* *CardNews.* A removed member stays an assignee and is still told; an update that sends such a list back is refused.
  An update loaded before an archive writes to the archived card. A creator who is taken off as an assignee by an update that changes something else too gets a notice of both.
* *Realtime.* A socket keeps its rooms and stays open when its session is revoked or its member removed, although `docs/architecture.md:82-83` says that a revoked
  session cannot hold an open socket: the gateway never asks again.
* *Sessions.* `revokeSession` and `logout` revoke a refresh token and do not bump `tokenVersion`, although `README.md:130` says that it
  is bumped whenever sessions are revoked: the access token of that session passes (`Accepted`) until it expires. `SessionsAgree` is about `logoutEverywhere` and `changePassword`.
* *Delivery, without Redis.* A handler that throws while Redis is away cannot have its failure recorded: the job loses its lock and is run once more as a stalled one (`FailJob`).

## 4. Proofs

`tlapm` checks every proof with SMT, Zenon and LS4; nothing is assumed but the
named assumptions on the constants (`BoardsAssumption`, `WorkspacesAssumption`, `CardNewsAssumption`,
`SessionsAssumption`, `AccountsAssumption`, `PagesAssumption`, `FilesAssumption`, `ChannelsAssumption`,
`RealtimeAssumption`, `FeedsAssumption`, `DeliveryAssumption`), which TLC evaluates in every run
of those modules. They say that bounds are numbers, that a null is none of the ids, that sets of cards, users, messages and
clients are finite where something is counted, and, in `DeliveryAssumption`, that the sweep finds a due card once.
The theorems hold for every set of requests, users, cards, pages and so on, every `mix` and every bound: what
the runs show of two requests they show of any number. "One at a time" is `OneAtATime` of the behaviour's `mix` (in `Workspaces`, whose slots are
a constant, a hypothesis of the theorem); several of these properties fail without it (section 3).

The same argument recurs. A property is not inductive: a handler carries what it read over its awaits. Each proof adds
(1) the types, with what a request at a step must already hold (`RequestOK`), such as that a move about to write
has loaded the list it comes from; (2) for the properties of requests one at a time, that what the request in flight
has read is what is stored now (`Current`), and that only the slots of the `mix` are ever in use (`SlotsOK`);
for the properties of overlapping requests, what survives the overlap instead. One lemma per action
follows, and the theorem puts them together. The strengthened invariants were first checked by TLC.

**Boards** (`Boards_proofs`)

* `TypeCorrect`.
* `CardOrderKept`: no step inverts bystanders, for any overlap. The two range updates are
  each monotone on the positions of one list, whatever the
  stale bounds are (`CloseGapMonotone`, `OpenGapMonotone`).
* `SerialContiguity`, `SerialArchiving`: one at a time. The lemmas `ClosedGap` and `FilledGap` say what
  the two updates do to a contiguous set of positions.
* `LimitHolds`, `ListsStayContiguous`: action properties, from the same invariant.
* `KeepsCardOrder`: `Boards` implements `CardOrder`, one at a time. The mapping takes a list to the sequence of its active cards by position,
  which is a sequence because positions are contiguous; every write is then shown to be the step of `CardOrder` it stands for (a card appended, taken out, or put
  in at an index), and everything else a stutter. For the stutters it is enough that
  the mapping depends only on the state, list and position of the active cards.

**Workspaces and CardNews** (`Workspaces_proofs`)

* `TypeCorrect`; `CountBounded`, for any overlap: a removal always decrements and may
  delete nothing, an addition increments only with a document it creates.
* `SerialMemberCount`, `SerialOwner` (the owner role is held by the user `workspace.owner` names and nobody else): one at a time.
* `SerialRevocation`: one at a time, while Redis answers. The cache may hold an old role only until the request that changed it has dropped it
  (`Covered`), and holds what is stored otherwise (`Truthful`).
* `KeepsRoleTable`: `Workspaces` implements `RoleTable`, one at a time, while Redis answers. The table names who makes each change and what entitles them, by the
  roles of that moment; the code decides it several awaits earlier, on a role from the cache or the database. `RightInv` carries the decision to the write: the guard lets in only whom the stored role
  permits, because an entry is that role or a refusal (`Truthful`), and a request past the guard is still permitted (`Entitled`) until it has written. A departure goes on as a removal
  its actor need not be permitted, so the invariant says that who leaves is the target.
* `NewsTypes`; `HeardIsTrue`, with any overlap of what the property lets overlap. The invariant `NewsInv` says that whoever does not know how the card stands is *owed* a notice some request
  has still to send (`OwedTo`, `Owed`), unless one meant for them was lost; that a notice not yet sent is true of the card as it is (`NoticeOK`); and that what a request
  in flight loaded of the fields it will change is still what is stored (`Memory`). The last two hold for a kind of change that does not overlap
  itself (`Solo`), because only its own requests write those fields. Finding this invariant corrected the property: assigning and *creating* have to be calm together. With one
  request that creates and another that assigns, the creation's notice, sent late, tells a user they are assigned whom an
  update has taken off meanwhile.

**Sessions** (`Sessions_proofs`)

* `TypeCorrect`; `FamiliesEnd`, for any overlap: a family gets a usable token only from
  a refresh of that family that had found one (`RenewsKept`), or from a login, which takes a new one.
* `SerialRotation`, with `Rotating`: a request about to issue in a family left no usable token there.
* `SessionsStayAgreed`, one at a time, with `Fresh`: a request about to bump the version has left no live token, and one about to issue carries the version that is current.

**Accounts** (`Accounts_proofs`)

* `AccountTypes`; `CountersAlwaysExpire`, for any number of clients, while Redis answers. A counter loses its expiry only by going to zero, and
  whoever takes it from zero to one has the expiry to set; the invariant is that one of the two holds of every counter above zero.
* `SeatAlwaysKept`, for any overlap. It rests on the two unique indexes alone, whatever the reads before them said.
* `FailuresStayBounded`, for any overlap, while Redis answers. The requests that have passed the check and may still bump (`Pending`) are counted as if they
  had, so that the check is where the bound is decided.

**Pages** (`Pages_proofs`)

* `PageTypes`; `HistoryIsComplete` and `NoEditIsLost`, for any overlap of edits: the unique index on page and version lets one of the edits that loaded
  a version through, and `Loaded` says that a request which holds the page's version holds its text too.
* `PathsFollowParents`, one at a time, for any tree. A move gives each descendant the moved page's new path
  followed by what its own path had after the page; that this is the path of its parent followed by the parent again takes the lemmas on
  cutting and joining sequences, and, because descendants are found by their *paths*, that these are right before the move.
* `KeepsForest`: `Pages` implements `PageForest`, one at a time, for any number of pages. The forest has neither parents nor paths: it says what is above each page, as a set. The mapping takes
  it from the stored path (`ShownAbove`). That a move of the code is a move of the forest needs that a path names no page twice and not the page
  itself (so that cutting a sequence is taking away a set, `RestOfPath`), that everything above an active page is active (`AncestorsActive`), and that the parent a request
  has checked is still shown when it writes (`StillShown`).
* `TreeStaysForest`: what the abstract specification promises, of the code: the pages above an active page are a line of active pages without the page itself.
  `NoCycleInTurn`: so no page is below itself.

**Channels, Realtime and Feeds** (`Rooms_proofs`)

* `ChannelTypes`; `CountersAreHonest`: never over the documents for any overlap, exact one at a time; `DeletedStaysBlank`; `ChannelClosed`, an action property.
* `RealtimeTypes`; `JoinsAreAuthorised`, while handlers do not overlap with changes: what a join has checked so far still holds (`Sound`), and a cached answer is true
  or about to be dropped (`CacheTrue`). It says of channel rooms what the code checks and no more: that the channel is open, and of a private one the ChannelMember document.
* `FeedTypes`; `CursorWalksComplete`, for any number of messages and any page size. The invariant `WalkInv` is that what was shown is at or above the cursor, and that what was kept and is at or above it has been shown; the
  lemma `RowsOfAPage` says that a page is the upper end of the rows below the cursor.
* `NumberedWalksNearlyComplete`, for the pages by number, any number of items, any page size and either order, and `WalksAreComplete`, the two together.
  The invariant `PagesInv` counts: what the walk has gone past without showing it (`Missed`) is never more than what left the list; the repeats,
  with what was shown and is ahead again (`Again`), never more than what entered it. The lemma `RankShift` carries it over a change: when rows A become rows
  B, no more of them move in front of a place than were taken out of A. It compares the first and the last of those that moved, which exist
  because the strict subsets of a finite set are well-founded (`ItemEnds`).

**Files** (`Files_proofs`)

* `FileTypes`; `BytesAlwaysMatch`, for any number of uploads, downloads, deletes and faults. The invariant adds what a request may rely on at
  each step (`SlotOK`: no asset before its create, its file whole before it registers, the bytes gone before the document), that no two uploads have one name
  (`NamesApart`), and that a deleted asset has no bytes (`DeletedGone`).
* `RangesStayInside`, for any content and any `Range` header; `UploadsAreKept`, one at a time without a crash in between (`KeptFor`).

**Delivery** (`Delivery_proofs`), for any number of changes, due cards, users, attempts, under every fault

* `DeliveryTypes`: with the types, that a job which is not over has an attempt left, and that only a process that is up works (`Runs`).
* `DuplicatesNeedFaults`: how often a user is told, *plus* how often the request and the job may still tell (`Once`, `Noted`), is at most one and one for each fault that struck the
  draft. Counting what is still possible makes every step keep the sum: a delivery moves one from what is possible to what has happened, and only
  a retry, a stall, or an inline run of a job that was added after all raises the sum, each with a fault. For the sweep (`Ahead`), a
  card behind the one it is at is told at most once per fault and the cards ahead have their turn to come.
* `AnswersAreDelivered` (`Reached`, `Recorded`): an answered success is stored, or with the queue, or was struck by a fault.
* `StoredIsHeard` (`Sent`): in one process what is stored is heard or about to be emitted by the same handler.

**Modules side by side.** `TeamIsBoth`, `GettingInIsBoth`, `ContentIsBoth` and `RoomsAreAll` prove that every behaviour the runs `team`, `getting_in`, `content` and
`rooms` explore is a behaviour of each of the modules they put together, so that starting one module at a time, and naming the actions one by one, adds no step to any of them; the theorems above then
hold of those runs. `TeamTypes`, `GettingInTypes`, `ContentTypes` and `RoomsTypes` are the types of all of them.

Model-checked only: the liveness properties `StaleEntriesExpire` and `JobsSettle`, which are out of the prover's reach. Every other property of a passing run is a theorem.
The violations are TLC's.

## 5. What is left out

* *Transactions* are one step that uses the values the closure captured. MongoDB
  runs them under snapshot isolation and retries the closure on a write conflict,
  which gives the same outcome as long as the closure writes what it was given. The standalone
  mode, where statements are written one by one, and crashes inside it, are planned.
* *A retried transaction* in `movePage` and `deleteMessage`: Mongoose may take the document for saved
  when the driver runs the closure a second time.
* *Fields that decide nothing*: names, labels, descriptions, dates,
  and with them `updateBoard`, `updateWorkspace`, `updateProfile`, and what an audit entry says.
* *What follows a write*: the cached
  listings and snapshots that are dropped by prefix, and socket events other than `notification:created`; typing and presence.
* `archiveWorkspace`, which only sets a field no membership handler reads;
  the 15-minute life of an access token, which bounds how long
  the token of a revoked session passes; listings that are not paged under change (of files, of cards by `updatedAt`, of boards), and counts.
* *Page positions*: `reorderPages` and the `position` of a move. No handler
  compares them or keeps them apart. The depth of the descendants of a moved page is checked by nothing in the code (`page.service.ts:53` looks at the page alone), and no property claims it.
* *Channels*: reactions, read marks, mentions and attachments.
* *Realtime*: handlers of one socket that overlap, and the Redis adapter between processes.
* *Accounts*: limits by user, the key made of an address, `blockAddress` and `unblockAddress` (no route calls them).
* *Delivery*: `purgeArchived`, which deletes what has been archived for 60 days.
* *Feeds*: identifiers and timestamps are taken to be distinct and in one order; the sort by `createdAt` has no tie-breaker.
* Search and analytics, which are read-only queries, the HTTP shell and the configuration: see `PROJECT.json`.

## 6. Plan

1. *(done)* `CardOrder`, `Boards`, `Workspaces`, `Sessions`, `Pages`, `Channels`, their
   runs and theorems.
2. *(done)* `Accounts`, `Files`, `Realtime`, `Feeds`, `CardNews`, `Delivery` with their fault models; the theorems about `Accounts`, `Files` and `Feeds`.
3. *(done)* Theorems about `Pages`, `Channels`, `Realtime`, `Delivery` and `CardNews`, every safety property the runs check, and the refinement of
   `CardOrder`.
4. *(done)* The abstract forest that `Pages` implements and the role table that `Workspaces` implements; the theorems that put modules side by side.
5. Reactions, read marks and unread counts of `Channels`.
6. The standalone mode of `withTransaction` for boards and workspaces: every
   statement a step, and a handler that may stop after any of them; retried closures.
