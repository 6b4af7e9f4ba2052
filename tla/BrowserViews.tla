---------------------------- MODULE BrowserViews ----------------------------
(* What the browsers show of the live nodes.  A change of a node is made under
   the lock of its shard, and only then is a revision raised and the diff task
   told (state.rs).  Once a second that task compares the nodes with those it
   compared last and broadcasts the difference (browser_broadcast.rs); a
   browser's session subscribes first, sends a whole view, possibly a shared
   cached one, and then forwards later differences (ws/browser.rs).  While it
   has no stream a page polls /api/nodes, which is cached by revision
   (web/src/composables/useRealtimeData.ts).  Every view is stamped before the
   shards are locked for it, and a page drops what is stamped before what it has
   (web/src/stores/nodes.ts).  A frame reaches its page at once, and clocks do not
   step back.  Time is counted in whole views: the stamp of one is its number, the
   stamp of a batch the number of those stamped before it; a whole view is here
   stamped as it is read, which orders it against the batches that may still be
   forwarded on top of it as its own earlier stamp does. *)
EXTENDS Integers, Sequences, FiniteSets, Functions

CONSTANTS ViewNode, Browser,
          Updater,      \* tasks that may change nodes at the same time
          LagCapacity,  \* batches the broadcast keeps for a slow session
          MaxEdits,     \* bound: changes of nodes in a behaviour
          MaxPolls,     \* bound: polls of pages in a behaviour
          MaxLinks      \* bound: connections of pages in a behaviour

ASSUME BrowserAssumption ==
    /\ LagCapacity \in Nat \ {0}
    /\ MaxEdits \in Nat /\ MaxPolls \in Nat /\ MaxLinks \in Nat

VARIABLES
    truth,      \* the nodes: a version for every change, and whether it is listed
    revision,   \* nodes_revision
    announced,  \* the version of each node that revision covers
    writers,    \* the tasks between a change, its revision and its signal
    early,      \* nodes of which a change was read before its revision was raised, and
                \* those whose last change the diff task compared so
    signal,     \* a dirty signal waits in the channel
    task,       \* the diff task: its step, dirty, last_nodes and the batch it holds
    published,  \* published_revision of the resync cache
    slot,       \* the shared InitialState frame
    viewer,     \* the server's side of each page's stream
    page,       \* the page: its link, what it shows, and its poll
    clock,      \* how many whole views have been stamped
    began,      \* generated_at of the diff task's snapshot in the making
    seen,       \* of each page with a stream: lastGeneratedAt, the nodes of which it
                \* dropped a row and has had no other, and what it was sent
    cache,      \* the cached body of /api/nodes
    building,   \* who holds api_nodes_cache_build_lock
    polls, links

viewVars == <<truth, revision, announced, writers, early, signal, task, published,
              slot, viewer, page, clock, began, seen, cache, building, polls, links>>
stampVars == <<clock, began, seen>>
sourceVars == <<truth, revision, announced, writers, early, signal>>
taskVars == <<task, published>>
apiVars == <<cache, building, polls>>

Nobody == "nobody"
NoFrame == [rev |-> -1]
Absent == [ver |-> 0, here |-> FALSE]
NoNodes == [n \in ViewNode |-> Absent]
NoBatch == [rev |-> -1, rows |-> <<>>, at |-> 0]
Off == [stage |-> "none", base |-> 0, queue |-> <<>>, lagged |-> FALSE]
NoPoll == [step |-> "none"]
Unseen == [at |-> 0, missed |-> {}, due |-> NoNodes]

(***************************************************************************)
(* Changes of nodes.                                                       *)
(***************************************************************************)

\* The nodes whose change has not yet raised the revision.
Unannounced == UNION {writers[w].nodes : w \in {v \in Updater : writers[v].step = "changed"}}

Changes == FoldFunction(LAMBDA v, sum : v.ver + sum, 0, truth)

\* One entry changes under its shard's lock.
Altered(w, n, here) ==
    /\ n \notin Unannounced
    /\ Changes < MaxEdits
    /\ truth' = [truth EXCEPT ![n] = [ver |-> @.ver + 1, here |-> here]]
    /\ writers' = [writers EXCEPT ![w] = [step |-> "changed", nodes |-> @.nodes \cup {n}]]
    /\ early' = [early EXCEPT !.compared = @ \ {n}]
    /\ UNCHANGED <<revision, announced, signal, taskVars, slot, viewer, page, apiVars, links, stampVars>>

\* A session of the node registers, reports a snapshot or a latency, or ends.
Change(w, n) == writers[w].step = "idle" /\ Altered(w, n, TRUE)

\* remove_node
RemoveNode(w, n) == writers[w].step = "idle" /\ truth[n].here /\ Altered(w, n, FALSE)

\* mark_stale, refresh_geoip_locations and apply_location_overrides change one
\* node after another and raise the revision when they have done.
Sweep(w, n) == writers[w].step = "changed" /\ truth[n].here /\ Altered(w, n, TRUE)

\* bump_view_revision, bump_nodes_revision_only: fetch_add on the counter.
RaiseRevision(w) ==
    /\ writers[w].step = "changed"
    /\ revision' = revision + 1
    /\ announced' = [n \in ViewNode |-> IF n \in writers[w].nodes THEN truth[n].ver ELSE announced[n]]
    /\ writers' = [writers EXCEPT ![w].step = "bumped"]
    /\ UNCHANGED <<truth, early, signal, taskVars, slot, viewer, page, apiVars, links, stampVars>>

\* notify_browser_view_dirty, after the revision.
Notify(w) ==
    /\ writers[w].step = "bumped"
    /\ signal' = TRUE
    /\ writers' = [writers EXCEPT ![w] = [step |-> "idle", nodes |-> {}]]
    /\ UNCHANGED <<truth, revision, announced, early, taskVars, slot, viewer, page, apiVars, links, stampVars>>

\* A view of all nodes is taken under the read locks of every shard, with the
\* revision: changes that have not raised it are in the view all the same.
Read == early' = [early EXCEPT !.read = @ \cup Unannounced]
ReadAndCompared == early' = [read |-> early.read \cup Unannounced,
                             compared |-> early.compared \cup Unannounced]

(***************************************************************************)
(* The diff task.                                                          *)
(***************************************************************************)

\* updates.recv: told of a change, or having missed signals.
Wake ==
    /\ task.step = "wait" /\ signal
    /\ signal' = FALSE
    /\ task' = [task EXCEPT !.dirty = TRUE]
    /\ UNCHANGED <<truth, revision, announced, writers, early, published, slot, viewer, page,
                   apiVars, links, stampVars>>

Later(a, b) == IF a >= b THEN a ELSE b

\* run_tick begins: what is published is raised before subscribers are counted.
\* A frame is at most a second old, so it outlives one tick and no second one.
Advances ==
    /\ task.step = "wait"
    /\ published' = Later(published, revision)
    /\ task' = [task EXCEPT !.step = "count"]
    /\ slot' = IF slot = NoFrame THEN slot ELSE [slot EXCEPT !.age = IF @ = 2 THEN 2 ELSE @ + 1]
    /\ UNCHANGED <<sourceVars, viewer, page, apiVars, links, stampVars>>

Subscribers == {b \in Browser : viewer[b].stage # "none"}

\* Without subscribers frame, baseline and mark are dropped.
Count ==
    /\ task.step = "count"
    /\ IF Subscribers = {} THEN task' = [task EXCEPT !.step = "drop"]
       ELSE IF task.dirty THEN task' = [task EXCEPT !.step = "diff"]
       ELSE task' = [task EXCEPT !.step = "wait"]
    /\ UNCHANGED <<sourceVars, published, slot, viewer, page, apiVars, links, stampVars>>

Drop ==
    /\ task.step = "drop"
    /\ slot' = NoFrame
    /\ task' = [task EXCEPT !.step = "wait", !.last = NoNodes, !.dirty = FALSE]
    /\ UNCHANGED <<sourceVars, published, viewer, page, apiVars, links, stampVars>>

\* diff_node_lists: new and changed rows, and those that went missing.
Differing(last, now) ==
    {n \in ViewNode : IF now[n].here THEN last[n] # now[n] ELSE last[n].here}

\* browser_snapshot begins: generated_at is taken before the shards are locked.
Stamp ==
    /\ task.step = "diff"
    /\ began' = clock
    /\ task' = [task EXCEPT !.step = "read"]
    /\ UNCHANGED <<sourceVars, published, slot, viewer, page, apiVars, links, clock, seen>>

Diff ==
    /\ task.step = "read"
    /\ task' = [task EXCEPT !.step = "publish", !.last = truth,
                            !.batch = [rev |-> revision, at |-> began,
                                       rows |-> Restrict(truth, Differing(task.last, truth))]]
    /\ began' = 0
    /\ ReadAndCompared
    /\ UNCHANGED <<truth, revision, announced, writers, signal, published, slot, viewer, page,
                   apiVars, links, clock, seen>>

\* A frame cannot be serialised: baseline and mark are kept for the next tick.
DiffFails ==
    /\ task.step = "read"
    /\ task' = [task EXCEPT !.step = "wait"]
    /\ began' = 0
    /\ UNCHANGED <<sourceVars, published, slot, viewer, page, apiVars, links, clock, seen>>

PublishBatch ==
    /\ task.step = "publish"
    /\ published' = Later(published, task.batch.rev)
    /\ task' = [task EXCEPT !.step = "send"]
    /\ UNCHANGED <<sourceVars, slot, viewer, page, apiVars, links, stampVars>>

\* The channel drops its oldest batch for a receiver that has not kept up.
Queued(s, batch) ==
    IF s.stage = "none" THEN s
    ELSE IF Len(s.queue) < LagCapacity THEN [s EXCEPT !.queue = Append(@, batch)]
    ELSE [s EXCEPT !.queue = Append(Tail(@), batch), !.lagged = TRUE]

SendBatch ==
    /\ task.step = "send"
    /\ viewer' = [b \in Browser |-> Queued(viewer[b], task.batch)]
    /\ task' = [task EXCEPT !.step = "wait", !.dirty = FALSE, !.batch = NoBatch]
    /\ UNCHANGED <<sourceVars, published, slot, page, apiVars, links, stampVars>>

(***************************************************************************)
(* Sessions of browsers.                                                   *)
(***************************************************************************)

Touched(poll) == IF poll.step = "none" THEN poll ELSE [poll EXCEPT !.aborted = TRUE]

\* WsClient.connect, on mount, when its timer fires, or when the tab is shown.
Attach(b) ==
    /\ page[b].link \in {"idle", "waiting"} /\ links < MaxLinks
    /\ page' = [page EXCEPT ![b].link = "connecting"]
    /\ links' = links + 1
    /\ UNCHANGED <<sourceVars, taskVars, slot, viewer, apiVars, stampVars>>

\* ws_browser_handler admits the page; its session begins by subscribing.
Admit(b) ==
    /\ page[b].link = "connecting" /\ viewer[b].stage = "none"
    /\ page' = [page EXCEPT ![b].link = "open"]
    /\ viewer' = [viewer EXCEPT ![b] = [Off EXCEPT !.stage = "subscribed"]]
    /\ UNCHANGED <<sourceVars, taskVars, slot, apiVars, links, stampVars>>

\* A foreign origin, missing or old credentials, no permit: no upgrade.
Refuse(b) ==
    /\ page[b].link = "connecting" /\ viewer[b].stage = "none"
    /\ page' = [page EXCEPT ![b].link = "waiting"]
    /\ UNCHANGED <<sourceVars, taskVars, slot, viewer, apiVars, links, stampVars>>

\* Whether a session may be given the shared frame: no older than what is
\* published, and of the last second.
AnyFrame == slot # NoFrame /\ slot.age <= 1
FreshFrame == AnyFrame /\ slot.rev >= published

\* InitialState replaces what the page shows whatever its stamp, and ends its poll.
Resynced(b, frame) ==
    /\ viewer' = [viewer EXCEPT ![b].stage = "live", ![b].base = frame.rev, ![b].lagged = FALSE]
    /\ page' = [page EXCEPT ![b].shows = frame.nodes, ![b].poll = Touched(@)]
    /\ seen' = [seen EXCEPT ![b] = [at |-> frame.at, missed |-> {}, due |-> frame.nodes]]

MustResync(b) ==
    \/ viewer[b].stage = "subscribed"
    \/ viewer[b].stage = "live" /\ viewer[b].lagged

\* browser_initial_state_frame, under the slot's lock: the shared frame...
SendShared(b) ==
    /\ MustResync(b) /\ FreshFrame
    /\ Resynced(b, slot)
    /\ UNCHANGED <<sourceVars, taskVars, slot, apiVars, links, clock, began>>

\* ...or one built now, for want of one or because a second has passed.
SendBuilt(b) ==
    /\ MustResync(b)
    /\ clock' = clock + 1
    /\ slot' = [rev |-> revision, nodes |-> truth, age |-> 0, at |-> clock + 1]
    /\ Resynced(b, slot')
    /\ Read
    /\ UNCHANGED <<truth, revision, announced, writers, signal, taskVars, apiVars, links, began>>

\* should_forward_incremental
ForwardsAll(batch, base) == TRUE
Forwards(batch, base) == batch.rev > base

\* The rows of a batch laid over a view.
Over(batch, view) == [n \in ViewNode |-> IF n \in DOMAIN batch.rows THEN batch.rows[n] ELSE view[n]]

\* upsertNode, removeNode: a row stamped before what the page has is dropped.
Takes(batch, at) == batch.at >= at

\* A live session takes the next batch: later than its baseline, it is sent on.
Forward(b) ==
    /\ viewer[b].stage = "live" /\ ~viewer[b].lagged /\ viewer[b].queue # <<>>
    /\ viewer' = [viewer EXCEPT ![b].queue = Tail(@)]
    /\ LET batch == Head(viewer[b].queue)
           sent == Forwards(batch, viewer[b].base) /\ DOMAIN batch.rows # {}
       IN  /\ page' = IF sent /\ Takes(batch, seen[b].at)
                      THEN [page EXCEPT ![b].shows = Over(batch, @), ![b].poll = Touched(@)]
                      ELSE page
           /\ seen' = IF ~sent THEN seen
                      ELSE [seen EXCEPT ![b] =
                              [at |-> Later(@.at, batch.at), due |-> Over(batch, @.due),
                               missed |-> IF @.at > batch.at THEN @.missed \cup DOMAIN batch.rows
                                          ELSE @.missed \ DOMAIN batch.rows]]
    /\ UNCHANGED <<sourceVars, taskVars, slot, apiVars, links, clock, began>>

\* Credentials or session revoked, shutdown, a closed or failed socket: the page
\* keeps what it shows, and connects again or, hidden, waits to be shown.
End(b, link) ==
    /\ viewer[b].stage # "none"
    /\ viewer' = [viewer EXCEPT ![b] = Off]
    /\ seen' = [seen EXCEPT ![b] = Unseen]
    /\ page' = [page EXCEPT ![b].link = link,
                            ![b].poll = IF link = "idle" THEN Touched(@) ELSE @]
    /\ UNCHANGED <<sourceVars, taskVars, slot, apiVars, links, clock, began>>

\* WsClient.handleVisibilityChange: a hidden page drops its attempt and its poll.
Hide(b) ==
    /\ page[b].link \in {"connecting", "waiting"}
    /\ page' = [page EXCEPT ![b].link = "idle", ![b].poll = Touched(@)]
    /\ UNCHANGED <<sourceVars, taskVars, slot, viewer, apiVars, links, stampVars>>

(***************************************************************************)
(* Polls of /api/nodes.                                                    *)
(***************************************************************************)

\* useRealtimeData.poll and cached_api_json_bytes: the revision is read first.
Ask(b) ==
    /\ page[b].poll.step = "none" /\ viewer[b].stage # "live" /\ page[b].link # "idle"
    /\ polls < MaxPolls
    /\ polls' = polls + 1
    /\ page' = [page EXCEPT ![b].poll = [step |-> "look", rev |-> revision, aborted |-> FALSE,
                                         body |-> NoNodes, since |-> announced]]
    /\ UNCHANGED <<sourceVars, taskVars, slot, viewer, cache, building, links, stampVars>>

AnswerWith(b, body) == page' = [page EXCEPT ![b].poll.step = "answer", ![b].poll.body = body]

\* The cached body of that revision, or the build lock.
Look(b) ==
    /\ page[b].poll.step = "look"
    /\ IF cache.rev = page[b].poll.rev THEN AnswerWith(b, cache.body)
       ELSE page' = [page EXCEPT ![b].poll.step = "lock"]
    /\ UNCHANGED <<sourceVars, taskVars, slot, viewer, apiVars, links, stampVars>>

\* With the lock the revision is read again, and the cache tried again.
LookAgain(b) ==
    /\ page[b].poll.step = "lock" /\ building = Nobody
    /\ IF cache.rev = revision THEN AnswerWith(b, cache.body) /\ UNCHANGED building
       ELSE /\ page' = [page EXCEPT ![b].poll.step = "build", ![b].poll.rev = revision]
            /\ building' = b
    /\ UNCHANGED <<sourceVars, taskVars, slot, viewer, cache, polls, links, stampVars>>

\* list_node_summaries_view, under the read locks.
Build(b) ==
    /\ page[b].poll.step = "build"
    /\ page' = [page EXCEPT ![b].poll.step = "store", ![b].poll.body = truth]
    /\ Read
    /\ UNCHANGED <<truth, revision, announced, writers, signal, taskVars, slot, viewer, apiVars,
                   links, stampVars>>

\* A body is kept for the revision it was begun at, if that still stands.
KeptAsLatest(poll) == [rev |-> revision, body |-> poll.body]
Kept(poll) == IF revision = poll.rev THEN [rev |-> poll.rev, body |-> poll.body] ELSE cache

Store(b) ==
    /\ page[b].poll.step = "store"
    /\ cache' = Kept(page[b].poll)
    /\ building' = Nobody
    /\ AnswerWith(b, page[b].poll.body)
    /\ UNCHANGED <<sourceVars, taskVars, slot, viewer, polls, links, stampVars>>

\* nodes.refresh: an answer is shown unless a frame came first.
ShowsAnyAnswer(poll) == TRUE
ShowsAnswer(poll) == ~poll.aborted

Answer(b) ==
    /\ page[b].poll.step = "answer"
    /\ page' = [page EXCEPT ![b].shows = IF ShowsAnswer(page[b].poll) THEN page[b].poll.body ELSE @,
                            ![b].poll = NoPoll]
    /\ UNCHANGED <<sourceVars, taskVars, slot, viewer, apiVars, links, stampVars>>

(***************************************************************************)
(* The specification.                                                      *)
(***************************************************************************)

ViewInit ==
    /\ truth = NoNodes /\ revision = 1 /\ announced = [n \in ViewNode |-> 0]
    /\ writers = [w \in Updater |-> [step |-> "idle", nodes |-> {}]]
    /\ early = [read |-> {}, compared |-> {}]
    /\ signal = FALSE
    /\ task = [step |-> "wait", dirty |-> FALSE, last |-> NoNodes, batch |-> NoBatch]
    /\ published = 0 /\ slot = NoFrame
    /\ viewer = [b \in Browser |-> Off]
    /\ page = [b \in Browser |-> [link |-> "idle", shows |-> NoNodes, poll |-> NoPoll]]
    /\ clock = 0 /\ began = 0 /\ seen = [b \in Browser |-> Unseen]
    /\ cache = [rev |-> 0, body |-> NoNodes] /\ building = Nobody
    /\ polls = 0 /\ links = 0

ViewNext ==
    \/ \E w \in Updater : \/ \E n \in ViewNode : Change(w, n) \/ RemoveNode(w, n) \/ Sweep(w, n)
                         \/ RaiseRevision(w)
                         \/ Notify(w)
    \/ Wake \/ Advances \/ Count \/ Drop \/ Stamp \/ Diff \/ DiffFails \/ PublishBatch \/ SendBatch
    \/ \E b \in Browser :
        \/ Attach(b) \/ Admit(b) \/ Refuse(b) \/ Hide(b) \/ SendShared(b) \/ SendBuilt(b) \/ Forward(b)
        \/ \E link \in {"waiting", "idle"} : End(b, link)
        \/ Ask(b) \/ Look(b) \/ LookAgain(b) \/ Build(b) \/ Store(b) \/ Answer(b)

ViewSpec == ViewInit /\ [][ViewNext]_viewVars

Nodes == [ViewNode -> [ver : 0..MaxEdits, here : BOOLEAN]]

\* The variables have the values the code can give them; the build lock is held
\* by the page whose request builds.
ViewTypeOK ==
    /\ truth \in Nodes /\ revision \in 1..(MaxEdits + 1)
    /\ announced \in [ViewNode -> 0..MaxEdits]
    /\ \A w \in Updater : writers[w].step \in {"idle", "changed", "bumped"} /\ writers[w].nodes \subseteq ViewNode
    /\ early.compared \subseteq early.read /\ early.read \subseteq ViewNode
    /\ signal \in BOOLEAN
    /\ task.step \in {"wait", "count", "drop", "diff", "read", "publish", "send"}
    /\ task.dirty \in BOOLEAN /\ task.last \in Nodes
    /\ published <= revision
    /\ slot # NoFrame => slot.nodes \in Nodes /\ slot.rev \in 1..revision
    /\ \A b \in Browser : /\ viewer[b].stage \in {"none", "subscribed", "live"}
                          /\ Len(viewer[b].queue) <= LagCapacity
                          /\ page[b].link \in {"idle", "waiting", "connecting", "open"}
                          /\ (page[b].link = "open") <=> (viewer[b].stage # "none")
                          /\ page[b].shows \in Nodes
                          /\ seen[b].at \in 0..clock /\ seen[b].missed \subseteq ViewNode
                          /\ seen[b].due \in Nodes
    /\ \A b \in Browser : (building = b) <=> (page[b].poll.step \in {"build", "store"})

\* Nothing is under way: every change is announced and was compared, and the page
\* has been sent all that was broadcast.
SettledStream(b) ==
    /\ \A w \in Updater : writers[w].step = "idle"
    /\ ~signal /\ task.step = "wait" /\ ~task.dirty
    /\ viewer[b].stage = "live" /\ ~viewer[b].lagged /\ viewer[b].queue = <<>>

\* Once all is quiet a page with a stream shows every listed node as it is: no
\* order of subscription, shared frame, lag, resynchronisation and ticks loses an
\* update.  Excepted are a node whose last change the diff task read before its
\* revision was raised, and a node whose row was stamped before the whole view the
\* page had by then, although read after it, until the page is sent the node again
\* (ws/browser.rs:98, state/browser_broadcast.rs:170, stores/nodes.ts:64).
SettledRowsAreCurrent ==
    \A b \in Browser : SettledStream(b) =>
        \A n \in ViewNode : truth[n].here /\ n \notin early.compared \cup seen[b].missed =>
            page[b].shows[n] = truth[n]

\* An answer of /api/nodes, cached or built, holds every change that was announced
\* before it was asked for (state.rs:554).
AnswersAreFresh ==
    \A b \in Browser : page[b].poll.step = "answer" =>
        \A n \in ViewNode : page[b].poll.body[n].ver >= page[b].poll.since[n]

\* Neither way a page learns of the nodes leaves it behind: the two above.
ViewsAreCurrent == SettledRowsAreCurrent /\ AnswersAreFresh

\* While it has its stream, what a page shows of a node never goes back to an
\* earlier state of it: not with a batch or a shared frame made before what it
\* has, and not with the answer of a poll begun before the stream.  Excepted are
\* nodes read before their revision was raised (ws/browser.rs:233, state/
\* browser_broadcast.rs:63, stores/nodes.ts:35).
StreamsMoveForward ==
    [][\A b \in Browser, n \in ViewNode :
        viewer[b].stage = "live" /\ n \notin early.read =>
            page'[b].shows[n].ver >= page[b].shows[n].ver]_viewVars

=============================================================================
