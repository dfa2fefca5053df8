------------------------------- MODULE Browser -------------------------------
(***************************************************************************)
(* The NomadNet page browser (apps/lxmfchat/src/net.rs): fetch a page over *)
(* an anonymous link, show it in the chat library's document view, keep a  *)
(* stack of pages to go back to.                                           *)
(*                                                                         *)
(* One BrowserState, behind one mutex, is shared by                        *)
(*   - the UI thread, which only leaves requests in it and reads it, goes  *)
(*     back, leaves the browser and resumes it;                            *)
(*   - the browser thread, which wakes once a second, watches the deadline *)
(*     and carries requests out;                                           *)
(*   - the readers, which handle link proofs, answers and closed links;    *)
(*     the hub's is the connection manager and ends fetches when the       *)
(*     connection drops.                                                   *)
(* A step is what a thread does between two acquisitions of a mutex that   *)
(* another thread can change something under.  What the chat server shows  *)
(* changes when it is told to: its queue is FIFO, and a question about the *)
(* document goes through that same queue.                                  *)
(*                                                                         *)
(* There is one node; a page is a path with its variables.  No one else    *)
(* opens a link to a node's page destination.  An answer does not say      *)
(* which request it is for; one that does not parse is as good as lost.    *)
(* Times are relative, as in Outbox.                                       *)
(***************************************************************************)
EXTENDS Integers, Sequences, SequencesExt

CONSTANTS
    Pages, NoPage,
    Readers,            \* the threads that run handle_frame ...
    Hub,                \* ... and the one among them that is the manager
    PAGE_DEADLINE_SECS, BROWSER_ROUTE_RETRY_SECS, BROWSER_ROUTE_TRIES,
    BACK_STACK_MAX,
    MaxLinks,           \* link ids, taken again when nothing refers to them
    MaxActs             \* bound on what the user does, plus losses, refusals,
                        \* lost connections and announces nobody asked for

ASSUME NoPageIsNone == NoPage \notin Pages
ASSUME BrowserTimes ==
    {PAGE_DEADLINE_SECS, BROWSER_ROUTE_RETRY_SECS, BROWSER_ROUTE_TRIES,
     BACK_STACK_MAX, MaxLinks} \subseteq Nat \ {0}
ASSUME BrowserThreads ==
    Readers \cap {"browser", "ui"} = {} /\ Hub \in Readers

VARIABLES
    b,          \* shared.browser; `node` is whether there is one, `links` the
                \* page the link table was made from
    screen,     \* the chat server's document, doc_staging and doc_suspended
    work,       \* what each thread is doing
    iface,      \* any_interface_up
    known,      \* transport: the node's key is known
    path,       \* transport: there is a route to it
    asked,      \* a path request is out
    pend,       \* transport: the link a LINKREQUEST is out for, 0 if none
    up,         \* transport: the established link to the node, 0 if none
    via,        \* the reader whose interface carries that link
    toNode,     \* requests on their way to the node
    fromNode,   \* its answers on their way to us, on the link that is up
    wanted,     \* ghost: the last request the user made, and whether another
                \* thread got between its steps (`mixed`)
    identified, \* ghost: the node was told on the link who we are
    orphan,     \* ghost: the fetch the link was for ended before the link came up
    crossed,    \* ghost: two threads have been at work at once
    acts

link == <<pend, up, via>>
route == <<iface, known, path, asked>>
net == <<toNode, fromNode>>
anon == <<identified, orphan>>
vars == <<b, screen, work, route, link, net, wanted, anon, crossed, acts>>

Threads == {"browser", "ui"} \cup Readers
Rest == [at |-> "rest", l |-> 0, page |-> NoPage]

\* Between looks, with nothing in hand that another thread could make stale.
Idling == {"rest", "retry", "lost"}
Crossing(th) == \E o \in Threads \ {th} : work[o].at \notin Idling
Step(th, w) ==
    /\ work' = [work EXCEPT ![th] = w]
    /\ crossed' = (crossed \/ (w.at \notin Idling /\ Crossing(th)))
At(th, s) == work[th].at = s
Goto(th, s) == Step(th, [work[th] EXCEPT !.at = s])
Done(th) == Step(th, Rest)

Event == acts < MaxActs /\ acts' = acts + 1

\* Link ids that nothing refers to: a link id is a hash and never comes again.
Unused == {l \in 1..MaxLinks :
    /\ l \notin {b.link, pend, up}
    /\ \A th \in Threads : work[th].l # l
    /\ \A i \in DOMAIN toNode : toNode[i].l # l}
NewLink == Unused # {} /\ pend' = CHOOSE l \in Unused : TRUE

\* A packet on link l goes out if the transport has the link.
Sent(l, req, page) ==
    toNode' = IF up = l THEN Append(toNode, [l |-> l, req |-> req, page |-> page])
              ELSE toNode

Init ==
    /\ b = [phase |-> "Idle", node |-> FALSE, page |-> NoPage, link |-> 0,
            receiver |-> NoPage, left |-> 0, requested |-> NoPage, wait |-> 0,
            route_tries |-> 0, current |-> NoPage, links |-> NoPage,
            pending_push |-> FALSE, pending_pop |-> FALSE, back |-> <<>>,
            viewing |-> FALSE]
    /\ screen = [document |-> NoPage, staging |-> NoPage, suspended |-> NoPage]
    /\ work = [th \in Threads |-> Rest]
    /\ iface = FALSE /\ known = FALSE /\ path = FALSE /\ asked = FALSE
    /\ pend = 0 /\ up = 0 /\ via = Hub /\ toNode = <<>> /\ fromNode = <<>>
    /\ wanted = [page |-> NoPage, push |-> FALSE, pop |-> FALSE, mixed |-> FALSE]
    /\ identified = FALSE /\ orphan = FALSE /\ crossed = FALSE
    /\ acts = 0

-----------------------------------------------------------------------------
(* The end of a fetch: browser_finish in whichever thread, browser_suspend *)
(* in the UI's.                                                            *)

NoFetch == [b EXCEPT !.phase = "Idle", !.node = FALSE, !.receiver = NoPage,
                     !.requested = NoPage, !.pending_push = FALSE,
                     !.pending_pop = FALSE, !.route_tries = 0, !.link = 0]
Orphaned == orphan \/ pend # 0 \/ \E r \in Readers : At(r, "proved")

\* start_fetch has taken the page out of the shared state; its flags are still
\* there, for any thread to change.
InHand == At("browser", "start") \/ At("browser", "begin")
MixedIf(c) == wanted' = [wanted EXCEPT !.mixed = @ \/ c]

Finish(th) ==
    /\ At(th, "finish")
    /\ b' = NoFetch /\ orphan' = Orphaned /\ MixedIf(InHand)
    /\ Step(th, [Rest EXCEPT !.at = "drop", !.l = b.link])
    /\ UNCHANGED <<screen, route, link, net, identified, acts>>

MutDropOutLink(th) ==
    /\ At(th, "drop")
    /\ IF th = "ui" THEN Goto("ui", "park") ELSE Done(th)
    /\ UNCHANGED <<b, screen, route, link, net, wanted, anon, acts>>

DropOutLink(th) ==
    /\ At(th, "drop")
    /\ IF work[th].l # 0 /\ work[th].l = up THEN up' = 0 /\ fromNode' = <<>>
                                            ELSE UNCHANGED <<up, fromNode>>
    /\ IF th = "ui" THEN Goto("ui", "park") ELSE Done(th)
    /\ UNCHANGED <<b, screen, route, pend, via, toNode, wanted, anon, acts>>

(* browser_send_request, in the browser thread or a reader.                *)

SetFetching(th) ==
    /\ At(th, "request")
    /\ b' = [b EXCEPT !.phase = "Fetching"]
    /\ Step(th, [work[th] EXCEPT !.at = "send", !.page = b.page])
    /\ UNCHANGED <<screen, route, link, net, wanted, anon, acts>>

\* The link may be gone by now, or the write fail.
SendRequest(th) ==
    /\ At(th, "send")
    /\ \/ /\ up = work[th].l /\ Sent(up, "page", work[th].page)
          /\ Done(th) /\ UNCHANGED acts
       \/ /\ Event \/ (up # work[th].l /\ UNCHANGED acts)
          /\ Goto(th, "finish") /\ UNCHANGED toNode
    /\ UNCHANGED <<b, screen, route, link, fromNode, wanted, anon>>

-----------------------------------------------------------------------------
(* The browser thread: a second passes and browser_tick looks around.  Its  *)
(* looks are one step: only this thread begins a fetch, and whatever it     *)
(* goes on to do looks again.                                               *)

Less(n) == IF n = 0 THEN 0 ELSE n - 1
Later == [b EXCEPT !.left = IF @ < 0 \/ b.phase = "Idle" THEN @ ELSE @ - 1,
                   !.wait = Less(@)]
Stalled == Later.phase # "Idle" /\ Later.left < 0

\* A stalled fetch ends; if it never had its link, the route goes first.
TickStalled ==
    /\ At("browser", "rest") /\ Stalled
    /\ b' = Later
    /\ Goto("browser", IF b.phase = "Linking" THEN "expire" ELSE "finish")
    /\ UNCHANGED <<screen, route, link, net, wanted, anon, acts>>

TickLinking ==
    /\ At("browser", "rest") /\ ~Stalled /\ b.phase = "Linking"
    /\ b' = Later
    /\ Goto("browser", "retry")
    /\ UNCHANGED <<screen, route, link, net, wanted, anon, acts>>

\* The request leaves the shared state and is in this thread's hands.
TickJob ==
    /\ At("browser", "rest") /\ b.phase # "Linking" /\ ~Stalled
    /\ IF b.phase = "Idle" /\ b.requested # NoPage /\ Later.wait = 0
       THEN /\ b' = [Later EXCEPT !.requested = NoPage]
            /\ Step("browser", [Rest EXCEPT !.at = "start", !.page = b.requested])
       ELSE b' = Later /\ Done("browser")
    /\ UNCHANGED <<screen, route, link, net, wanted, anon, acts>>

ExpirePath ==
    /\ At("browser", "expire")
    /\ path' = FALSE
    /\ Goto("browser", "finish")
    /\ UNCHANGED <<b, screen, iface, known, asked, link, net, wanted, anon, acts>>

\* send_link_request: nothing while one is pending or the link is up; a request
\* that could not be written is forgotten again and ends the fetch.
SendLinkRequest ==
    \/ /\ pend # 0 \/ up # 0
       /\ Done("browser") /\ UNCHANGED <<pend, orphan, acts>>
    \/ /\ pend = 0 /\ up = 0 /\ iface
       /\ NewLink /\ orphan' = ~b.node
       /\ Done("browser") /\ UNCHANGED acts
    \/ /\ pend = 0 /\ up = 0
       /\ Event \/ (~iface /\ UNCHANGED acts)
       /\ Goto("browser", "finish") /\ UNCHANGED <<pend, orphan>>

Retry ==
    /\ At("browser", "retry")
    /\ \/ known /\ SendLinkRequest
       \/ ~known /\ Done("browser") /\ UNCHANGED <<pend, orphan, acts>>
    /\ UNCHANGED <<b, screen, route, up, via, net, wanted, identified>>

(* The browser thread: start_fetch.                                        *)

Tries == b.route_tries + 1
MutRearm == [b EXCEPT !.requested = work["browser"].page,
                      !.wait = BROWSER_ROUTE_RETRY_SECS]
Rearm == [b EXCEPT !.route_tries = Tries, !.requested = work["browser"].page,
                   !.wait = BROWSER_ROUTE_RETRY_SECS]

\* Without interface, key or route the request is armed again, a bounded number
\* of times, and the network asked for the node.
StartFetch ==
    /\ At("browser", "start")
    /\ LET ready == iface /\ known /\ path
       IN  \/ ready /\ Goto("browser", "begin") /\ UNCHANGED <<b, asked>>
           \/ /\ ~ready /\ Tries > BROWSER_ROUTE_TRIES
              /\ b' = [b EXCEPT !.route_tries = Tries]
              /\ Goto("browser", "finish") /\ UNCHANGED asked
           \/ /\ ~ready /\ Tries <= BROWSER_ROUTE_TRIES
              /\ b' = Rearm /\ asked' = (asked \/ iface)
              /\ Done("browser")
    /\ UNCHANGED <<screen, iface, known, path, link, net, wanted, anon, acts>>

\* Whether the phase is still Idle, and whose flags these are, is not looked at.
BeginFetch ==
    /\ At("browser", "begin")
    /\ b' = [b EXCEPT !.phase = "Linking", !.node = TRUE,
                      !.page = work["browser"].page, !.receiver = NoPage,
                      !.left = PAGE_DEADLINE_SECS, !.link = 0,
                      !.route_tries = 0, !.wait = 0]
    /\ Goto("browser", "lookup")
    /\ UNCHANGED <<screen, route, link, net, wanted, anon, acts>>

\* A kept link is used at once, otherwise one is asked for.
Lookup ==
    /\ At("browser", "lookup")
    /\ IF up # 0 THEN Step("browser", [Rest EXCEPT !.at = "have", !.l = up])
                 ELSE Goto("browser", "ask")
    /\ UNCHANGED <<b, screen, route, link, net, wanted, anon, acts>>

UseLink ==
    /\ At("browser", "have")
    /\ b' = [b EXCEPT !.link = work["browser"].l]
    /\ Goto("browser", "request")
    /\ UNCHANGED <<screen, route, link, net, wanted, anon, acts>>

AskLink ==
    /\ At("browser", "ask") /\ SendLinkRequest
    /\ UNCHANGED <<b, screen, route, up, via, net, wanted, identified>>

-----------------------------------------------------------------------------
(* The readers.                                                            *)

LinkProof(r) ==
    /\ At(r, "rest") /\ pend # 0
    /\ up' = pend /\ pend' = 0 /\ via' = r /\ fromNode' = <<>>
    /\ identified' = FALSE
    /\ Step(r, [Rest EXCEPT !.at = "proved", !.l = pend])
    /\ UNCHANGED <<b, screen, route, toNode, wanted, orphan, acts>>

MutBrowserTargets == b.phase = "Fetching" /\ b.node
browser_targets == b.phase # "Idle" /\ b.node

\* A link the browser is not waiting for counts as one to a peer, who is told
\* who we are.
Identify(r) ==
    /\ At(r, "proved")
    /\ identified' = (identified \/ (up = work[r].l /\ ~browser_targets))
    /\ Goto(r, "linkup")
    /\ UNCHANGED <<b, screen, route, link, net, wanted, orphan, acts>>

OnLinkUp(r) ==
    /\ At(r, "linkup")
    /\ IF b.phase = "Linking" /\ b.node
       THEN b' = [b EXCEPT !.link = work[r].l] /\ Goto(r, "request")
       ELSE UNCHANGED b /\ Done(r)
    /\ UNCHANGED <<screen, route, link, net, wanted, anon, acts>>

\* The next packet on the link.  Data counts only on the link of a fetch that
\* has sent its request, and then puts off the deadline.
Receive(r) ==
    /\ At(r, "rest") /\ fromNode # <<>> /\ via = r
    /\ LET ans == Head(fromNode)
       IN  /\ ans.form # "close"
           /\ IF b.link = up /\ b.phase = "Fetching"
              THEN /\ b' = [b EXCEPT !.left = PAGE_DEADLINE_SECS]
                   /\ Step(r, [at |-> ans.form, l |-> up, page |-> ans.page])
              ELSE UNCHANGED b /\ Done(r)
    /\ fromNode' = Tail(fromNode)
    /\ UNCHANGED <<screen, route, link, toNode, wanted, anon, acts>>

\* The node closes the link: the fetch on it is over, a kept one is forgotten.
OutLinkClosed(r) ==
    /\ At(r, "rest") /\ fromNode # <<>> /\ via = r
    /\ Head(fromNode).form = "close"
    /\ up' = 0 /\ fromNode' = <<>>
    /\ \/ b.link # up /\ Done(r) /\ UNCHANGED b
       \/ b.link = up /\ b.phase # "Idle" /\ Goto(r, "finish") /\ UNCHANGED b
       \/ b.link = up /\ b.phase = "Idle" /\ Done(r) /\ b' = [b EXCEPT !.link = 0]
    /\ UNCHANGED <<screen, route, pend, via, toNode, wanted, anon, acts>>

\* The page comes as a Resource: it is accepted and its parts are asked for.
Advertised(r) ==
    /\ At(r, "adv")
    /\ \/ /\ b' = [b EXCEPT !.receiver = work[r].page]
          /\ Sent(work[r].l, "parts", work[r].page) /\ Done(r) /\ UNCHANGED acts
       \/ /\ Event /\ Goto(r, "finish") /\ UNCHANGED <<b, toNode>>
    /\ UNCHANGED <<screen, route, link, fromNode, wanted, anon>>

\* The last part.  The mutex is released between completing, decrypting,
\* checking and dropping the receiver, which may be gone at each.
AssemblePage(r) ==
    /\ At(r, "part")
    /\ \/ b.receiver = NoPage /\ Done(r)
       \/ b.receiver # NoPage /\ up # work[r].l /\ Goto(r, "finish")
       \/ b.receiver # NoPage /\ up = work[r].l /\ Goto(r, "verify")
    /\ UNCHANGED <<b, screen, route, link, net, wanted, anon, acts>>

VerifyPage(r) ==
    /\ At(r, "verify")
    /\ \/ b.receiver = NoPage /\ Done(r) /\ UNCHANGED acts
       \/ /\ b.receiver # NoPage /\ UNCHANGED acts
          /\ Step(r, [work[r] EXCEPT !.at = "clear", !.page = b.receiver])
       \/ b.receiver # NoPage /\ Event /\ Goto(r, "finish")
    /\ UNCHANGED <<b, screen, route, link, net, wanted, anon>>

ClearReceiver(r) ==
    /\ At(r, "clear")
    /\ b' = [b EXCEPT !.receiver = NoPage]
    /\ Goto(r, "packet")
    /\ UNCHANGED <<screen, route, link, net, wanted, anon, acts>>

\* page_received, up to the update of the state.  An error ends the fetch; a
\* page is shown under whichever address is being fetched now.
Pushed(old, page) ==
    LET back == Append(old, page)
    IN  IF page = NoPage THEN old
        ELSE IF Len(back) > BACK_STACK_MAX THEN Tail(back) ELSE back
Popped(old) == IF old = <<>> THEN old ELSE Front(old)

History(push, pop) ==
    LET back == IF push THEN Pushed(b.back, b.current) ELSE b.back
    IN  IF pop THEN Popped(back) ELSE back

MutRendered(r) == [b EXCEPT !.phase = "Idle", !.node = FALSE, !.receiver = NoPage,
                            !.back = History(b.pending_push, FALSE),
                            !.pending_push = FALSE, !.pending_pop = FALSE,
                            !.current = b.page, !.page = NoPage,
                            !.links = work[r].page, !.viewing = TRUE]
Rendered(r) == [b EXCEPT !.phase = "Idle", !.node = FALSE, !.receiver = NoPage,
                         !.back = History(b.pending_push, b.pending_pop),
                         !.pending_push = FALSE, !.pending_pop = FALSE,
                         !.current = b.page, !.page = NoPage,
                         !.links = work[r].page, !.viewing = TRUE]

PageReceived(r) ==
    /\ At(r, "packet")
    /\ \/ work[r].page = NoPage /\ Goto(r, "finish") /\ UNCHANGED <<b, wanted, orphan>>
       \/ work[r].page # NoPage /\ ~b.node /\ Done(r) /\ UNCHANGED <<b, wanted, orphan>>
       \/ /\ work[r].page # NoPage /\ b.node
          /\ b' = Rendered(r) /\ orphan' = Orphaned /\ MixedIf(At("ui", "pop"))
          /\ Goto(r, "stage")
    /\ UNCHANGED <<screen, route, link, net, identified, acts>>

DocumentBegin(r) ==
    /\ At(r, "stage")
    /\ screen' = [screen EXCEPT !.staging = work[r].page]
    /\ Goto(r, "show")
    /\ UNCHANGED <<b, route, link, net, wanted, anon, acts>>

DocumentShow(r) ==
    /\ At(r, "show")
    /\ screen' = IF screen.staging = NoPage THEN screen
                 ELSE [document |-> screen.staging, staging |-> NoPage,
                       suspended |-> NoPage]
    /\ Done(r)
    /\ UNCHANGED <<b, route, link, net, wanted, anon, acts>>

-----------------------------------------------------------------------------
(* The connection manager.                                                 *)

ConnectionLost ==
    /\ At(Hub, "rest") /\ iface /\ Event
    /\ iface' \in BOOLEAN
    /\ pend' = 0 /\ up' = 0 /\ fromNode' = <<>>
    /\ Goto(Hub, "lost")
    /\ UNCHANGED <<b, screen, known, path, asked, via, toNode, wanted, anon>>

EndFetch ==
    /\ At(Hub, "lost")
    /\ IF b.phase # "Idle" THEN Goto(Hub, "finish") /\ UNCHANGED b
       ELSE Done(Hub) /\ b' = [b EXCEPT !.link = 0]
    /\ UNCHANGED <<screen, route, link, net, wanted, anon, acts>>

Connect ==
    /\ At(Hub, "rest") /\ ~iface
    /\ iface' = TRUE
    /\ UNCHANGED <<b, screen, work, known, path, asked, link, net, wanted, anon,
                   crossed, acts>>

-----------------------------------------------------------------------------
(* The UI thread.                                                          *)

\* request_page: refused while a fetch is under way.
Accept(page, push, pop) ==
    /\ b.phase = "Idle"
    /\ b' = [b EXCEPT !.requested = page, !.pending_push = push,
                      !.pending_pop = FALSE, !.wait = 0, !.route_tries = 0]
    /\ wanted' = [page |-> page, push |-> push, pop |-> pop,
                  mixed |-> InHand \/ (pop /\ (b.back = <<>> \/ page # Last(b.back)))]

\* From a menu, a URL or a followed link; a reload and a node picked from the
\* list do not push.
OpenPage(page, push) ==
    /\ At("ui", "rest") /\ Event
    /\ Accept(page, push, FALSE)
    /\ crossed' = (crossed \/ Crossing("ui"))
    /\ UNCHANGED <<screen, work, route, link, net, anon>>

\* browser_back: look at the top entry, request it, and say that it is to be
\* popped, with the lock taken anew for each.
PeekBack ==
    /\ At("ui", "rest") /\ b.viewing /\ b.back # <<>> /\ Event
    /\ Step("ui", [Rest EXCEPT !.at = "back", !.page = Last(b.back)])
    /\ UNCHANGED <<b, screen, route, link, net, wanted, anon>>

RequestBack ==
    /\ At("ui", "back")
    /\ \/ Accept(work["ui"].page, FALSE, TRUE) /\ Goto("ui", "pop")
       \/ b.phase # "Idle" /\ Done("ui") /\ UNCHANGED <<b, wanted>>
    /\ UNCHANGED <<screen, route, link, net, anon, acts>>

MarkPop ==
    /\ At("ui", "pop")
    /\ b' = [b EXCEPT !.pending_pop = TRUE]
    /\ Done("ui")
    /\ UNCHANGED <<screen, route, link, net, wanted, anon, acts>>

\* browser_suspend: page, history and link table stay for a later resume.
Suspend ==
    /\ At("ui", "rest") /\ b.viewing /\ Event
    /\ b' = [NoFetch EXCEPT !.viewing = FALSE] /\ orphan' = Orphaned
    /\ MixedIf(InHand)
    /\ Step("ui", [Rest EXCEPT !.at = "drop", !.l = b.link])
    /\ UNCHANGED <<screen, route, link, net, identified>>

DocumentSuspend ==
    /\ At("ui", "park")
    /\ screen' = [screen EXCEPT !.document = NoPage, !.staging = NoPage,
                                !.suspended = IF screen.document = NoPage THEN @
                                              ELSE screen.document]
    /\ Done("ui")
    /\ UNCHANGED <<b, route, link, net, wanted, anon, acts>>

\* The main menu can only be raised over the chat.
RaiseMenu ==
    /\ At("ui", "rest") /\ screen.document = NoPage /\ Event
    /\ Goto("ui", "menu")
    /\ UNCHANGED <<b, screen, route, link, net, wanted, anon>>

\* browser_resume, when "Browser" is chosen: nothing without a current page;
\* without a suspended document the rest of the session goes as well.
DocumentResume ==
    /\ At("ui", "menu")
    /\ \/ b.current = NoPage /\ Done("ui") /\ UNCHANGED screen
       \/ /\ b.current # NoPage /\ screen.suspended # NoPage
          /\ screen' = [screen EXCEPT !.document = screen.suspended,
                                      !.suspended = NoPage]
          /\ Goto("ui", "view")
       \/ /\ b.current # NoPage /\ screen.suspended = NoPage
          /\ Goto("ui", "forget") /\ UNCHANGED screen
    /\ UNCHANGED <<b, route, link, net, wanted, anon, acts>>

Resumed ==
    /\ \/ /\ At("ui", "view") /\ b' = [b EXCEPT !.viewing = TRUE]
          /\ UNCHANGED wanted
       \/ /\ At("ui", "forget") /\ MixedIf(TRUE)
          /\ b' = [b EXCEPT !.current = NoPage, !.back = <<>>, !.links = NoPage]
    /\ Done("ui")
    /\ UNCHANGED <<screen, route, link, net, anon, acts>>

-----------------------------------------------------------------------------
(* The network and the node.                                               *)

Announce ==
    /\ iface
    /\ Event \/ (asked /\ UNCHANGED acts)
    /\ known' = TRUE /\ path' = TRUE /\ asked' = FALSE
    /\ UNCHANGED <<b, screen, work, iface, link, net, wanted, anon, crossed>>

\* A request for a link, or its proof, is lost and expires; a link goes idle or
\* is evicted; the transport evicts the node's key or route; a packet is lost.
Lose ==
    /\ Event
    /\ \/ known /\ known' = FALSE /\ UNCHANGED <<path, pend, up, net>>
       \/ path /\ path' = FALSE /\ UNCHANGED <<known, pend, up, net>>
       \/ pend # 0 /\ pend' = 0 /\ UNCHANGED <<known, path, up, net>>
       \/ up # 0 /\ up' = 0 /\ fromNode' = <<>> /\ UNCHANGED <<known, path, pend, toNode>>
       \/ toNode # <<>> /\ toNode' = Tail(toNode) /\ UNCHANGED <<known, path, pend, up, fromNode>>
       \/ fromNode # <<>> /\ fromNode' = Tail(fromNode) /\ UNCHANGED <<known, path, pend, up, toNode>>
    /\ UNCHANGED <<b, screen, work, iface, asked, via, wanted, anon, crossed>>

\* The node answers on the link the request came by, if we still know it; a
\* small page in one packet, a large one as a Resource.
NodeServes ==
    /\ toNode # <<>> /\ toNode' = Tail(toNode)
    /\ LET q == Head(toNode)
           Answer(form, page) ==
               fromNode' = IF up = q.l
                           THEN Append(fromNode, [form |-> form, page |-> page])
                           ELSE fromNode
       IN  \/ /\ q.req = "page" /\ UNCHANGED acts
              /\ \E form \in {"packet", "adv"} : Answer(form, q.page)
           \/ q.req = "parts" /\ Answer("part", q.page) /\ UNCHANGED acts
           \/ Event /\ (Answer("packet", NoPage) \/ Answer("close", NoPage))
    /\ UNCHANGED <<b, screen, work, route, link, wanted, anon, crossed>>

BrowserStep ==
    \/ TickStalled \/ TickLinking \/ TickJob \/ ExpirePath \/ Retry
    \/ StartFetch \/ BeginFetch \/ Lookup \/ UseLink \/ AskLink
ReaderStep(r) ==
    \/ Identify(r) \/ OnLinkUp(r) \/ Advertised(r) \/ AssemblePage(r)
    \/ VerifyPage(r) \/ ClearReceiver(r) \/ PageReceived(r)
    \/ DocumentBegin(r) \/ DocumentShow(r)
UiStep == RequestBack \/ MarkPop \/ DocumentSuspend \/ DocumentResume \/ Resumed
AnyThread(th) ==
    Finish(th) \/ DropOutLink(th) \/ SetFetching(th) \/ SendRequest(th)

Next ==
    \/ BrowserStep \/ UiStep
    \/ \E th \in Threads : AnyThread(th)
    \/ \E r \in Readers : \/ ReaderStep(r)
                          \/ LinkProof(r) \/ Receive(r) \/ OutLinkClosed(r)
    \/ ConnectionLost \/ EndFetch \/ Connect
    \/ \E page \in Pages, push \in BOOLEAN : OpenPage(page, push)
    \/ PeekBack \/ Suspend \/ RaiseMenu
    \/ Announce \/ Lose \/ NodeServes

Spec == Init /\ [][Next]_vars

\* The browser thread keeps running and time passes; nothing is assumed of the
\* other threads, the user or the network.
FairSpec == Spec /\ WF_vars(BrowserStep \/ AnyThread("browser"))

-----------------------------------------------------------------------------
AtRest == \A th \in Threads : At(th, "rest")

\* What is on screen is the page whose address and links the browser goes by,
\* and the browser's keys are bound exactly while it is there; off screen, the
\* page waits where browser_resume will look for it.  Claimed only while no two
\* threads were ever at work at once (`crossed`): the state and the screen are
\* changed under different locks, and after an overlap they may disagree.
ScreenIsTrue ==
    AtRest /\ ~crossed =>
        /\ b.links = b.current
        /\ screen.document = IF b.viewing THEN b.current ELSE NoPage
        /\ screen.suspended = IF b.viewing THEN NoPage ELSE b.current

\* The address shown is the one last asked for, and the history becomes what
\* that request meant, whatever overlaps: failed fetches, retries, lost
\* connections and late answers in between leave no trace on it.  Excepted are
\* the requests another thread got between the steps of (`mixed`):
\*  - the browser thread was starting an earlier request when this one came, or
\*    when a fetch was ended or the browser left: the flags are then not those of
\*    the page it carries;
\*  - the page came before browser_back had said that it is to be popped, or the
\*    history had moved on since browser_back looked at it;
\*  - browser_resume found no parked document and dropped the session.
\* An exception lasts until the next request that is not itself disturbed.
HistoryAsWanted ==
    [][\/ UNCHANGED <<b.current, b.back>>
       \/ wanted'.mixed
       \/ /\ b'.current = wanted.page
          /\ b'.back = History(wanted.push, wanted.pop)
          /\ wanted.pop => wanted.page = Last(b.back)]_vars

\* The node learns who we are only on a link whose fetch had already ended when
\* the link came up.
AnonymousUnlessOrphaned == up # 0 /\ identified => orphan

\* A fetch, asked for or under way, comes to its end whatever the network does
\* and however often start_fetch arms the request again.
EveryFetchEnds ==
    b.requested # NoPage \/ b.phase # "Idle"
        ~> b.requested = NoPage /\ b.phase = "Idle" /\ At("browser", "rest")
=============================================================================
