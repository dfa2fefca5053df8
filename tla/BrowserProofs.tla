---------------------------- MODULE BrowserProofs ----------------------------
(***************************************************************************)
(* Proofs about the page browser, for every number of readers, pages, links *)
(* and tries.                                                              *)
(*                                                                         *)
(*   - AnonymousUnlessOrphanedHolds: the node learns who we are only on a   *)
(*     link whose fetch was over before the link came up.                  *)
(*   - ScreenIsTrueHolds: between two pieces of work the screen shows what  *)
(*     the browser's state says it shows.                                  *)
(*   - HistoryAsWantedHolds: the history changes as the last request that   *)
(*     was accepted meant it to.                                           *)
(*                                                                         *)
(* Base holds the shape of the state.  AnonInv is about the link alone and  *)
(* WantInv about the request alone (the one that is armed, in hand or being *)
(* fetched is the last one accepted): both hold whatever threads cross.     *)
(* The screen needs that threads took turns: FlowInv (what is under way on  *)
(* the link of a fetch is about the page being fetched) and, on top of it,  *)
(* DocInv (screen and state agree up to the step a thread is about to       *)
(* take).                                                                  *)
(***************************************************************************)
EXTENDS Browser, SequenceTheorems, TLAPS

-----------------------------------------------------------------------------
(* The shape of the state: records with their fields, and the links named.  *)

Fields == {"phase", "node", "page", "link", "receiver", "left", "requested", "wait",
           "route_tries", "current", "links", "pending_push", "pending_pop", "back", "viewing"}
IsWork(w) == w = [at |-> w.at, l |-> w.l, page |-> w.page]
OnLink == {"proved", "linkup", "have", "request", "send", "packet", "adv", "part", "verify",
           "clear"}

Shape ==
    /\ DOMAIN b = Fields /\ b.node \in BOOLEAN
    /\ DOMAIN screen = {"document", "staging", "suspended"}
    /\ wanted = [page |-> wanted.page, push |-> wanted.push, pop |-> wanted.pop,
                 mixed |-> wanted.mixed]
    /\ wanted.mixed \in BOOLEAN
    /\ orphan \in BOOLEAN /\ identified \in BOOLEAN

Working ==
    /\ work = [th \in Threads |-> work[th]] /\ crossed \in BOOLEAN
    /\ \A th \in Threads : IsWork(work[th])
    /\ \A th \in Threads : work[th].at \in OnLink => work[th].l # 0

LEMMA ThreadsExist ==
    /\ "browser" \in Threads /\ "ui" \in Threads /\ Hub \in Threads /\ Hub \in Readers
    /\ "browser" # "ui" /\ Hub # "ui" /\ Hub # "browser"
    /\ \A r \in Readers : r \in Threads /\ r # "ui" /\ r # "browser"
    /\ \A th \in Threads : th \in Readers \/ th = "browser" \/ th = "ui"
BY BrowserThreads DEF Threads

\* Thread th goes on with w, and nobody else moves.
Moved(th, w) ==
    /\ work' = [o \in Threads |-> work'[o]]
    /\ IsWork(w) /\ work'[th] = w
    /\ \A o \in Threads : o # th => work'[o] = work[o]
    /\ crossed' = (crossed \/ (w.at \notin Idling /\ Crossing(th)))

LEMMA StepMoves ==
    ASSUME Working, NEW th \in Threads, NEW w, IsWork(w), Step(th, w)
    PROVE  Moved(th, w)
BY DEF Working, Step, Moved

LEMMA GotoMoves ==
    ASSUME Working, NEW th \in Threads, NEW s, Goto(th, s)
    PROVE  \E w : /\ Moved(th, w)
                  /\ w.at = s /\ w.l = work[th].l /\ w.page = work[th].page
<1> DEFINE w == [work[th] EXCEPT !.at = s]
<1>1. IsWork(work[th])  BY DEF Working
<1>2. IsWork(w) /\ w.at = s /\ w.l = work[th].l /\ w.page = work[th].page
  BY <1>1 DEF IsWork
<1>3. Step(th, w)  BY DEF Goto
<1> HIDE DEF w
<1> QED BY <1>2, <1>3, StepMoves

LEMMA RestWork ==
    /\ IsWork(Rest) /\ Rest.at = "rest" /\ Rest.l = 0 /\ Rest.page = NoPage
    /\ "rest" \in Idling /\ "rest" \notin OnLink
BY DEF Rest, IsWork, Idling, OnLink

LEMMA DoneMoves ==
    ASSUME Working, NEW th \in Threads, Done(th)
    PROVE  Moved(th, Rest) /\ crossed' = crossed
<1>1. Moved(th, Rest)  BY RestWork, StepMoves DEF Done
<1>2. crossed' = crossed  BY <1>1, RestWork DEF Moved, Working
<1> QED BY <1>1, <1>2

\* A thread that sets out with a link or a page in hand.
LEMMA RestLink ==
    ASSUME NEW s, NEW l
    PROVE  LET w == [Rest EXCEPT !.at = s, !.l = l]
           IN  IsWork(w) /\ w.at = s /\ w.l = l /\ w.page = NoPage
<1> DEFINE w == [Rest EXCEPT !.at = s, !.l = l]
<1>1. w = [[Rest EXCEPT !.at = s] EXCEPT !.l = l]  OBVIOUS
<1> HIDE DEF w
<1>2. w = [at |-> s, l |-> l, page |-> NoPage]  BY <1>1 DEF Rest
<1>3. IsWork(w) /\ w.at = s /\ w.l = l /\ w.page = NoPage  BY <1>2 DEF IsWork
<1> QED BY <1>3 DEF w

LEMMA RestPage ==
    ASSUME NEW s, NEW p
    PROVE  LET w == [Rest EXCEPT !.at = s, !.page = p]
           IN  IsWork(w) /\ w.at = s /\ w.l = 0 /\ w.page = p
<1> DEFINE w == [Rest EXCEPT !.at = s, !.page = p]
<1>1. w = [[Rest EXCEPT !.at = s] EXCEPT !.page = p]  OBVIOUS
<1> HIDE DEF w
<1>2. w = [at |-> s, l |-> 0, page |-> p]  BY <1>1 DEF Rest
<1>3. IsWork(w) /\ w.at = s /\ w.l = 0 /\ w.page = p  BY <1>2 DEF IsWork
<1> QED BY <1>3 DEF w

LEMMA FinishMoves ==
    ASSUME Working, NEW th \in Threads, Finish(th)
    PROVE  \E w : Moved(th, w) /\ w.at = "drop" /\ w.l = b.link
<1> DEFINE w == [Rest EXCEPT !.at = "drop", !.l = b.link]
<1>0. th \in Threads  BY ThreadsExist
<1>2. IsWork(w) /\ w.at = "drop" /\ w.l = b.link  BY RestLink
<1>3. Step(th, w)  BY DEF Finish
<1> HIDE DEF w
<1> QED BY <1>0, <1>2, <1>3, StepMoves

LEMMA FetchingMoves ==
    ASSUME Working, NEW th \in Threads, SetFetching(th)
    PROVE  \E w : Moved(th, w) /\ w.at = "send" /\ w.l = work[th].l /\ w.page = b.page
<1> DEFINE w == [work[th] EXCEPT !.at = "send", !.page = b.page]
<1>0. th \in Threads  BY ThreadsExist
<1>1. IsWork(work[th])  BY <1>0 DEF Working
<1>3. Step(th, w)  BY DEF SetFetching
<1>4. w = [[work[th] EXCEPT !.at = "send"] EXCEPT !.page = b.page]  OBVIOUS
<1> HIDE DEF w
<1>5. w = [at |-> "send", l |-> work[th].l, page |-> b.page]  BY <1>1, <1>4 DEF IsWork
<1>2. IsWork(w) /\ w.at = "send" /\ w.l = work[th].l /\ w.page = b.page  BY <1>5 DEF IsWork
<1> QED BY <1>0, <1>2, <1>3, StepMoves

LEMMA LookupMoves ==
    ASSUME Working, Lookup, up # 0
    PROVE  \E w : Moved("browser", w) /\ w.at = "have" /\ w.l = up
<1> DEFINE w == [Rest EXCEPT !.at = "have", !.l = up]
<1>0. "browser" \in Threads  BY ThreadsExist
<1>2. IsWork(w) /\ w.at = "have" /\ w.l = up  BY RestLink
<1>3. Step("browser", w)  BY DEF Lookup
<1> HIDE DEF w
<1> QED BY <1>0, <1>2, <1>3, StepMoves

LEMMA LinkProofMoves ==
    ASSUME Working, NEW r \in Readers, LinkProof(r)
    PROVE  \E w : Moved(r, w) /\ w.at = "proved" /\ w.l = pend
<1> DEFINE w == [Rest EXCEPT !.at = "proved", !.l = pend]
<1>0. r \in Threads  BY ThreadsExist
<1>2. IsWork(w) /\ w.at = "proved" /\ w.l = pend  BY RestLink
<1>3. Step(r, w)  BY DEF LinkProof
<1> HIDE DEF w
<1> QED BY <1>0, <1>2, <1>3, StepMoves

LEMMA PeekMoves ==
    ASSUME Working, PeekBack
    PROVE  \E w : Moved("ui", w) /\ w.at = "back" /\ w.l = 0 /\ w.page = Last(b.back)
<1> DEFINE w == [Rest EXCEPT !.at = "back", !.page = Last(b.back)]
<1>0. "ui" \in Threads  BY ThreadsExist
<1>2. IsWork(w) /\ w.at = "back" /\ w.l = 0 /\ w.page = Last(b.back)  BY RestPage
<1>3. Step("ui", w)  BY DEF PeekBack
<1> HIDE DEF w
<1> QED BY <1>0, <1>2, <1>3, StepMoves

LEMMA SuspendMoves ==
    ASSUME Working, Suspend
    PROVE  \E w : Moved("ui", w) /\ w.at = "drop" /\ w.l = b.link
<1> DEFINE w == [Rest EXCEPT !.at = "drop", !.l = b.link]
<1>0. "ui" \in Threads  BY ThreadsExist
<1>2. IsWork(w) /\ w.at = "drop" /\ w.l = b.link  BY RestLink
<1>3. Step("ui", w)  BY DEF Suspend
<1> HIDE DEF w
<1> QED BY <1>0, <1>2, <1>3, StepMoves

LEMMA JobMoves ==
    ASSUME Working, Step("browser", [Rest EXCEPT !.at = "start", !.page = b.requested])
    PROVE  \E w : Moved("browser", w) /\ w.at = "start" /\ w.l = 0 /\ w.page = b.requested
<1> DEFINE w == [Rest EXCEPT !.at = "start", !.page = b.requested]
<1>1. IsWork(w) /\ w.at = "start" /\ w.l = 0 /\ w.page = b.requested  BY RestPage
<1>2. Step("browser", w)  OBVIOUS
<1> HIDE DEF w
<1> QED BY <1>1, <1>2, StepMoves, ThreadsExist

LEMMA VerifyMoves ==
    ASSUME Working, NEW r \in Readers,
           Step(r, [work[r] EXCEPT !.at = "clear", !.page = b.receiver])
    PROVE  \E w : Moved(r, w) /\ w.at = "clear" /\ w.l = work[r].l /\ w.page = b.receiver
<1> DEFINE w == [work[r] EXCEPT !.at = "clear", !.page = b.receiver]
<1>0. r \in Threads  BY ThreadsExist
<1>1. IsWork(work[r])  BY <1>0 DEF Working
<1>3. Step(r, w)  OBVIOUS
<1>4. w = [[work[r] EXCEPT !.at = "clear"] EXCEPT !.page = b.receiver]  OBVIOUS
<1> HIDE DEF w
<1>5. w = [at |-> "clear", l |-> work[r].l, page |-> b.receiver]  BY <1>1, <1>4 DEF IsWork
<1>2. IsWork(w) /\ w.at = "clear" /\ w.l = work[r].l /\ w.page = b.receiver  BY <1>5 DEF IsWork
<1> QED BY <1>0, <1>2, <1>3, StepMoves

-----------------------------------------------------------------------------
(* What the steps that change several fields do to the shared state.       *)

LEMMA NoFetchFields ==
    ASSUME DOMAIN b = Fields
    PROVE  /\ DOMAIN NoFetch = Fields
           /\ NoFetch.phase = "Idle" /\ NoFetch.node = FALSE /\ NoFetch.receiver = NoPage
           /\ NoFetch.requested = NoPage /\ NoFetch.link = 0
           /\ NoFetch.page = b.page /\ NoFetch.current = b.current /\ NoFetch.links = b.links
           /\ NoFetch.back = b.back /\ NoFetch.viewing = b.viewing
BY DEF NoFetch, Fields

LEMMA LaterFields ==
    ASSUME DOMAIN b = Fields
    PROVE  /\ DOMAIN Later = Fields
           /\ \A f \in Fields \ {"left", "wait"} : Later[f] = b[f]
BY DEF Later, Fields

LEMMA RenderedFields ==
    ASSUME DOMAIN b = Fields, NEW r
    PROVE  /\ DOMAIN Rendered(r) = Fields
           /\ Rendered(r).phase = "Idle" /\ Rendered(r).node = FALSE
           /\ Rendered(r).receiver = NoPage /\ Rendered(r).requested = b.requested
           /\ Rendered(r).link = b.link
           /\ Rendered(r).current = b.page /\ Rendered(r).links = work[r].page
           /\ Rendered(r).viewing = TRUE
           /\ Rendered(r).back = History(b.pending_push, b.pending_pop)
BY DEF Rendered, Fields

LEMMA BeginFields ==
    ASSUME DOMAIN b = Fields, BeginFetch
    PROVE  /\ DOMAIN b' = Fields
           /\ b'.phase = "Linking" /\ b'.node = TRUE /\ b'.page = work["browser"].page
           /\ b'.receiver = NoPage /\ b'.link = 0
           /\ \A f \in {"requested", "current", "links", "pending_push", "pending_pop",
                        "back", "viewing"} : b'[f] = b[f]
BY DEF BeginFetch, Fields

LEMMA AcceptFields ==
    ASSUME DOMAIN b = Fields, NEW page, NEW push, NEW pop, Accept(page, push, pop)
    PROVE  /\ DOMAIN b' = Fields /\ b.phase = "Idle"
           /\ b'.requested = page /\ b'.pending_push = push /\ b'.pending_pop = FALSE
           /\ \A f \in {"phase", "node", "page", "link", "receiver", "current", "links",
                        "back", "viewing"} : b'[f] = b[f]
BY DEF Accept, Fields

\* Only the fields in S change.
Changes(S) == DOMAIN b' = Fields /\ \A f \in Fields \ S : b'[f] = b[f]

LEMMA ChangesAny ==
    ASSUME Shape, NEW th \in Threads
    PROVE  /\ DropOutLink(th) \/ SendRequest(th) => Changes({})
           /\ SetFetching(th) => Changes({"phase"}) /\ b'.phase = "Fetching"
<1>1. DOMAIN b = Fields  BY DEF Shape
<1>2. ASSUME SetFetching(th) PROVE Changes({"phase"}) /\ b'.phase = "Fetching"
  BY <1>1, <1>2 DEF SetFetching, Changes, Fields
<1> QED BY <1>1, <1>2 DEF DropOutLink, SendRequest, Changes

LEMMA ChangesBrowser ==
    ASSUME Shape
    PROVE  /\ TickStalled \/ TickLinking => Changes({"left", "wait"})
           /\ TickJob =>
                 \/ Changes({"left", "wait"}) /\ Done("browser")
                 \/ /\ Changes({"left", "wait", "requested"}) /\ b'.requested = NoPage
                    /\ Step("browser", [Rest EXCEPT !.at = "start", !.page = b.requested])
                    /\ b.phase = "Idle" /\ b.requested # NoPage
           /\ ExpirePath \/ Retry \/ Lookup \/ AskLink => Changes({})
           /\ StartFetch =>
                 \/ Changes({"route_tries"}) /\ (Goto("browser", "begin") \/ Goto("browser", "finish"))
                 \/ /\ Changes({"route_tries", "requested", "wait"})
                    /\ b'.requested = work["browser"].page /\ Done("browser")
           /\ UseLink => Changes({"link"}) /\ b'.link = work["browser"].l
<1>1. DOMAIN b = Fields  BY DEF Shape
<1>2. /\ DOMAIN Later = Fields
      /\ \A f \in Fields \ {"left", "wait"} : Later[f] = b[f]
  BY <1>1, LaterFields
<1>3. ASSUME TickStalled \/ TickLinking PROVE Changes({"left", "wait"})
  BY <1>2, <1>3 DEF TickStalled, TickLinking, Changes
<1> DEFINE w == [Rest EXCEPT !.at = "start", !.page = b.requested]
<1>4. ASSUME TickJob
      PROVE  \/ Changes({"left", "wait"}) /\ Done("browser")
             \/ /\ Changes({"left", "wait", "requested"}) /\ b'.requested = NoPage
                /\ Step("browser", w) /\ b.phase = "Idle" /\ b.requested # NoPage
  <2>0. "requested" \in Fields  BY DEF Fields
  <2>1. \/ b' = Later /\ Done("browser")
        \/ /\ b' = [Later EXCEPT !.requested = NoPage] /\ Step("browser", w)
           /\ b.phase = "Idle" /\ b.requested # NoPage
    BY <1>4 DEF TickJob
  <2> HIDE DEF w
  <2>2. ASSUME b' = Later PROVE Changes({"left", "wait"})
    BY <1>2, <2>2 DEF Changes
  <2>3. ASSUME b' = [Later EXCEPT !.requested = NoPage]
        PROVE  Changes({"left", "wait", "requested"}) /\ b'.requested = NoPage
    BY <1>2, <2>0, <2>3 DEF Changes
  <2> QED BY <2>1, <2>2, <2>3
<1>5. ASSUME StartFetch
      PROVE  \/ Changes({"route_tries"}) /\ (Goto("browser", "begin") \/ Goto("browser", "finish"))
             \/ /\ Changes({"route_tries", "requested", "wait"})
                /\ b'.requested = work["browser"].page /\ Done("browser")
  <2>1. \/ b' = b /\ Goto("browser", "begin")
        \/ b' = [b EXCEPT !.route_tries = Tries] /\ Goto("browser", "finish")
        \/ b' = Rearm /\ Done("browser")
    BY <1>5 DEF StartFetch
  <2> DEFINE t == Tries
  <2>2. ASSUME b' = b \/ b' = [b EXCEPT !.route_tries = t] PROVE Changes({"route_tries"})
    <3> HIDE DEF t
    <3> QED BY <1>1, <2>2 DEF Changes
  <2>3. ASSUME b' = Rearm
        PROVE  /\ Changes({"route_tries", "requested", "wait"})
               /\ b'.requested = work["browser"].page
    <3>1. b' = [b EXCEPT !.route_tries = t, !.requested = work["browser"].page,
                         !.wait = BROWSER_ROUTE_RETRY_SECS]
      BY <2>3 DEF Rearm
    <3> HIDE DEF t
    <3> QED BY <1>1, <3>1 DEF Changes, Fields
  <2> QED BY <2>1, <2>2, <2>3
<1>6. ASSUME UseLink PROVE Changes({"link"}) /\ b'.link = work["browser"].l
  BY <1>1, <1>6 DEF UseLink, Changes, Fields
<1>7. ASSUME ExpirePath \/ Retry \/ Lookup \/ AskLink PROVE Changes({})
  BY <1>1, <1>7 DEF ExpirePath, Retry, Lookup, AskLink, Changes
<1> QED BY <1>3, <1>4, <1>5, <1>6, <1>7

LEMMA ChangesReader ==
    ASSUME Shape, NEW r \in Readers
    PROVE  /\ (\/ LinkProof(r) \/ Identify(r) \/ AssemblePage(r) \/ VerifyPage(r)
               \/ DocumentBegin(r) \/ DocumentShow(r)) => Changes({})
           /\ OnLinkUp(r) =>
                 \/ /\ Changes({"link"}) /\ b'.link = work[r].l /\ Goto(r, "request")
                    /\ b.phase = "Linking"
                 \/ Changes({}) /\ Done(r)
           /\ Receive(r) => Changes({"left"})
           /\ OutLinkClosed(r) =>
                 \/ Changes({"link"}) /\ b.phase = "Idle" /\ b'.link = 0 /\ Done(r)
                 \/ Changes({}) /\ (Done(r) \/ Goto(r, "finish"))
           /\ Advertised(r) =>
                 \/ /\ Changes({"receiver"}) /\ b'.receiver = work[r].page /\ Done(r)
                    /\ Sent(work[r].l, "parts", work[r].page)
                 \/ Changes({}) /\ Goto(r, "finish") /\ UNCHANGED toNode
           /\ ClearReceiver(r) => Changes({"receiver"}) /\ b'.receiver = NoPage
           /\ PageReceived(r) =>
                 \/ Changes({}) /\ (Done(r) \/ Goto(r, "finish")) /\ UNCHANGED orphan
                 \/ /\ b' = Rendered(r) /\ orphan' = Orphaned /\ Goto(r, "stage")
                    /\ work[r].page # NoPage /\ b.node
<1>1. DOMAIN b = Fields  BY DEF Shape
<1>2. ASSUME b' = b PROVE Changes({})
  BY <1>1, <1>2 DEF Changes
<1>3. ASSUME NEW l, b' = [b EXCEPT !.link = l] PROVE Changes({"link"}) /\ b'.link = l
  BY <1>1, <1>3 DEF Changes, Fields
<1>4. ASSUME NEW p, b' = [b EXCEPT !.receiver = p] PROVE Changes({"receiver"}) /\ b'.receiver = p
  BY <1>1, <1>4 DEF Changes, Fields
<1>5. ASSUME Receive(r) PROVE Changes({"left"})
  <2>1. b' = b \/ b' = [b EXCEPT !.left = PAGE_DEADLINE_SECS]
    BY <1>5 DEF Receive
  <2> QED BY <1>1, <2>1 DEF Changes, Fields
<1>6. OnLinkUp(r) =>
         \/ /\ Changes({"link"}) /\ b'.link = work[r].l /\ Goto(r, "request")
            /\ b.phase = "Linking"
         \/ Changes({}) /\ Done(r)
  BY <1>2, <1>3 DEF OnLinkUp
<1>7. OutLinkClosed(r) =>
         \/ Changes({"link"}) /\ b.phase = "Idle" /\ b'.link = 0 /\ Done(r)
         \/ Changes({}) /\ (Done(r) \/ Goto(r, "finish"))
  BY <1>2, <1>3 DEF OutLinkClosed
<1>8. Advertised(r) =>
         \/ /\ Changes({"receiver"}) /\ b'.receiver = work[r].page /\ Done(r)
            /\ Sent(work[r].l, "parts", work[r].page)
         \/ Changes({}) /\ Goto(r, "finish") /\ UNCHANGED toNode
  BY <1>2, <1>4 DEF Advertised
<1>9. ClearReceiver(r) => Changes({"receiver"}) /\ b'.receiver = NoPage
  BY <1>4 DEF ClearReceiver
<1>10. PageReceived(r) =>
         \/ Changes({}) /\ (Done(r) \/ Goto(r, "finish")) /\ UNCHANGED orphan
         \/ /\ b' = Rendered(r) /\ orphan' = Orphaned /\ Goto(r, "stage")
            /\ work[r].page # NoPage /\ b.node
  BY <1>2 DEF PageReceived
<1>11. (\/ LinkProof(r) \/ Identify(r) \/ AssemblePage(r) \/ VerifyPage(r)
        \/ DocumentBegin(r) \/ DocumentShow(r)) => Changes({})
  BY <1>2 DEF LinkProof, Identify, AssemblePage, VerifyPage, DocumentBegin, DocumentShow
<1> QED BY <1>5, <1>6, <1>7, <1>8, <1>9, <1>10, <1>11

LEMMA ChangesUi ==
    ASSUME Shape
    PROVE  /\ PeekBack \/ DocumentSuspend \/ RaiseMenu \/ DocumentResume => Changes({})
           /\ MarkPop => Changes({"pending_pop"}) /\ b'.pending_pop = TRUE
           /\ Suspend => /\ DOMAIN b' = Fields
                         /\ \A f \in Fields \ {"viewing"} : b'[f] = NoFetch[f]
                         /\ b'.viewing = FALSE
           /\ Resumed => \/ Changes({"viewing"}) /\ b'.viewing = TRUE /\ At("ui", "view")
                         \/ Changes({"current", "back", "links"}) /\ At("ui", "forget")
<1>1. DOMAIN b = Fields  BY DEF Shape
<1>2. ASSUME Suspend PROVE /\ DOMAIN b' = Fields
                           /\ \A f \in Fields \ {"viewing"} : b'[f] = NoFetch[f]
                           /\ b'.viewing = FALSE
  <2>1. b' = [NoFetch EXCEPT !.viewing = FALSE] /\ DOMAIN NoFetch = Fields
    BY <1>1, <1>2, NoFetchFields DEF Suspend
  <2> QED BY <2>1 DEF Fields
<1>3. ASSUME MarkPop PROVE Changes({"pending_pop"}) /\ b'.pending_pop = TRUE
  BY <1>1, <1>3 DEF MarkPop, Changes, Fields
<1>4. ASSUME Resumed
      PROVE  \/ Changes({"viewing"}) /\ b'.viewing = TRUE /\ At("ui", "view")
             \/ Changes({"current", "back", "links"}) /\ At("ui", "forget")
  <2>1. ASSUME b' = [b EXCEPT !.viewing = TRUE] PROVE Changes({"viewing"}) /\ b'.viewing = TRUE
    BY <1>1, <2>1 DEF Changes, Fields
  <2>2. ASSUME b' = [b EXCEPT !.current = NoPage, !.back = <<>>, !.links = NoPage]
        PROVE  Changes({"current", "back", "links"})
    BY <1>1, <2>2 DEF Changes, Fields
  <2> QED BY <1>4, <2>1, <2>2 DEF Resumed
<1>5. PeekBack \/ DocumentSuspend \/ RaiseMenu \/ DocumentResume => Changes({})
  BY <1>1 DEF PeekBack, DocumentSuspend, RaiseMenu, DocumentResume, Changes
<1> QED BY <1>2, <1>3, <1>4, <1>5

LEMMA ChangesOthers ==
    ASSUME Shape
    PROVE  /\ EndFetch => \/ Changes({}) /\ Goto(Hub, "finish")
                          \/ /\ Changes({"link"}) /\ b.phase = "Idle" /\ b'.link = 0
                             /\ Done(Hub)
           /\ (\/ ConnectionLost \/ Connect \/ Announce \/ Lose \/ NodeServes
               \/ UNCHANGED vars) => Changes({})
<1>1. DOMAIN b = Fields  BY DEF Shape
<1>2. ASSUME EndFetch
      PROVE  \/ Changes({}) /\ Goto(Hub, "finish")
             \/ Changes({"link"}) /\ b.phase = "Idle" /\ b'.link = 0 /\ Done(Hub)
  <2>1. ASSUME b' = b PROVE Changes({})
    BY <1>1, <2>1 DEF Changes
  <2>2. ASSUME b' = [b EXCEPT !.link = 0] PROVE Changes({"link"}) /\ b'.link = 0
    BY <1>1, <2>2 DEF Changes, Fields
  <2> QED BY <1>2, <2>1, <2>2 DEF EndFetch
<1>3. (\/ ConnectionLost \/ Connect \/ Announce \/ Lose \/ NodeServes
       \/ UNCHANGED vars) => Changes({})
  BY <1>1 DEF ConnectionLost, Connect, Announce, Lose, NodeServes, vars, Changes
<1> QED BY <1>2, <1>3

-----------------------------------------------------------------------------
(* Every step keeps the shape.                                             *)

Wire ==
    /\ \E S : toNode \in Seq(S)
    /\ \E S : fromNode \in Seq(S)
    /\ \A i \in 1..Len(fromNode) : fromNode[i].form \in {"packet", "adv", "part", "close"}
    /\ \A i \in 1..Len(toNode) : toNode[i].l # 0
    /\ up = 0 => fromNode = <<>>

\* A link that is asked for is named nowhere yet; there is one at a time.
PendIsNew ==
    pend # 0 => /\ b.link # pend /\ up = 0
                /\ \A th \in Threads : work[th].l # pend
                /\ \A i \in 1..Len(toNode) : toNode[i].l # pend

Base == Shape /\ Working /\ Wire /\ PendIsNew

LEMMA HeadAnswer ==
    ASSUME Wire, fromNode # <<>>
    PROVE  /\ Head(fromNode) = fromNode[1] /\ up # 0 /\ Len(fromNode) \in Nat \ {0}
           /\ Head(fromNode).form \in {"packet", "adv", "part", "close"}
<1>1. PICK S : fromNode \in Seq(S)  BY DEF Wire
<1>2. Head(fromNode) = fromNode[1] /\ Len(fromNode) \in Nat \ {0}
  BY <1>1, EmptySeq
<1>3. 1 \in 1..Len(fromNode)  BY <1>2
<1> QED BY <1>2, <1>3 DEF Wire

LEMMA ReceiveMoves ==
    ASSUME Working, Wire, NEW r \in Readers, Receive(r), ~Done(r)
    PROVE  \E w : /\ Moved(r, w) /\ w.at = Head(fromNode).form /\ w.l = up /\ up # 0
                  /\ w.page = Head(fromNode).page /\ w.at \in {"packet", "adv", "part"}
                  /\ b.link = up /\ b.phase = "Fetching"
<1> DEFINE a == Head(fromNode)
           w == [at |-> a.form, l |-> up, page |-> a.page]
<1>1. /\ a.form \in {"packet", "adv", "part"} /\ up # 0
      /\ b.link = up /\ b.phase = "Fetching" /\ Step(r, w)
  BY HeadAnswer DEF Receive
<1>2. IsWork(w) /\ w.at = a.form /\ w.l = up /\ w.page = a.page
  BY DEF IsWork
<1>3. r \in Threads  BY ThreadsExist
<1> HIDE DEF w, a
<1>4. Moved(r, w)  BY <1>1, <1>2, <1>3, StepMoves
<1> QED BY <1>1, <1>2, <1>4 DEF a

\* A thread has just handled a link proof only if it did so in this step.
Proofs == \A th \in Threads : work'[th].at = "proved" => work[th].at = "proved" \/ LinkProof(th)

LEMMA MovedWorking ==
    ASSUME Working, NEW th \in Threads, NEW w, Moved(th, w), w.at \in OnLink => w.l # 0,
           w.at = "proved" => LinkProof(th)
    PROVE  Working' /\ Proofs
<1>1. \A o \in Threads : IsWork(work'[o]) /\ (work'[o].at \in OnLink => work'[o].l # 0)
  BY DEF Working, Moved
<1>2. crossed' \in BOOLEAN /\ work' = [o \in Threads |-> work'[o]]
  BY DEF Working, Moved
<1>3. Working'  BY <1>1, <1>2 DEF Working, IsWork
<1>4. Proofs  BY DEF Moved, Proofs
<1> QED BY <1>3, <1>4

LEMMA GotoWorking ==
    ASSUME Working, NEW th \in Threads, NEW s, Goto(th, s),
           s \in OnLink => work[th].at \in OnLink, s # "proved"
    PROVE  Working' /\ Proofs
<1>1. PICK w : Moved(th, w) /\ w.at = s /\ w.l = work[th].l /\ w.page = work[th].page
  BY GotoMoves
<1>2. w.at \in OnLink => w.l # 0  BY <1>1 DEF Working
<1> QED BY <1>1, <1>2, MovedWorking

LEMMA DoneWorking ==
    ASSUME Working, NEW th \in Threads, Done(th)
    PROVE  Working' /\ Proofs
BY DoneMoves, RestWork, MovedWorking

LEMMA Places ==
    /\ {"finish", "drop", "park", "rest", "retry", "lost", "expire", "start", "begin", "lookup",
        "ask", "stage", "show", "back", "pop", "menu", "view", "forget"} \cap OnLink = {}
    /\ {"proved", "linkup", "have", "request", "send", "packet", "adv", "part", "verify",
        "clear"} \subseteq OnLink
    /\ {"rest", "retry", "lost"} \subseteq Idling
    /\ Idling \cap OnLink = {}
    /\ Idling \cap {"finish", "drop", "park", "expire", "start", "begin", "lookup",
                    "ask", "stage", "show", "back", "pop", "menu", "view", "forget"} = {}
BY DEF OnLink, Idling

LEMMA WorkingStep ==
    ASSUME Base, [Next]_vars
    PROVE  Working' /\ Proofs
<1> USE ThreadsExist, Places
<1>0. Shape /\ Working /\ Wire  BY DEF Base
<1>1. ASSUME NEW th \in Threads, AnyThread(th) PROVE Working' /\ Proofs
  <2>1. CASE Finish(th)
    <3>1. \E w : Moved(th, w) /\ w.at = "drop"
      BY <1>0, <2>1, FinishMoves
    <3> QED BY <1>0, <3>1, MovedWorking
  <2>2. CASE DropOutLink(th)
    BY <1>0, <2>2, GotoWorking, DoneWorking DEF DropOutLink
  <2>3. CASE SetFetching(th)
    <3>1. \E w : Moved(th, w) /\ w.at = "send" /\ w.l = work[th].l
      BY <1>0, <2>3, FetchingMoves
    <3>2. work[th].l # 0  BY <1>0, <2>3 DEF SetFetching, At, Working
    <3> QED BY <1>0, <3>1, <3>2, MovedWorking
  <2>4. CASE SendRequest(th)
    BY <1>0, <2>4, GotoWorking, DoneWorking DEF SendRequest
  <2> QED BY <1>1, <2>1, <2>2, <2>3, <2>4 DEF AnyThread
<1>2. ASSUME BrowserStep PROVE Working' /\ Proofs
  <2>1. CASE TickJob
    <3>1. CASE Done("browser")
      BY <1>0, <3>1, DoneWorking
    <3>2. CASE Step("browser", [Rest EXCEPT !.at = "start", !.page = b.requested])
      <4>1. \E w : Moved("browser", w) /\ w.at = "start"
        BY <1>0, <3>2, JobMoves
      <4> QED BY <1>0, <4>1, MovedWorking
    <3> QED BY <2>1, <3>1, <3>2 DEF TickJob
  <2>2. CASE Lookup
    <3>1. CASE up = 0
      BY <1>0, <2>2, <3>1, GotoWorking DEF Lookup
    <3>2. CASE up # 0
      <4>1. \E w : Moved("browser", w) /\ w.at = "have" /\ w.l = up
        BY <1>0, <2>2, <3>2, LookupMoves
      <4> QED BY <1>0, <3>2, <4>1, MovedWorking
    <3> QED BY <3>1, <3>2
  <2>3. CASE UseLink
    BY <1>0, <2>3, GotoWorking DEF UseLink, At
  <2>4. CASE TickStalled
    <3> DEFINE s == IF b.phase = "Linking" THEN "expire" ELSE "finish"
    <3>1. Goto("browser", s) /\ s \notin OnLink
      BY <2>4 DEF TickStalled
    <3> HIDE DEF s
    <3> QED BY <1>0, <3>1, GotoWorking
  <2>5. CASE TickLinking \/ ExpirePath \/ Retry \/ StartFetch \/ BeginFetch \/ AskLink
    <3>1. Done("browser") \/ \E s : Goto("browser", s) /\ s \notin OnLink
      BY <2>5 DEF TickLinking, ExpirePath, Retry, StartFetch, BeginFetch, AskLink,
          SendLinkRequest
    <3> QED BY <1>0, <3>1, GotoWorking, DoneWorking
  <2> QED BY <1>2, <2>1, <2>2, <2>3, <2>4, <2>5 DEF BrowserStep
<1>3. ASSUME NEW r \in Readers, ReaderStep(r) PROVE Working' /\ Proofs
  <2>1. CASE VerifyPage(r)
    <3>1. CASE Step(r, [work[r] EXCEPT !.at = "clear", !.page = b.receiver])
      <4>1. \E w : Moved(r, w) /\ w.at = "clear" /\ w.l = work[r].l
        BY <1>0, <3>1, VerifyMoves
      <4>2. work[r].l # 0  BY <1>0, <2>1 DEF VerifyPage, At, Working
      <4> QED BY <1>0, <4>1, <4>2, MovedWorking
    <3> QED BY <1>0, <2>1, <3>1, GotoWorking, DoneWorking DEF VerifyPage
  <2>2. CASE Identify(r) \/ OnLinkUp(r) \/ Advertised(r) \/ AssemblePage(r)
    BY <1>0, <2>2, GotoWorking, DoneWorking DEF Identify, OnLinkUp, Advertised, AssemblePage, At
  <2>3. CASE ClearReceiver(r) \/ PageReceived(r) \/ DocumentBegin(r) \/ DocumentShow(r)
    BY <1>0, <2>3, GotoWorking, DoneWorking
       DEF ClearReceiver, PageReceived, DocumentBegin, DocumentShow, At
  <2> QED BY <1>3, <2>1, <2>2, <2>3 DEF ReaderStep
<1>4. ASSUME NEW r \in Readers, LinkProof(r) \/ Receive(r) \/ OutLinkClosed(r)
      PROVE  Working' /\ Proofs
  <2>1. CASE LinkProof(r)
    <3>1. \E w : Moved(r, w) /\ w.at = "proved" /\ w.l = pend
      BY <1>0, <2>1, LinkProofMoves
    <3> QED BY <1>0, <2>1, <3>1, MovedWorking DEF LinkProof
  <2>2. CASE Receive(r)
    BY <1>0, <2>2, ReceiveMoves, MovedWorking, DoneWorking
  <2>3. CASE OutLinkClosed(r)
    BY <1>0, <2>3, GotoWorking, DoneWorking DEF OutLinkClosed
  <2> QED BY <1>4, <2>1, <2>2, <2>3
<1>5. ASSUME ConnectionLost \/ EndFetch PROVE Working' /\ Proofs
  BY <1>0, <1>5, GotoWorking, DoneWorking DEF ConnectionLost, EndFetch
<1>6. ASSUME UiStep \/ RaiseMenu PROVE Working' /\ Proofs
  BY <1>0, <1>6, GotoWorking, DoneWorking
     DEF UiStep, RequestBack, MarkPop, DocumentSuspend, DocumentResume, Resumed, RaiseMenu
<1>7. ASSUME PeekBack PROVE Working' /\ Proofs
  <2>1. \E w : Moved("ui", w) /\ w.at = "back"
    BY <1>0, <1>7, PeekMoves
  <2> QED BY <1>0, <2>1, MovedWorking
<1>8. ASSUME Suspend PROVE Working' /\ Proofs
  <2>1. \E w : Moved("ui", w) /\ w.at = "drop"
    BY <1>0, <1>8, SuspendMoves
  <2> QED BY <1>0, <2>1, MovedWorking
<1>9. ASSUME NEW page, NEW push, OpenPage(page, push) PROVE Working' /\ Proofs
  <2>1. UNCHANGED work /\ crossed' \in BOOLEAN
    BY <1>0, <1>9 DEF OpenPage, Working
  <2> QED BY <1>0, <2>1 DEF Working, Proofs
<1>10. ASSUME Connect \/ Announce \/ Lose \/ NodeServes \/ UNCHANGED vars PROVE Working' /\ Proofs
  <2>1. UNCHANGED <<work, crossed>>
    BY <1>10 DEF Connect, Announce, Lose, NodeServes, vars
  <2> QED BY <1>0, <2>1 DEF Working, Proofs
<1> QED BY <1>1, <1>2, <1>3, <1>4, <1>5, <1>6, <1>7, <1>8, <1>9, <1>10 DEF Next

\* The fetch a step leaves: the same, its request sent, a new one, or none.
NodeKind ==
    /\ DOMAIN b' = Fields
    /\ \/ b'.node = b.node /\ (b'.phase = b.phase \/ b'.phase = "Fetching")
       \/ b'.node = TRUE /\ b'.phase = "Linking"
       \/ b'.node = FALSE /\ b'.phase = "Idle" /\ orphan' = Orphaned

LEMMA ChangesNode ==
    ASSUME NEW S, Changes(S), "node" \notin S, "phase" \notin S \/ b'.phase = "Fetching"
    PROVE  NodeKind
BY DEF Changes, NodeKind, Fields

LEMMA NodeStep ==
    ASSUME Base, [Next]_vars
    PROVE  NodeKind
<1>0. Shape /\ DOMAIN b = Fields  BY DEF Base, Shape
<1>1. ASSUME NEW th \in Threads, AnyThread(th) PROVE NodeKind
  <2>1. CASE Finish(th)
    BY <1>0, <2>1, NoFetchFields DEF Finish, NodeKind
  <2> QED BY <1>0, <1>1, <2>1, ChangesAny, ChangesNode DEF AnyThread
<1>2. ASSUME BrowserStep PROVE NodeKind
  <2>1. CASE BeginFetch
    BY <1>0, <2>1, BeginFields DEF NodeKind
  <2>2. CASE TickStalled \/ TickLinking \/ TickJob \/ ExpirePath \/ Retry
    BY <1>0, <2>2, ChangesBrowser, ChangesNode
  <2>3. CASE StartFetch \/ Lookup \/ UseLink \/ AskLink
    BY <1>0, <2>3, ChangesBrowser, ChangesNode
  <2> QED BY <1>2, <2>1, <2>2, <2>3 DEF BrowserStep
<1>3. ASSUME NEW r \in Readers,
             ReaderStep(r) \/ LinkProof(r) \/ Receive(r) \/ OutLinkClosed(r)
      PROVE  NodeKind
  <2>1. CASE PageReceived(r)
    <3>1. CASE b' = Rendered(r) /\ orphan' = Orphaned
      <4>1. /\ DOMAIN Rendered(r) = Fields /\ Rendered(r).phase = "Idle"
            /\ Rendered(r).node = FALSE
        BY <1>0, RenderedFields
      <4> QED BY <3>1, <4>1 DEF NodeKind
    <3>2. CASE Changes({})
      BY <3>2, ChangesNode
    <3> QED BY <1>0, <2>1, <3>1, <3>2, ChangesReader
  <2>2. CASE ~PageReceived(r)
    <3>1. Changes({}) \/ Changes({"link"}) \/ Changes({"left"}) \/ Changes({"receiver"})
      BY <1>0, <1>3, <2>2, ChangesReader DEF ReaderStep
    <3> QED BY <3>1, ChangesNode
  <2> QED BY <2>1, <2>2
<1>4. ASSUME UiStep \/ RaiseMenu \/ PeekBack \/ Suspend PROVE NodeKind
  <2>1. CASE Suspend
    <3>1. "node" \in Fields \ {"viewing"} /\ "phase" \in Fields \ {"viewing"}
      BY DEF Fields
    <3> QED BY <1>0, <2>1, <3>1, ChangesUi, NoFetchFields DEF Suspend, NodeKind
  <2>2. CASE RequestBack
    <3>1. CASE Accept(work["ui"].page, FALSE, TRUE)
      BY <1>0, <3>1, AcceptFields DEF NodeKind
    <3>2. CASE b' = b
      BY <1>0, <3>2 DEF NodeKind
    <3> QED BY <2>2, <3>1, <3>2 DEF RequestBack
  <2> QED BY <1>0, <1>4, <2>1, <2>2, ChangesUi, ChangesNode DEF UiStep
<1>5. ASSUME NEW page, NEW push, OpenPage(page, push) PROVE NodeKind
  <2>1. Accept(page, push, FALSE)  BY <1>5 DEF OpenPage
  <2> QED BY <1>0, <2>1, AcceptFields DEF NodeKind
<1>6. ASSUME ConnectionLost \/ EndFetch \/ Connect \/ Announce \/ Lose \/ NodeServes
             \/ UNCHANGED vars
      PROVE  NodeKind
  <2>1. Changes({}) \/ Changes({"link"})  BY <1>0, <1>6, ChangesOthers
  <2> QED BY <2>1, ChangesNode
<1> QED BY <1>1, <1>2, <1>3, <1>4, <1>5, <1>6 DEF Next

\* The links a step leaves: none that was not there, a new request, or a proof.
NewRequest ==
    /\ pend = 0 /\ up = 0 /\ NewLink /\ orphan' = ~b.node /\ Done("browser")
    /\ UNCHANGED <<b, up, via, toNode, fromNode, identified>>
LinkKind ==
    \/ /\ pend' \in {pend, 0} /\ up' \in {up, 0}
       /\ orphan' = orphan \/ orphan' = Orphaned
       /\ identified' = identified \/ \E r \in Readers : Identify(r)
    \/ NewRequest
    \/ \E r \in Readers : LinkProof(r)

LEMMA LinkStep ==
    ASSUME [Next]_vars
    PROVE  LinkKind
<1> USE DEF LinkKind, link, anon
<1>1. ASSUME NEW th \in Threads, AnyThread(th) PROVE LinkKind
  BY <1>1 DEF AnyThread, Finish, DropOutLink, SetFetching, SendRequest
<1>2. ASSUME BrowserStep PROVE LinkKind
  <2>1. CASE Retry \/ AskLink
    BY <2>1 DEF Retry, AskLink, SendLinkRequest, NewRequest, net, Done, Goto
  <2>2. CASE ~(Retry \/ AskLink)
    BY <1>2, <2>2 DEF BrowserStep, TickStalled, TickLinking, TickJob, ExpirePath, StartFetch,
        BeginFetch, Lookup, UseLink
  <2> QED BY <2>1, <2>2
<1>3. ASSUME NEW r \in Readers,
             ReaderStep(r) \/ LinkProof(r) \/ Receive(r) \/ OutLinkClosed(r)
      PROVE  LinkKind
  BY <1>3 DEF ReaderStep, OnLinkUp, Advertised, AssemblePage, VerifyPage, ClearReceiver,
      PageReceived, DocumentBegin, DocumentShow, Receive, OutLinkClosed, Identify
<1>4. ASSUME UiStep \/ RaiseMenu \/ PeekBack \/ Suspend PROVE LinkKind
  BY <1>4 DEF UiStep, RequestBack, MarkPop, DocumentSuspend, DocumentResume, Resumed, RaiseMenu,
      PeekBack, Suspend
<1>5. ASSUME NEW page, NEW push, OpenPage(page, push) PROVE LinkKind
  BY <1>5 DEF OpenPage
<1>6. ASSUME ConnectionLost \/ EndFetch \/ Connect \/ Announce \/ Lose \/ NodeServes
             \/ UNCHANGED vars
      PROVE  LinkKind
  BY <1>6 DEF ConnectionLost, EndFetch, Connect, Announce, Lose, NodeServes, vars
<1> QED BY <1>1, <1>2, <1>3, <1>4, <1>5, <1>6 DEF Next

\* The request a step leaves: the same, perhaps mixed up by now, or a new one.
WantKind ==
    \/ wanted' = wanted
    \/ \E c \in BOOLEAN : MixedIf(c)
    \/ \E page, push, pop : Accept(page, push, pop)

LEMMA WantedStep ==
    ASSUME [Next]_vars
    PROVE  WantKind
<1>0. InHand \in BOOLEAN /\ At("ui", "pop") \in BOOLEAN  BY DEF InHand, At
<1>1. ASSUME NEW th \in Threads, AnyThread(th) PROVE WantKind
  BY <1>0, <1>1 DEF AnyThread, Finish, DropOutLink, SetFetching, SendRequest, WantKind
<1>2. ASSUME BrowserStep PROVE wanted' = wanted
  BY <1>2 DEF BrowserStep, TickStalled, TickLinking, TickJob, ExpirePath, StartFetch,
      BeginFetch, Lookup, UseLink, Retry, AskLink
<1>3. ASSUME NEW r \in Readers,
             ReaderStep(r) \/ LinkProof(r) \/ Receive(r) \/ OutLinkClosed(r)
      PROVE  wanted' = wanted \/ MixedIf(At("ui", "pop"))
  BY <1>3 DEF ReaderStep, OnLinkUp, Advertised, AssemblePage, VerifyPage, ClearReceiver,
      PageReceived, DocumentBegin, DocumentShow, Receive, OutLinkClosed, Identify, LinkProof
<1>4. ASSUME UiStep \/ RaiseMenu \/ PeekBack \/ Suspend PROVE WantKind
  <2>1. CASE RequestBack
    BY <2>1 DEF RequestBack, WantKind
  <2>2. CASE Suspend
    BY <1>0, <2>2 DEF Suspend, WantKind
  <2>3. CASE Resumed
    BY <2>3 DEF Resumed, WantKind
  <2>4. CASE MarkPop \/ DocumentSuspend \/ DocumentResume \/ RaiseMenu \/ PeekBack
    BY <2>4 DEF MarkPop, DocumentSuspend, DocumentResume, RaiseMenu, PeekBack, WantKind
  <2> QED BY <1>4, <2>1, <2>2, <2>3, <2>4 DEF UiStep
<1>5. ASSUME NEW page, NEW push, OpenPage(page, push) PROVE WantKind
  BY <1>5 DEF OpenPage, WantKind
<1>6. ASSUME ConnectionLost \/ EndFetch \/ Connect \/ Announce \/ Lose \/ NodeServes
             \/ UNCHANGED vars
      PROVE  wanted' = wanted
  BY <1>6 DEF ConnectionLost, EndFetch, Connect, Announce, Lose, NodeServes, vars
<1> QED BY <1>0, <1>1, <1>2, <1>3, <1>4, <1>5, <1>6 DEF Next, WantKind

LEMMA ShapeStep ==
    ASSUME Base, [Next]_vars
    PROVE  Shape'
<1>0. Shape /\ DOMAIN b = Fields  BY DEF Base, Shape
<1>1. DOMAIN b' = Fields /\ b'.node \in BOOLEAN
  BY <1>0, NodeStep DEF NodeKind, Shape
<1>2. orphan' \in BOOLEAN /\ identified' \in BOOLEAN
  BY <1>0, LinkStep DEF LinkKind, Shape, NewRequest, Orphaned, Identify, LinkProof
<1>3. \/ UNCHANGED screen
      \/ \E r \in Readers : DocumentBegin(r) \/ DocumentShow(r)
      \/ DocumentSuspend \/ DocumentResume
  <2>1. ASSUME NEW th \in Threads, AnyThread(th) PROVE UNCHANGED screen
    BY <2>1 DEF AnyThread, Finish, DropOutLink, SetFetching, SendRequest
  <2>2. ASSUME BrowserStep PROVE UNCHANGED screen
    BY <2>2 DEF BrowserStep, TickStalled, TickLinking, TickJob, ExpirePath, StartFetch,
        BeginFetch, Lookup, UseLink, Retry, AskLink
  <2>3. ASSUME NEW r \in Readers,
               ReaderStep(r) \/ LinkProof(r) \/ Receive(r) \/ OutLinkClosed(r)
        PROVE  UNCHANGED screen \/ DocumentBegin(r) \/ DocumentShow(r)
    BY <2>3 DEF ReaderStep, OnLinkUp, Advertised, AssemblePage, VerifyPage, ClearReceiver,
        PageReceived, Receive, OutLinkClosed, Identify, LinkProof
  <2>4. ASSUME RequestBack \/ MarkPop \/ Resumed \/ RaiseMenu \/ PeekBack \/ Suspend
        PROVE  UNCHANGED screen
    BY <2>4 DEF RequestBack, MarkPop, Resumed, RaiseMenu, PeekBack, Suspend
  <2>5. ASSUME NEW page, NEW push, OpenPage(page, push) PROVE UNCHANGED screen
    BY <2>5 DEF OpenPage
  <2>6. ASSUME ConnectionLost \/ EndFetch \/ Connect \/ Announce \/ Lose \/ NodeServes
               \/ UNCHANGED vars
        PROVE  UNCHANGED screen
    BY <2>6 DEF ConnectionLost, EndFetch, Connect, Announce, Lose, NodeServes, vars
  <2> QED BY <2>1, <2>2, <2>3, <2>4, <2>5, <2>6 DEF Next, UiStep
<1>4. DOMAIN screen' = {"document", "staging", "suspended"}
  BY <1>0, <1>3 DEF Shape, DocumentBegin, DocumentShow, DocumentSuspend, DocumentResume
<1>5. WantKind  BY WantedStep
<1>6. /\ wanted' = [page |-> wanted'.page, push |-> wanted'.push, pop |-> wanted'.pop,
                    mixed |-> wanted'.mixed]
      /\ wanted'.mixed \in BOOLEAN
  <2>1. CASE wanted' = wanted
    BY <1>0, <2>1 DEF Shape
  <2>2. CASE \E c \in BOOLEAN : MixedIf(c)
    BY <1>0, <2>2 DEF Shape, MixedIf
  <2>3. ASSUME NEW page, NEW push, NEW pop, Accept(page, push, pop)
        PROVE  /\ wanted' = [page |-> wanted'.page, push |-> wanted'.push, pop |-> wanted'.pop,
                             mixed |-> wanted'.mixed]
               /\ wanted'.mixed \in BOOLEAN
    <3> DEFINE m == InHand \/ (pop /\ (b.back = <<>> \/ page # Last(b.back)))
    <3>1. wanted' = [page |-> page, push |-> push, pop |-> pop, mixed |-> m] /\ m \in BOOLEAN
      BY <2>3 DEF Accept
    <3> HIDE DEF m
    <3> QED BY <3>1
  <2> QED BY <1>5, <2>1, <2>2, <2>3 DEF WantKind
<1> QED BY <1>1, <1>2, <1>4, <1>6 DEF Shape

-----------------------------------------------------------------------------
(* Links are named by who has heard of them.                               *)

Named(x) == x \in {0, b.link} \/ \E th \in Threads : x = work[th].l
AllNamed == \A th \in Threads : Named(work'[th].l)

LEMMA MovedNamed ==
    ASSUME NEW th \in Threads, NEW w, Moved(th, w), Named(w.l)
    PROVE  AllNamed
BY DEF Moved, AllNamed, Named

LEMMA GotoNamed ==
    ASSUME Working, NEW th \in Threads, NEW s, Goto(th, s)
    PROVE  AllNamed
<1>1. PICK w : Moved(th, w) /\ w.at = s /\ w.l = work[th].l /\ w.page = work[th].page
  BY GotoMoves
<1> QED BY <1>1, MovedNamed DEF Named

LEMMA DoneNamed ==
    ASSUME Working, NEW th \in Threads, Done(th)
    PROVE  AllNamed
BY DoneMoves, RestWork, MovedNamed DEF Named

LEMMA ChangesLink ==
    ASSUME NEW S, Changes(S), "link" \notin S
    PROVE  Named(b'.link)
BY DEF Changes, Named, Fields

LEMMA NamesStep ==
    ASSUME Base, [Next]_vars, up = 0, pend' # 0
    PROVE  Named(b'.link) /\ AllNamed
<1> USE ThreadsExist
<1>0. Shape /\ DOMAIN b = Fields /\ Working /\ Wire  BY DEF Base, Shape
<1> DEFINE Goal == Named(b'.link) /\ AllNamed
<1>1. ASSUME NEW th \in Threads, AnyThread(th) PROVE Goal
  <2>1. CASE Finish(th)
    <3>1. Named(b'.link)  BY <1>0, <2>1, NoFetchFields DEF Finish, Named
    <3>2. \E w : Moved(th, w) /\ w.l = b.link
      BY <1>0, <2>1, FinishMoves
    <3> QED BY <3>1, <3>2, MovedNamed DEF Named
  <2>2. CASE DropOutLink(th) \/ SendRequest(th)
    <3>1. Named(b'.link)  BY <1>0, <2>2, ChangesAny, ChangesLink
    <3>2. AllNamed  BY <1>0, <2>2, GotoNamed, DoneNamed DEF DropOutLink, SendRequest
    <3> QED BY <3>1, <3>2
  <2>3. CASE SetFetching(th)
    <3>1. Named(b'.link)  BY <1>0, <2>3, ChangesAny, ChangesLink
    <3>2. \E w : Moved(th, w) /\ w.at = "send" /\ w.l = work[th].l
      BY <1>0, <2>3, FetchingMoves
    <3> QED BY <3>1, <3>2, MovedNamed DEF Named
  <2> QED BY <1>1, <2>1, <2>2, <2>3 DEF AnyThread
<1>2. ASSUME BrowserStep PROVE Goal
  <2>1. CASE TickJob
    <3>1. CASE Done("browser")
      BY <1>0, <2>1, <3>1, DoneNamed, ChangesBrowser, ChangesLink
    <3>2. CASE Step("browser", [Rest EXCEPT !.at = "start", !.page = b.requested])
      <4>1. PICK w : Moved("browser", w) /\ w.at = "start" /\ w.l = 0
        BY <1>0, <3>2, JobMoves DEF Base
      <4>2. Named(b'.link)  BY <1>0, <2>1, ChangesBrowser, ChangesLink
      <4> QED BY <4>1, <4>2, MovedNamed DEF Named
    <3> QED BY <2>1, <3>1, <3>2 DEF TickJob
  <2>2. CASE Lookup
    <3>1. AllNamed  BY <1>0, <2>2, GotoNamed DEF Lookup
    <3> QED BY <1>0, <2>2, <3>1, ChangesBrowser, ChangesLink
  <2>3. CASE UseLink
    <3>1. AllNamed  BY <1>0, <2>3, GotoNamed DEF UseLink
    <3>2. Named(b'.link)  BY <1>0, <2>3, ChangesBrowser DEF Named
    <3> QED BY <3>1, <3>2
  <2>4. CASE BeginFetch
    <3>1. AllNamed  BY <1>0, <2>4, GotoNamed DEF BeginFetch
    <3>2. Named(b'.link)  BY <1>0, <2>4, BeginFields DEF Named
    <3> QED BY <3>1, <3>2
  <2>5. CASE TickStalled
    <3> DEFINE s == IF b.phase = "Linking" THEN "expire" ELSE "finish"
    <3>1. Goto("browser", s)  BY <2>5 DEF TickStalled
    <3> HIDE DEF s
    <3>2. AllNamed  BY <1>0, <3>1, GotoNamed
    <3> QED BY <1>0, <2>5, <3>2, ChangesBrowser, ChangesLink
  <2>6. CASE TickLinking \/ ExpirePath \/ Retry \/ StartFetch \/ AskLink
    <3>1. AllNamed
      BY <1>0, <2>6, GotoNamed, DoneNamed DEF TickLinking, ExpirePath, Retry, StartFetch, AskLink,
          SendLinkRequest
    <3>2. Named(b'.link)  BY <1>0, <2>6, ChangesBrowser, ChangesLink
    <3> QED BY <3>1, <3>2
  <2> QED BY <1>2, <2>1, <2>2, <2>3, <2>4, <2>5, <2>6 DEF BrowserStep
<1>3. ASSUME NEW r \in Readers,
             ReaderStep(r) \/ LinkProof(r) \/ Receive(r) \/ OutLinkClosed(r)
      PROVE  Goal
  <2>1. CASE LinkProof(r)
    BY <2>1 DEF LinkProof
  <2>2. CASE Receive(r)
    <3>1. fromNode = <<>>  BY <1>0 DEF Wire
    <3> QED BY <2>2, <3>1 DEF Receive
  <2>3. CASE VerifyPage(r)
    <3>1. Named(b'.link)  BY <1>0, <2>3, ChangesReader, ChangesLink
    <3>2. CASE Step(r, [work[r] EXCEPT !.at = "clear", !.page = b.receiver])
      <4>1. \E w : Moved(r, w) /\ w.at = "clear" /\ w.l = work[r].l
        BY <1>0, <3>2, VerifyMoves
      <4> QED BY <3>1, <4>1, MovedNamed DEF Named
    <3> QED BY <1>0, <2>3, <3>1, <3>2, GotoNamed, DoneNamed DEF VerifyPage
  <2>4. CASE OnLinkUp(r) \/ OutLinkClosed(r)
    <3>1. AllNamed  BY <1>0, <2>4, GotoNamed, DoneNamed DEF OnLinkUp, OutLinkClosed
    <3>2. Changes({}) \/ b'.link = 0 \/ b'.link = work[r].l
      BY <1>0, <2>4, ChangesReader
    <3>3. Named(b'.link)  BY <3>2, ChangesLink DEF Named
    <3> QED BY <3>1, <3>3
  <2>5. CASE PageReceived(r)
    <3>1. AllNamed  BY <1>0, <2>5, GotoNamed, DoneNamed DEF PageReceived
    <3>2. Rendered(r).link = b.link  BY <1>0, RenderedFields
    <3>3. Changes({}) \/ b' = Rendered(r)  BY <1>0, <2>5, ChangesReader
    <3>4. Named(b'.link)  BY <3>2, <3>3, ChangesLink DEF Named
    <3> QED BY <3>1, <3>4
  <2>6. CASE Identify(r) \/ Advertised(r) \/ AssemblePage(r) \/ ClearReceiver(r)
             \/ DocumentBegin(r) \/ DocumentShow(r)
    <3>1. AllNamed  
      BY <1>0, <2>6, GotoNamed, DoneNamed DEF Identify, Advertised, AssemblePage,
          ClearReceiver, DocumentBegin, DocumentShow
    <3>2. Changes({}) \/ Changes({"receiver"})  BY <1>0, <2>6, ChangesReader
    <3> QED BY <3>1, <3>2, ChangesLink
  <2> QED BY <1>3, <2>1, <2>2, <2>3, <2>4, <2>5, <2>6 DEF ReaderStep
<1>4. ASSUME UiStep \/ RaiseMenu PROVE Goal
  <2>1. AllNamed
    BY <1>0, <1>4, GotoNamed, DoneNamed
       DEF UiStep, RequestBack, MarkPop, DocumentSuspend, DocumentResume, Resumed, RaiseMenu
  <2>2. CASE RequestBack
    <3>1. b'.link = b.link
      BY <1>0, <2>2, AcceptFields DEF RequestBack
    <3> QED BY <2>1, <3>1 DEF Named
  <2>3. CASE ~RequestBack
    <3>1. \/ Changes({}) \/ Changes({"pending_pop"}) \/ Changes({"viewing"})
          \/ Changes({"current", "back", "links"})
      BY <1>0, <1>4, <2>3, ChangesUi DEF UiStep
    <3> QED BY <2>1, <3>1, ChangesLink
  <2> QED BY <2>2, <2>3
<1>5. ASSUME PeekBack PROVE Goal
  <2>1. PICK w : Moved("ui", w) /\ w.l = 0
    BY <1>0, <1>5, PeekMoves DEF Base
  <2>3. AllNamed  BY <1>0, <2>1, MovedNamed DEF Named
  <2> QED BY <1>0, <1>5, <2>3, ChangesUi, ChangesLink
<1>6. ASSUME Suspend PROVE Goal
  <2>1. \E w : Moved("ui", w) /\ w.l = b.link
    BY <1>0, <1>6, SuspendMoves
  <2>2. "link" \in Fields \ {"viewing"}  BY DEF Fields
  <2>3. b'.link = 0  BY <1>0, <1>6, <2>2, ChangesUi, NoFetchFields
  <2> QED BY <2>1, <2>3, MovedNamed DEF Named
<1>7. ASSUME NEW page, NEW push, OpenPage(page, push) PROVE Goal
  <2>1. Accept(page, push, FALSE) /\ work' = work  BY <1>7 DEF OpenPage
  <2>2. b'.link = b.link  BY <1>0, <2>1, AcceptFields
  <2> QED BY <2>1, <2>2 DEF Named, AllNamed
<1>8. ASSUME ConnectionLost PROVE Goal
  BY <1>8 DEF ConnectionLost
<1>9. ASSUME EndFetch PROVE Goal
  <2>1. AllNamed  BY <1>0, <1>9, GotoNamed, DoneNamed DEF EndFetch
  <2>2. Changes({}) \/ b'.link = 0  BY <1>0, <1>9, ChangesOthers
  <2> QED BY <2>1, <2>2, ChangesLink DEF Named
<1>10. ASSUME Connect \/ Announce \/ Lose \/ NodeServes \/ UNCHANGED vars PROVE Goal
  <2>1. UNCHANGED work /\ UNCHANGED b
    BY <1>10 DEF Connect, Announce, Lose, NodeServes, vars
  <2> QED BY <2>1 DEF Named, AllNamed
<1> QED BY <1>1, <1>2, <1>3, <1>4, <1>5, <1>6, <1>7, <1>8, <1>9, <1>10 DEF Next

-----------------------------------------------------------------------------
(* What a step does to the packets under way.                              *)

ToKind ==
    \/ toNode' = toNode
    \/ toNode # <<>> /\ toNode' = Tail(toNode)
    \/ \E th \in Threads : \E req, page :
          /\ work[th].at \in {"send", "adv"} /\ up = work[th].l
          /\ toNode' = Append(toNode, [l |-> up, req |-> req, page |-> page])
FromKind ==
    \/ fromNode' = <<>>
    \/ up' = up /\ fromNode' = fromNode
    \/ up' = up /\ fromNode # <<>> /\ fromNode' = Tail(fromNode)
    \/ /\ up' = up /\ toNode # <<>> /\ up = Head(toNode).l
       /\ \E form \in {"packet", "adv", "part", "close"} : \E page :
             fromNode' = Append(fromNode, [form |-> form, page |-> page])

LEMMA ServesKind ==
    ASSUME NodeServes
    PROVE  ToKind /\ FromKind
<1>1. toNode # <<>> /\ toNode' = Tail(toNode) /\ up' = up
  BY DEF NodeServes, link
<1>2. \E form \in {"packet", "adv", "part", "close"} : \E page :
         fromNode' = IF up = Head(toNode).l
                     THEN Append(fromNode, [form |-> form, page |-> page]) ELSE fromNode
  BY DEF NodeServes
<1> QED BY <1>1, <1>2 DEF ToKind, FromKind

LEMMA NetStep ==
    ASSUME [Next]_vars
    PROVE  ToKind /\ FromKind
<1> USE DEF link, net
<1>1. ASSUME NEW th \in Threads, AnyThread(th) PROVE ToKind /\ FromKind
  <2>1. CASE SendRequest(th)
    <3>1. UNCHANGED <<up, fromNode>>  BY <2>1 DEF SendRequest
    <3>2. ToKind  BY <2>1 DEF SendRequest, Sent, At, ToKind
    <3> QED BY <3>1, <3>2 DEF FromKind
  <2> QED BY <1>1, <2>1 DEF AnyThread, Finish, DropOutLink, SetFetching, ToKind, FromKind
<1>2. ASSUME BrowserStep PROVE ToKind /\ FromKind
  <2>1. UNCHANGED <<up, toNode, fromNode>>
    BY <1>2 DEF BrowserStep, TickStalled, TickLinking, TickJob, ExpirePath, StartFetch,
        BeginFetch, Lookup, UseLink, Retry, AskLink
  <2> QED BY <2>1 DEF ToKind, FromKind
<1>3. ASSUME NEW r \in Readers,
             ReaderStep(r) \/ LinkProof(r) \/ Receive(r) \/ OutLinkClosed(r)
      PROVE  ToKind /\ FromKind
  <2>1. CASE Advertised(r)
    <3>1. UNCHANGED <<up, fromNode>>  BY <2>1 DEF Advertised
    <3>2. ToKind  BY <2>1, ThreadsExist DEF Advertised, Sent, At, ToKind
    <3> QED BY <3>1, <3>2 DEF FromKind
  <2>2. CASE LinkProof(r) \/ Receive(r) \/ OutLinkClosed(r)
    BY <2>2 DEF LinkProof, Receive, OutLinkClosed, ToKind, FromKind
  <2>3. CASE ReaderStep(r) /\ ~Advertised(r)
    <3>1. UNCHANGED <<up, toNode, fromNode>>
      BY <2>3 DEF ReaderStep, OnLinkUp, AssemblePage, VerifyPage, ClearReceiver,
          PageReceived, DocumentBegin, DocumentShow, Identify
    <3> QED BY <3>1 DEF ToKind, FromKind
  <2> QED BY <1>3, <2>1, <2>2, <2>3
<1>4. ASSUME UiStep \/ RaiseMenu \/ PeekBack \/ Suspend PROVE ToKind /\ FromKind
  <2>1. UNCHANGED <<up, toNode, fromNode>>
    BY <1>4 DEF UiStep, RequestBack, MarkPop, DocumentSuspend, DocumentResume, Resumed,
        RaiseMenu, PeekBack, Suspend
  <2> QED BY <2>1 DEF ToKind, FromKind
<1>5. ASSUME NEW page, NEW push, OpenPage(page, push) PROVE ToKind /\ FromKind
  BY <1>5 DEF OpenPage, ToKind, FromKind
<1>6. ASSUME ConnectionLost \/ EndFetch \/ Connect \/ Announce \/ Lose \/ UNCHANGED vars
      PROVE  ToKind /\ FromKind
  BY <1>6 DEF ConnectionLost, EndFetch, Connect, Announce, Lose, vars, ToKind, FromKind
<1> QED BY <1>1, <1>2, <1>3, <1>4, <1>5, <1>6, ServesKind DEF Next

LEMMA ToNodeStep ==
    ASSUME Base, [Next]_vars
    PROVE  /\ \E S : toNode' \in Seq(S)
           /\ \A i \in 1..Len(toNode') :
                 \/ \E j \in 1..Len(toNode) : toNode'[i] = toNode[j]
                 \/ \E th \in Threads : /\ work[th].at \in {"send", "adv"} /\ up = work[th].l
                                        /\ toNode'[i].l = up
<1>0. Wire /\ Working  BY DEF Base
<1>1. PICK S : toNode \in Seq(S)  BY <1>0 DEF Wire
<1>2. ToKind  BY NetStep
<1>3. CASE toNode' = toNode
  BY <1>1, <1>3
<1>4. CASE toNode # <<>> /\ toNode' = Tail(toNode)
  <2>1. /\ toNode' \in Seq(S) /\ Len(toNode') = Len(toNode) - 1 /\ Len(toNode) \in Nat \ {0}
        /\ \A i \in 1..Len(toNode') : toNode'[i] = toNode[i + 1]
    BY <1>1, <1>4, EmptySeq, HeadTailProperties
  <2>2. \A i \in 1..Len(toNode') : i + 1 \in 1..Len(toNode)  BY <2>1
  <2> QED BY <2>1, <2>2
<1>5. ASSUME NEW th \in Threads, NEW req, NEW page,
             work[th].at \in {"send", "adv"}, up = work[th].l,
             toNode' = Append(toNode, [l |-> up, req |-> req, page |-> page])
      PROVE  /\ \E T : toNode' \in Seq(T)
             /\ \A i \in 1..Len(toNode') : (\E j \in 1..Len(toNode) : toNode'[i] = toNode[j])
                                           \/ toNode'[i].l = up
  <2> DEFINE m == [l |-> up, req |-> req, page |-> page]
  <2>1. m.l = up  OBVIOUS
  <2>2. toNode' = Append(toNode, m)  BY <1>5
  <2> HIDE DEF m
  <2>3. toNode \in Seq(S \cup {m})  BY <1>1
  <2>4. /\ toNode' \in Seq(S \cup {m}) /\ Len(toNode') = Len(toNode) + 1
        /\ \A i \in 1..Len(toNode) : toNode'[i] = toNode[i]
        /\ toNode'[Len(toNode) + 1] = m /\ Len(toNode) \in Nat
    BY <2>2, <2>3, AppendProperties
  <2>5. \A i \in 1..Len(toNode') : i \in 1..Len(toNode) \/ i = Len(toNode) + 1
    BY <2>4
  <2> QED BY <2>1, <2>4, <2>5
<1>6. CASE \E th \in Threads : \E req, page :
              /\ work[th].at \in {"send", "adv"} /\ up = work[th].l
              /\ toNode' = Append(toNode, [l |-> up, req |-> req, page |-> page])
  <2>1. PICK th, req, page :
              /\ th \in Threads
              /\ work[th].at \in {"send", "adv"} /\ up = work[th].l
              /\ toNode' = Append(toNode, [l |-> up, req |-> req, page |-> page])
    BY <1>6
  <2> QED BY <1>5, <2>1
<1> QED BY <1>2, <1>3, <1>4, <1>6 DEF ToKind

LEMMA FromNodeStep ==
    ASSUME Base, [Next]_vars
    PROVE  /\ \E S : fromNode' \in Seq(S)
           /\ \A i \in 1..Len(fromNode') : fromNode'[i].form \in {"packet", "adv", "part", "close"}
           /\ up' = 0 => fromNode' = <<>>
<1>0. Wire  BY DEF Base
<1>1. PICK S : fromNode \in Seq(S)  BY <1>0 DEF Wire
<1>2. FromKind  BY NetStep
<1>3. CASE fromNode' = <<>>
  BY <1>1, <1>3
<1>4. CASE up' = up /\ fromNode' = fromNode
  BY <1>0, <1>1, <1>4 DEF Wire
<1>5. CASE up' = up /\ fromNode # <<>> /\ fromNode' = Tail(fromNode)
  <2>1. /\ fromNode' \in Seq(S) /\ Len(fromNode') = Len(fromNode) - 1 /\ Len(fromNode) \in Nat \ {0}
        /\ \A i \in 1..Len(fromNode') : fromNode'[i] = fromNode[i + 1]
    BY <1>1, <1>5, EmptySeq, HeadTailProperties
  <2>2. \A i \in 1..Len(fromNode') : i + 1 \in 1..Len(fromNode)  BY <2>1
  <2>3. \A i \in 1..Len(fromNode') : fromNode'[i].form \in {"packet", "adv", "part", "close"}
    BY <1>0, <2>1, <2>2 DEF Wire
  <2> QED BY <1>0, <1>5, <2>1, <2>3 DEF Wire
<1>6. ASSUME up' = up, toNode # <<>>, up = Head(toNode).l,
             NEW form \in {"packet", "adv", "part", "close"}, NEW page,
             fromNode' = Append(fromNode, [form |-> form, page |-> page])
      PROVE  /\ \E T : fromNode' \in Seq(T)
             /\ \A i \in 1..Len(fromNode') : fromNode'[i].form \in {"packet", "adv", "part", "close"}
             /\ up' # 0
  <2> DEFINE m == [form |-> form, page |-> page]
  <2>1. m.form \in {"packet", "adv", "part", "close"}  OBVIOUS
  <2>2. fromNode' = Append(fromNode, m)  BY <1>6
  <2> HIDE DEF m
  <2>3. fromNode \in Seq(S \cup {m})  BY <1>1
  <2>4. /\ fromNode' \in Seq(S \cup {m}) /\ Len(fromNode') = Len(fromNode) + 1
        /\ \A i \in 1..Len(fromNode) : fromNode'[i] = fromNode[i]
        /\ fromNode'[Len(fromNode) + 1] = m /\ Len(fromNode) \in Nat
    BY <2>2, <2>3, AppendProperties
  <2>5. \A i \in 1..Len(fromNode') : i \in 1..Len(fromNode) \/ i = Len(fromNode) + 1
    BY <2>4
  <2>6. PICK T : toNode \in Seq(T)  BY <1>0 DEF Wire
  <2>7. Head(toNode) = toNode[1] /\ Len(toNode) \in Nat \ {0}  BY <1>6, <2>6, EmptySeq
  <2>8. 1 \in 1..Len(toNode)  BY <2>7
  <2>9. up # 0  BY <1>0, <1>6, <2>7, <2>8 DEF Wire
  <2>10. \A i \in 1..Len(fromNode') : fromNode'[i].form \in {"packet", "adv", "part", "close"}
    BY <1>0, <2>1, <2>4, <2>5 DEF Wire
  <2> QED BY <1>6, <2>4, <2>9, <2>10
<1> QED BY <1>2, <1>3, <1>4, <1>5, <1>6 DEF FromKind

LEMMA WireStep ==
    ASSUME Base, [Next]_vars
    PROVE  Wire'
<1>0. Wire /\ Working  BY DEF Base
<1>1. \A th \in Threads : work[th].at \in {"send", "adv"} => work[th].l # 0
  BY <1>0, Places DEF Working
<1>2. \A i \in 1..Len(toNode') : toNode'[i].l # 0
  BY <1>0, <1>1, ToNodeStep DEF Wire
<1> QED BY <1>2, ToNodeStep, FromNodeStep DEF Wire

LEMMA PendStep ==
    ASSUME Base, [Next]_vars
    PROVE  PendIsNew'
<1>0. Wire /\ Working /\ PendIsNew /\ Shape  BY DEF Base
<1> SUFFICES ASSUME pend' # 0
             PROVE  /\ b'.link # pend' /\ up' = 0
                    /\ \A th \in Threads : work'[th].l # pend'
                    /\ \A i \in 1..Len(toNode') : toNode'[i].l # pend'
  BY DEF PendIsNew
<1>1. CASE NewRequest
  <2>1. pend' \in Unused /\ b' = b /\ up' = 0 /\ toNode' = toNode /\ Done("browser")
    BY <1>1 DEF NewRequest, NewLink
  <2>2. Moved("browser", Rest)  BY <1>0, <2>1, DoneMoves, ThreadsExist
  <2>3. /\ b.link # pend' /\ \A th \in Threads : work[th].l # pend'
        /\ \A i \in DOMAIN toNode : toNode[i].l # pend'
    BY <2>1 DEF Unused
  <2>4. \A th \in Threads : work'[th].l # pend'
    BY <2>2, <2>3, RestWork DEF Moved
  <2>5. DOMAIN toNode = 1..Len(toNode)
    <3>1. PICK S : toNode \in Seq(S)  BY <1>0 DEF Wire
    <3> QED BY <3>1
  <2> QED BY <2>1, <2>3, <2>4, <2>5
<1>2. CASE ~NewRequest
  <2>1. pend' = pend /\ pend # 0 /\ up' \in {up, 0}
    BY <1>2, LinkStep DEF LinkKind, LinkProof
  <2>2. /\ b.link # pend /\ up = 0
        /\ \A th \in Threads : work[th].l # pend
        /\ \A i \in 1..Len(toNode) : toNode[i].l # pend
    BY <1>0, <2>1 DEF PendIsNew
  <2>3. Named(b'.link) /\ AllNamed  BY <2>2, NamesStep
  <2>4. b'.link # pend' /\ \A th \in Threads : work'[th].l # pend'
    BY <2>1, <2>2, <2>3 DEF Named, AllNamed
  <2>5. \A i \in 1..Len(toNode') : toNode'[i].l # pend'
    BY <2>1, <2>2, ToNodeStep
  <2> QED BY <2>1, <2>2, <2>4, <2>5
<1> QED BY <1>1, <1>2

LEMMA BaseInit ==
    ASSUME Init
    PROVE  Base
<1>1. Shape  BY DEF Init, Shape, Fields
<1>2. Working  BY DEF Init, Working, IsWork, Rest, OnLink
<1>3. Wire
  <2>1. toNode \in Seq({}) /\ fromNode \in Seq({}) /\ Len(toNode) = 0 /\ Len(fromNode) = 0
    BY DEF Init
  <2> QED BY <2>1 DEF Init, Wire
<1>4. PendIsNew  BY DEF Init, PendIsNew
<1> QED BY <1>1, <1>2, <1>3, <1>4 DEF Base

LEMMA BaseStep ==
    ASSUME Base, [Next]_vars
    PROVE  Base'
BY ShapeStep, WorkingStep, WireStep, PendStep DEF Base

-----------------------------------------------------------------------------
(* Who the node is told we are.                                            *)

\* There is a node while a fetch is under way; a link asked for, or just come up
\* and not yet looked at, is the fetch's or an orphan.
AnonInv ==
    /\ b.node => b.phase # "Idle"
    /\ AnonymousUnlessOrphaned
    /\ pend # 0 \/ (up # 0 /\ \E r \in Readers : At(r, "proved")) => orphan \/ b.node

LEMMA AnonStep ==
    ASSUME Base, AnonInv, [Next]_vars
    PROVE  AnonInv'
<1>0. Shape /\ Working /\ PendIsNew  BY DEF Base
<1>1. NodeKind /\ LinkKind /\ Proofs  BY NodeStep, LinkStep, WorkingStep
<1>2. b'.node => b'.phase # "Idle"
  BY <1>0, <1>1 DEF AnonInv, NodeKind, Shape
<1>3. CASE NewRequest
  <2>1. AnonymousUnlessOrphaned'  BY <1>3 DEF NewRequest, AnonymousUnlessOrphaned
  <2>2. orphan' \/ b'.node  BY <1>0, <1>3 DEF NewRequest, Shape
  <2> QED BY <1>2, <2>1, <2>2 DEF AnonInv
<1>4. CASE \E r \in Readers : LinkProof(r)
  <2>1. pend # 0 /\ identified' = FALSE /\ orphan' = orphan /\ b' = b
    BY <1>4 DEF LinkProof
  <2>2. orphan' \/ b'.node  BY <2>1 DEF AnonInv
  <2> QED BY <1>2, <2>1, <2>2 DEF AnonInv, AnonymousUnlessOrphaned
<1>5. CASE /\ pend' \in {pend, 0} /\ up' \in {up, 0}
           /\ orphan' = orphan \/ orphan' = Orphaned
           /\ identified' = identified \/ \E r \in Readers : Identify(r)
           /\ ~\E r \in Readers : LinkProof(r)
  <2>1. orphan => orphan'  BY <1>0, <1>5 DEF Orphaned, Shape
  <2>2. ASSUME up' # 0, identified' PROVE orphan'
    <3>1. CASE identified
      BY <1>5, <2>1, <2>2, <3>1 DEF AnonInv, AnonymousUnlessOrphaned
    <3>2. CASE ~identified
      <4>1. PICK r \in Readers : Identify(r)  BY <1>0, <1>5, <2>2, <3>2 DEF Shape
      <4>2. At(r, "proved") /\ up = work[r].l /\ ~browser_targets
        BY <2>2, <3>2, <4>1 DEF Identify
      <4>3. up # 0  BY <1>5, <2>2
      <4>4. ~b.node  BY <4>2 DEF browser_targets, AnonInv
      <4>5. orphan  BY <4>2, <4>3, <4>4 DEF AnonInv
      <4> QED BY <2>1, <4>5
    <3> QED BY <3>1, <3>2
  <2>3. ASSUME pend' # 0 \/ (up' # 0 /\ \E r \in Readers : At(r, "proved")')
        PROVE  orphan' \/ b'.node
    <3>1. pend # 0 \/ (up # 0 /\ \E r \in Readers : At(r, "proved"))
      BY <1>1, <1>5, <2>3, ThreadsExist DEF Proofs, At
    <3>2. orphan \/ b.node  BY <3>1 DEF AnonInv
    <3>3. CASE orphan' = Orphaned
      BY <3>1, <3>3 DEF Orphaned
    <3>4. CASE orphan' # Orphaned
      BY <1>0, <1>1, <2>1, <3>2, <3>4 DEF NodeKind, Shape
    <3> QED BY <3>3, <3>4
  <2> QED BY <1>2, <2>2, <2>3 DEF AnonInv, AnonymousUnlessOrphaned
<1> QED BY <1>1, <1>3, <1>4, <1>5 DEF LinkKind

\* The node learns who we are only on a link whose fetch had ended before the link
\* came up: browser_targets, read by the reader that handles the proof, holds as long
\* as the fetch does.
THEOREM AnonymousUnlessOrphanedHolds == Spec => []AnonymousUnlessOrphaned
<1>1. Init => Base /\ AnonInv
  <2>1. Init => AnonInv  BY DEF Init, AnonInv, AnonymousUnlessOrphaned
  <2> QED BY <2>1, BaseInit
<1>2. Base /\ AnonInv /\ [Next]_vars => Base' /\ AnonInv'
  BY BaseStep, AnonStep
<1>3. AnonInv => AnonymousUnlessOrphaned
  BY DEF AnonInv
<1> QED BY <1>1, <1>2, <1>3, PTL DEF Spec

-----------------------------------------------------------------------------
(* Which page can be on its way.  Nothing in an answer says what it         *)
(* answers, so the argument is about the traffic on the link of a fetch: at *)
(* most one request or answer at a time, for the page being fetched, as     *)
(* long as threads take turns.  A fetch that ends early may leave an answer *)
(* behind on its link, which is why it drops the link.                     *)

\* Nothing is on its way on link u; at most one thing is, and it is about page p.
QuietOn(tn, fn, u) == fn = <<>> /\ \A i \in 1..Len(tn) : tn[i].l # u
About(a, p) == a.page = p \/ (a.page = NoPage /\ a.form \in {"packet", "close"})
FlightOn(tn, fn, u, p) ==
    /\ Len(fn) <= 1
    /\ \A i, j \in 1..Len(tn) : tn[i].l = u /\ tn[j].l = u => i = j
    /\ fn # <<>> => \A i \in 1..Len(tn) : tn[i].l # u
    /\ \A i \in 1..Len(tn) : tn[i].l = u => tn[i].page = p
    /\ \A i \in 1..Len(fn) : About(fn[i], p)
Quiet == QuietOn(toNode, fromNode, up)
Flight == FlightOn(toNode, fromNode, up, b.page)

Fetching == b.phase = "Fetching"
OurLink == Fetching /\ b.link = up
Received == b.phase # "Idle" => b.receiver \in {NoPage, b.page}

\* A thread at work is in step with the fetch it works for.
OnIt(w) == w.l = b.link /\ (w.l = up => Quiet)
InStep(w) ==
    /\ w.at \in {"start", "begin"} => b.phase = "Idle"
    /\ w.at \in {"lookup", "have", "ask"} => b.phase = "Linking"
    /\ w.at = "request" => b.phase = "Linking" /\ w.l = b.link
    /\ w.at \in {"send", "adv", "part", "verify", "clear", "packet"} => Fetching /\ OnIt(w)
    /\ w.at \in {"send", "adv", "clear"} => w.page = b.page
    /\ w.at = "packet" => w.page \in {NoPage, b.page}

FlowInv ==
    ~crossed =>
        /\ \A o, p \in Threads : o # p => work[o].at \in Idling \/ work[p].at \in Idling
        /\ \A th \in Threads : InStep(work[th])
        /\ Received
        /\ up # 0 /\ ~OurLink =>
              Quiet \/ \E th \in Threads : work[th].at = "drop" /\ work[th].l = up
        /\ up # 0 /\ OurLink => Flight \/ \E th \in Threads : work[th].at = "finish"

Busy(th) == work[th].at \notin Idling

\* What thread th may rely on when it moves and no other thread is at work.
Turn(th) ==
    /\ InStep(work[th]) /\ Received
    /\ up # 0 /\ ~OurLink => Quiet \/ (work[th].at = "drop" /\ work[th].l = up)
    /\ up # 0 /\ OurLink => Flight \/ work[th].at = "finish"

LEMMA OnlyMe ==
    ASSUME FlowInv, Working, NEW th \in Threads, NEW w, Moved(th, w), ~crossed',
           Busy(th) \/ w.at \notin Idling
    PROVE  ~crossed /\ \A o \in Threads : o # th => work[o].at \in Idling
<1>1. ~crossed /\ ~(w.at \notin Idling /\ Crossing(th))
  BY DEF Moved, Working
<1> QED BY <1>1 DEF FlowInv, Busy, Crossing

LEMMA MyTurn ==
    ASSUME FlowInv, Working, NEW th \in Threads, NEW w, Moved(th, w), ~crossed',
           Busy(th) \/ w.at \notin Idling
    PROVE  Turn(th) /\ \A o \in Threads : o # th => work[o].at \in Idling
<1>1. ~crossed /\ \A o \in Threads : o # th => work[o].at \in Idling
  BY OnlyMe
<1>2. \A o \in Threads : o # th => work[o].at \notin {"drop", "finish"}
  BY <1>1, Places
<1>3. Turn(th)
  BY <1>1, <1>2 DEF FlowInv, Turn
<1> QED BY <1>1, <1>3

\* What it has to leave behind.
LEMMA TurnLeft ==
    ASSUME FlowInv, Working, NEW th \in Threads, NEW w, Moved(th, w), ~crossed',
           Busy(th) \/ w.at \notin Idling,
           InStep(w)', Received',
           up' # 0 /\ ~OurLink' => Quiet' \/ (w.at = "drop" /\ w.l = up'),
           up' # 0 /\ OurLink' => Flight' \/ w.at = "finish"
    PROVE  FlowInv'
<1>1. \A o \in Threads : o # th => work[o].at \in Idling
  BY MyTurn
<1>2. work'[th] = w /\ \A o \in Threads : o # th => work'[o] = work[o]
  BY DEF Moved
<1>3. \A o \in Threads : o # th => InStep(work[o])'
  BY <1>1, <1>2, Places DEF InStep, Idling
<1>4. InStep(work[th])'  BY <1>2
<1> QED BY <1>1, <1>2, <1>3, <1>4 DEF FlowInv

\* The fetch goes on as it was.
FlowSame ==
    /\ b'.phase = b.phase /\ b'.page = b.page /\ b'.receiver = b.receiver
    /\ b'.link = b.link \/ b.phase = "Idle"

LEMMA ChangesFlow ==
    ASSUME NEW S, Changes(S), "phase" \notin S, "page" \notin S, "receiver" \notin S,
           "link" \notin S \/ b.phase = "Idle"
    PROVE  FlowSame
BY DEF Changes, FlowSame, Fields

LEMMA SameFlow ==
    ASSUME FlowSame
    PROVE  /\ Fetching' = Fetching /\ Received' = Received
           /\ up' = up => OurLink' = OurLink
           /\ b.phase # "Idle" => b'.link = b.link
BY DEF FlowSame, Fetching, Received, OurLink

\* A turn that changes neither the course of the fetch nor the wire.
LEMMA PlainTurn ==
    ASSUME FlowInv, Working, NEW th \in Threads, NEW w, Moved(th, w),
           Busy(th) \/ w.at \notin Idling,
           FlowSame, UNCHANGED <<up, toNode, fromNode>>,
           work[th].at \notin {"drop", "finish"},
           Turn(th) => InStep(w)
    PROVE  FlowInv'
<1> SUFFICES ASSUME ~crossed' PROVE FlowInv'
  BY DEF FlowInv
<1>1. Turn(th)  BY MyTurn
<1>2. /\ Quiet' = Quiet /\ Flight' = Flight /\ Received' = Received /\ OurLink' = OurLink
      /\ Fetching' = Fetching
  BY SameFlow DEF FlowSame, Quiet, Flight
<1>3. InStep(w)'
  BY <1>1, <1>2, SameFlow DEF FlowSame, InStep, OnIt, Fetching
<1> QED BY <1>1, <1>2, <1>3, TurnLeft DEF Turn

-----------------------------------------------------------------------------
(* The wire.                                                               *)

LEMMA QuietIsFlight ==
    ASSUME NEW tn, NEW fn, NEW u, NEW p, QuietOn(tn, fn, u)
    PROVE  FlightOn(tn, fn, u, p)
<1>1. fn = <<>> /\ Len(fn) = 0  BY DEF QuietOn
<1> QED BY <1>1 DEF QuietOn, FlightOn

LEMMA RequestGone ==
    ASSUME NEW S, NEW tn \in Seq(S), tn # <<>>, NEW fn, NEW u
    PROVE  /\ QuietOn(tn, fn, u) => QuietOn(Tail(tn), fn, u)
           /\ \A p : FlightOn(tn, fn, u, p) => FlightOn(Tail(tn), fn, u, p)
<1> DEFINE t == Tail(tn)
<1>1. /\ Len(tn) \in Nat /\ Len(t) = Len(tn) - 1
      /\ \A i \in 1..Len(t) : i + 1 \in 1..Len(tn) /\ t[i] = tn[i + 1]
  BY HeadTailProperties
<1> HIDE DEF t
<1>2. QuietOn(tn, fn, u) => QuietOn(t, fn, u)
  BY <1>1 DEF QuietOn
<1>3. ASSUME NEW p, FlightOn(tn, fn, u, p) PROVE FlightOn(t, fn, u, p)
  <2>1. \A i, j \in 1..Len(t) : t[i].l = u /\ t[j].l = u => i = j
    <3> SUFFICES ASSUME NEW i \in 1..Len(t), NEW j \in 1..Len(t), t[i].l = u, t[j].l = u
                 PROVE  i = j
      OBVIOUS
    <3>1. i + 1 = j + 1  BY <1>1, <1>3 DEF FlightOn
    <3> QED BY <3>1, <1>1
  <2>2. \A i \in 1..Len(t) : t[i].l = u => t[i].page = p
    BY <1>1, <1>3 DEF FlightOn
  <2>3. fn # <<>> => \A i \in 1..Len(t) : t[i].l # u
    BY <1>1, <1>3 DEF FlightOn
  <2> QED BY <1>3, <2>1, <2>2, <2>3 DEF FlightOn
<1> QED BY <1>2, <1>3 DEF t

LEMMA AnswerGone ==
    ASSUME NEW tn, NEW S, NEW fn \in Seq(S), fn # <<>>, NEW u
    PROVE  /\ ~QuietOn(tn, fn, u)
           /\ \A p : FlightOn(tn, fn, u, p) => QuietOn(tn, Tail(fn), u) /\ About(Head(fn), p)
<1>1. Len(fn) \in Nat /\ Len(fn) # 0 /\ Tail(fn) \in Seq(S)
      /\ Len(Tail(fn)) = Len(fn) - 1 /\ Head(fn) = fn[1]
  BY HeadTailProperties, EmptySeq
<1>2. ASSUME NEW p, FlightOn(tn, fn, u, p)
      PROVE  QuietOn(tn, Tail(fn), u) /\ About(Head(fn), p)
  <2>1. Len(fn) = 1  BY <1>1, <1>2 DEF FlightOn
  <2>2. Len(Tail(fn)) = 0  BY <1>1, <2>1
  <2>4. Tail(fn) = <<>>  BY <1>1, <2>2, EmptySeq
  <2>3. 1 \in 1..Len(fn)  BY <2>1
  <2> QED BY <1>1, <1>2, <2>4, <2>3 DEF FlightOn, QuietOn
<1> QED BY <1>2 DEF QuietOn

\* Asking on a quiet link.
LEMMA RequestOut ==
    ASSUME NEW S, NEW tn \in Seq(S), NEW fn, NEW u, QuietOn(tn, fn, u),
           NEW q, q.l = u
    PROVE  FlightOn(Append(tn, q), fn, u, q.page)
<1> DEFINE t == Append(tn, q)
<1>0. tn \in Seq(S \cup {q})  OBVIOUS
<1>1. /\ Len(tn) \in Nat /\ Len(t) = Len(tn) + 1 /\ t[Len(tn) + 1] = q
      /\ \A i \in 1..Len(tn) : t[i] = tn[i]
  BY <1>0, AppendProperties
<1> HIDE DEF t
<1>2. \A i \in 1..Len(t) : t[i].l = u => i = Len(tn) + 1
  BY <1>1 DEF QuietOn
<1>3. fn = <<>> /\ Len(fn) = 0  BY DEF QuietOn
<1>4. FlightOn(t, fn, u, q.page)
  BY <1>1, <1>2, <1>3 DEF FlightOn
<1> QED BY <1>4 DEF t

\* The node answers the oldest request.
LEMMA Answered ==
    ASSUME NEW S, NEW tn \in Seq(S), tn # <<>>, NEW T, NEW fn \in Seq(T), NEW u,
           Head(tn).l = u, NEW a
    PROVE  /\ ~QuietOn(tn, fn, u)
           /\ \A p : FlightOn(tn, fn, u, p) /\ About(a, p)
                 => FlightOn(Tail(tn), Append(fn, a), u, p)
           /\ \A p : FlightOn(tn, fn, u, p) => Head(tn).page = p
<1> DEFINE t == Tail(tn)
<1>1. /\ Len(tn) \in Nat /\ Len(tn) # 0 /\ Len(t) = Len(tn) - 1 /\ Head(tn) = tn[1]
      /\ \A i \in 1..Len(t) : i + 1 \in 1..Len(tn) /\ t[i] = tn[i + 1]
  BY HeadTailProperties, EmptySeq
<1> HIDE DEF t
<1>2. 1 \in 1..Len(tn) /\ tn[1].l = u  BY <1>1
<1>3. ASSUME NEW p, FlightOn(tn, fn, u, p), About(a, p)
      PROVE  FlightOn(t, Append(fn, a), u, p)
  <2>1. fn = <<>>  BY <1>2, <1>3 DEF FlightOn
  <2>2. Len(Append(fn, a)) = 1 /\ Append(fn, a)[1] = a
    BY <2>1
  <2>3. ASSUME NEW i \in 1..Len(t) PROVE t[i].l # u
    <3>1. i + 1 \in 1..Len(tn) /\ t[i] = tn[i + 1] /\ i + 1 # 1  BY <1>1
    <3> QED BY <1>2, <1>3, <3>1 DEF FlightOn
  <2> QED BY <1>3, <2>2, <2>3 DEF FlightOn
<1>4. ASSUME NEW p, FlightOn(tn, fn, u, p) PROVE Head(tn).page = p
  BY <1>1, <1>2, <1>4 DEF FlightOn
<1> QED BY <1>2, <1>3, <1>4 DEF QuietOn, t

\* The wire keeps its order.
WireKept ==
    \/ up' = 0
    \/ /\ up' = up
       /\ QuietOn(toNode, fromNode, up) => QuietOn(toNode', fromNode', up)
       /\ \A p : FlightOn(toNode, fromNode, up, p) => FlightOn(toNode', fromNode', up, p)

LEMMA SameWire ==
    ASSUME UNCHANGED <<up, toNode, fromNode>>
    PROVE  WireKept
BY DEF WireKept

LEMMA AnswerLost ==
    ASSUME Wire, fromNode # <<>>, fromNode' = Tail(fromNode), UNCHANGED <<up, toNode>>
    PROVE  WireKept
<1>1. PICK S : fromNode \in Seq(S)  BY DEF Wire
<1>2. ASSUME NEW p, FlightOn(toNode, fromNode, up, p)
      PROVE  FlightOn(toNode', fromNode', up, p)
  BY <1>1, <1>2, AnswerGone, QuietIsFlight
<1> QED BY <1>1, <1>2, AnswerGone DEF WireKept

LEMMA RequestLost ==
    ASSUME Wire, toNode # <<>>, toNode' = Tail(toNode), UNCHANGED <<up, fromNode>>
    PROVE  WireKept
<1>1. PICK S : toNode \in Seq(S)  BY DEF Wire
<1> QED BY <1>1, RequestGone DEF WireKept

LEMMA NodeKeeps ==
    ASSUME Wire, NodeServes
    PROVE  WireKept
<1>0. PICK S, T : toNode \in Seq(S) /\ fromNode \in Seq(T)  BY DEF Wire
<1> DEFINE q == Head(toNode)
<1>1. toNode # <<>> /\ toNode' = Tail(toNode) /\ up' = up
  BY DEF NodeServes, link
<1>2. PICK form \in {"packet", "adv", "part", "close"} : \E page :
              /\ fromNode' = IF up = q.l THEN Append(fromNode, [form |-> form, page |-> page])
                             ELSE fromNode
              /\ page = q.page \/ (page = NoPage /\ form \in {"packet", "close"})
  BY DEF NodeServes
<1>2a. PICK page :
              /\ fromNode' = IF up = q.l THEN Append(fromNode, [form |-> form, page |-> page])
                             ELSE fromNode
              /\ page = q.page \/ (page = NoPage /\ form \in {"packet", "close"})
  BY <1>2
<1> DEFINE a == [form |-> form, page |-> page]
<1>3. a.form = form /\ a.page = page  OBVIOUS
<1>4. CASE q.l # up
  BY <1>0, <1>1, <1>2a, <1>4, RequestGone DEF WireKept
<1>5. CASE q.l = up
  <2>1. fromNode' = Append(fromNode, a)
    BY <1>2a, <1>5
  <2>2. About(a, q.page)  BY <1>2a, <1>3 DEF About
  <2> HIDE DEF a
  <2>3. ASSUME NEW p, FlightOn(toNode, fromNode, up, p)
        PROVE  FlightOn(toNode', fromNode', up, p)
    <3>1. q.page = p  BY <1>0, <1>1, <1>5, <2>3, Answered
    <3> QED BY <1>0, <1>1, <1>5, <2>1, <2>2, <2>3, <3>1, Answered
  <2>4. ~QuietOn(toNode, fromNode, up)
    BY <1>0, <1>1, <1>5, Answered
  <2> QED BY <1>1, <2>3, <2>4 DEF WireKept
<1> QED BY <1>4, <1>5

\* Steps of the others, and of threads that have decided nothing.
LEMMA OthersTurn ==
    ASSUME FlowInv, Working, FlowSame, WireKept,
           \A o \in Threads : \/ work'[o] = work[o]
                              \/ work[o].at \in Idling /\ work'[o].at \in Idling,
           crossed => crossed'
    PROVE  FlowInv'
<1> SUFFICES ASSUME ~crossed PROVE FlowInv'
  BY DEF FlowInv
<1>1. /\ Received' = Received /\ Fetching' = Fetching
      /\ b'.phase = b.phase /\ b'.page = b.page
      /\ b.phase # "Idle" => b'.link = b.link
  BY SameFlow DEF FlowSame
<1>2. /\ \A o, p \in Threads : o # p => work[o].at \in Idling \/ work[p].at \in Idling
      /\ \A th \in Threads : InStep(work[th])
      /\ Received
      /\ up # 0 /\ ~OurLink =>
            Quiet \/ \E th \in Threads : work[th].at = "drop" /\ work[th].l = up
      /\ up # 0 /\ OurLink => Flight \/ \E th \in Threads : work[th].at = "finish"
  BY DEF FlowInv
<1>3. \A o \in Threads : work[o].at \notin Idling => work'[o] = work[o]
  OBVIOUS
<1>4. \A o \in Threads : work[o].at \in {"drop", "finish"} => work'[o] = work[o]
  BY <1>3, Places
<1>5. \A o, p \in Threads : o # p => work'[o].at \in Idling \/ work'[p].at \in Idling
  BY <1>2
<1>6. ASSUME NEW o \in Threads PROVE InStep(work[o])'
  <2>1. CASE work'[o].at \in Idling
    BY <2>1 DEF InStep, Idling
  <2>2. CASE work'[o].at \notin Idling
    <3>1. work'[o] = work[o] /\ InStep(work[o]) /\ (work[o].at \in OnLink => work[o].l # 0)
      BY <1>2, <2>2 DEF Working
    <3>2. work[o].l = up' /\ up' # 0 => up' = up /\ (Quiet => Quiet')
      BY DEF WireKept, Quiet
    <3> QED BY <1>1, <3>1, <3>2, Places DEF InStep, OnIt, Fetching
  <2> QED BY <2>1, <2>2
<1>7. ASSUME up' # 0
      PROVE  /\ ~OurLink' => Quiet' \/ \E th \in Threads : work'[th].at = "drop" /\ work'[th].l = up'
             /\ OurLink' => Flight' \/ \E th \in Threads : work'[th].at = "finish"
  <2>1. up' = up /\ OurLink' = OurLink  BY <1>7, SameFlow DEF WireKept
  <2>2. (Quiet => Quiet') /\ (Flight => Flight')
    BY <1>1, <1>7 DEF WireKept, Quiet, Flight
  <2> QED BY <1>2, <1>4, <1>7, <2>1, <2>2
<1> QED BY <1>1, <1>2, <1>5, <1>6, <1>7 DEF FlowInv

LEMMA IdlingTurn ==
    ASSUME FlowInv, Working, NEW th \in Threads, NEW w, Moved(th, w),
           work[th].at \in Idling, w.at \in Idling, FlowSame, WireKept
    PROVE  FlowInv'
<1>1. crossed' = crossed  BY DEF Moved, Working
<1> QED BY <1>1, OthersTurn DEF Moved

\* Turns by Goto and Done.
LEMMA PlainGoto ==
    ASSUME FlowInv, Working, NEW th \in Threads, NEW s, Goto(th, s),
           Busy(th) \/ s \notin Idling, FlowSame, UNCHANGED <<up, toNode, fromNode>>,
           work[th].at \notin {"drop", "finish"},
           s \in {"start", "begin", "lookup", "have", "ask", "request", "send", "adv", "part",
                  "verify", "clear", "packet"} =>
              \/ s = "begin" /\ work[th].at = "start"
              \/ s = "ask" /\ work[th].at = "lookup"
              \/ s = "verify" /\ work[th].at = "part"
    PROVE  FlowInv'
<1>1. PICK w : Moved(th, w) /\ w.at = s /\ w.l = work[th].l /\ w.page = work[th].page
  BY GotoMoves
<1>2. Turn(th) => InStep(w)
  BY <1>1 DEF Turn, InStep, OnIt
<1> QED BY <1>1, <1>2, PlainTurn

LEMMA PlainDone ==
    ASSUME FlowInv, Working, NEW th \in Threads, Done(th), Busy(th),
           FlowSame, UNCHANGED <<up, toNode, fromNode>>,
           work[th].at \notin {"drop", "finish"}
    PROVE  FlowInv'
<1>1. Moved(th, Rest)  BY DoneMoves
<1>2. InStep(Rest)  BY RestWork DEF InStep
<1> QED BY <1>1, <1>2, PlainTurn

LEMMA IdlingDone ==
    ASSUME FlowInv, Working, NEW th \in Threads, Done(th), work[th].at \in Idling,
           FlowSame, WireKept
    PROVE  FlowInv'
BY DoneMoves, RestWork, IdlingTurn

LEMMA IdlingGoto ==
    ASSUME FlowInv, Working, NEW th \in Threads, NEW s \in Idling, Goto(th, s),
           work[th].at \in Idling, FlowSame, WireKept
    PROVE  FlowInv'
<1>1. PICK w : Moved(th, w) /\ w.at = s /\ w.l = work[th].l /\ w.page = work[th].page
  BY GotoMoves
<1> QED BY <1>1, IdlingTurn

-----------------------------------------------------------------------------
(* Every step keeps threads and wire in step with the fetch.               *)

\* The end of a fetch: what its link still carries, it will drop.
LEMMA EndFlows ==
    ASSUME Base, FlowInv, NEW th \in Threads, NEW w, Moved(th, w), w.at = "drop", w.l = b.link,
           b'.phase = "Idle", UNCHANGED <<up, toNode, fromNode>>,
           work[th].at \in {"finish", "rest"}
    PROVE  FlowInv'
<1> SUFFICES ASSUME ~crossed' PROVE FlowInv'
  BY DEF FlowInv
<1>0. Working  BY DEF Base
<1>1. w.at \notin Idling  BY Places
<1>2. Turn(th)  BY <1>0, <1>1, MyTurn
<1>3. InStep(w)' /\ Received' /\ ~OurLink'
  BY DEF InStep, Received, OurLink, Fetching
<1>4. up' # 0 => Quiet' \/ w.l = up'
  BY <1>2 DEF Turn, OurLink, Quiet
<1> QED BY <1>0, <1>1, <1>3, <1>4, TurnLeft

LEMMA FinishFlows ==
    ASSUME Base, FlowInv, NEW th \in Threads, Finish(th)
    PROVE  FlowInv'
<1>0. Shape /\ Working /\ DOMAIN b = Fields  BY DEF Base, Shape
<1>1. PICK w : Moved(th, w) /\ w.at = "drop" /\ w.l = b.link
  BY <1>0, FinishMoves
<1>2. b'.phase = "Idle" /\ UNCHANGED <<up, toNode, fromNode>> /\ work[th].at = "finish"
  BY <1>0, NoFetchFields DEF Finish, link, net, At
<1> QED BY <1>1, <1>2, EndFlows

LEMMA SuspendFlows ==
    ASSUME Base, FlowInv, Suspend
    PROVE  FlowInv'
<1>0. Shape /\ Working /\ DOMAIN b = Fields /\ "ui" \in Threads
  BY ThreadsExist DEF Base, Shape
<1>1. PICK w : Moved("ui", w) /\ w.at = "drop" /\ w.l = b.link
  BY <1>0, SuspendMoves
<1>2. "phase" \in Fields \ {"viewing"}  BY DEF Fields
<1>3. b'.phase = "Idle" /\ UNCHANGED <<up, toNode, fromNode>> /\ work["ui"].at = "rest"
  BY <1>0, <1>2, NoFetchFields, ChangesUi DEF Suspend, link, net, At
<1> QED BY <1>0, <1>1, <1>3, EndFlows

LEMMA DropFlows ==
    ASSUME Base, FlowInv, NEW th \in Threads, DropOutLink(th)
    PROVE  FlowInv'
<1> SUFFICES ASSUME ~crossed' PROVE FlowInv'
  BY DEF FlowInv
<1>0. Shape /\ Working /\ DOMAIN b = Fields  BY DEF Base, Shape
<1>1. PICK w : Moved(th, w) /\ w.at \in {"park", "rest"}
  <2>1. Done(th) \/ Goto(th, "park")  BY DEF DropOutLink
  <2> QED BY <1>0, <2>1, DoneMoves, GotoMoves, RestWork
<1>2. work[th].at = "drop" /\ Busy(th)  BY Places DEF DropOutLink, At, Busy
<1>3. Turn(th)  BY <1>0, <1>1, <1>2, MyTurn
<1>4. /\ b' = b /\ toNode' = toNode
      /\ \/ up' = 0
         \/ up' = up /\ fromNode' = fromNode /\ ~(work[th].l # 0 /\ work[th].l = up)
  BY DEF DropOutLink
<1>5. InStep(w)' /\ Received'
  BY <1>1, <1>3, <1>4 DEF InStep, Turn, Received, Fetching
<1>6. ASSUME up' # 0
      PROVE  (~OurLink' => Quiet') /\ (OurLink' => Flight')
  <2>1. up' = up /\ fromNode' = fromNode /\ work[th].l # up  BY <1>4, <1>6
  <2>2. Quiet' = Quiet /\ Flight' = Flight /\ OurLink' = OurLink
    BY <1>4, <2>1 DEF Quiet, Flight, OurLink, Fetching
  <2> QED BY <1>2, <1>3, <1>6, <2>1, <2>2 DEF Turn
<1> QED BY <1>0, <1>1, <1>2, <1>5, <1>6, TurnLeft

\* A link is used for a fetch only when nothing is on it.
LEMMA FetchingFlows ==
    ASSUME Base, FlowInv, NEW th \in Threads, SetFetching(th)
    PROVE  FlowInv'
<1> SUFFICES ASSUME ~crossed' PROVE FlowInv'
  BY DEF FlowInv
<1>0. Shape /\ Working /\ DOMAIN b = Fields  BY DEF Base, Shape
<1>1. PICK w : Moved(th, w) /\ w.at = "send" /\ w.l = work[th].l /\ w.page = b.page
  BY <1>0, FetchingMoves
<1>2. work[th].at = "request" /\ Busy(th) /\ UNCHANGED <<up, toNode, fromNode>>
  BY Places DEF SetFetching, At, Busy, link, net, Idling
<1>3. Turn(th)  BY <1>0, <1>1, <1>2, MyTurn
<1>4. /\ b'.phase = "Fetching" /\ b'.link = b.link /\ b'.page = b.page
      /\ b'.receiver = b.receiver
  BY <1>0, ChangesAny DEF Changes, Fields
<1>5. b.phase = "Linking" /\ w.l = b.link /\ (up # 0 => Quiet)
  BY <1>1, <1>2, <1>3 DEF Turn, InStep, OurLink, Fetching
<1>6. w.l # 0  BY <1>0, <1>1, <1>2, Places DEF Working
<1>7. (up' # 0 => Quiet') /\ (up' # 0 => Flight')
  BY <1>2, <1>5, QuietIsFlight DEF Quiet, Flight
<1>8. InStep(w)'
  BY <1>1, <1>4, <1>5, <1>6, <1>7 DEF InStep, OnIt, Fetching
<1>9. Received'
  BY <1>3, <1>4, <1>5 DEF Turn, Received
<1> QED BY <1>0, <1>1, <1>2, <1>7, <1>8, <1>9, TurnLeft

\* A page, or parts, are asked for on a quiet link.
LEMMA SentFlows ==
    ASSUME Base, FlowInv, NEW th \in Threads, NEW req, Sent(work[th].l, req, work[th].page),
           Done(th), work[th].at \in {"send", "adv"}, UNCHANGED <<up, fromNode>>,
           b'.phase = b.phase, b'.page = b.page, b'.link = b.link,
           b'.receiver \in {b.receiver, work[th].page}
    PROVE  FlowInv'
<1> SUFFICES ASSUME ~crossed' PROVE FlowInv'
  BY DEF FlowInv
<1>0. Shape /\ Working /\ Wire /\ DOMAIN b = Fields  BY DEF Base, Shape
<1>1. Moved(th, Rest) /\ Rest.at = "rest" /\ Busy(th)
  BY <1>0, DoneMoves, RestWork, Places DEF Busy
<1>2. Turn(th)  BY <1>0, <1>1, MyTurn
<1>3. /\ Fetching /\ work[th].l = b.link /\ work[th].page = b.page
      /\ work[th].l = up => Quiet
  BY <1>2 DEF Turn, InStep, OnIt
<1>4. InStep(Rest)' /\ Received'
  BY <1>1, <1>2, <1>3 DEF InStep, Turn, Received, Fetching
<1>5. OurLink' = OurLink  BY DEF OurLink, Fetching
<1>6. ASSUME up' # 0, ~OurLink' PROVE Quiet'
  <2>1. up # work[th].l /\ ~OurLink /\ up # 0
    BY <1>3, <1>5, <1>6 DEF OurLink
  <2>2. toNode' = toNode  BY <2>1 DEF Sent
  <2> QED BY <1>2, <2>1, <2>2 DEF Turn, Quiet
<1>7. ASSUME up' # 0, OurLink' PROVE Flight'
  <2> DEFINE q == [l |-> work[th].l, req |-> req, page |-> work[th].page]
  <2>1. work[th].l = up /\ up # 0 /\ Quiet  BY <1>3, <1>5, <1>7 DEF OurLink
  <2>2. toNode' = Append(toNode, q)  BY <2>1 DEF Sent
  <2>3. q.l = up /\ q.page = b.page  BY <1>3, <2>1
  <2> HIDE DEF q
  <2>4. PICK S : toNode \in Seq(S)  BY <1>0 DEF Wire
  <2>5. FlightOn(Append(toNode, q), fromNode, up, q.page)
    BY <2>1, <2>3, <2>4, RequestOut DEF Quiet
  <2> QED BY <2>2, <2>3, <2>5 DEF Flight
<1> QED BY <1>0, <1>1, <1>4, <1>6, <1>7, TurnLeft

LEMMA SendFlows ==
    ASSUME Base, FlowInv, NEW th \in Threads, SendRequest(th)
    PROVE  FlowInv'
<1>0. Shape /\ Working  BY DEF Base
<1>1. /\ work[th].at = "send" /\ UNCHANGED <<b, up, fromNode>>
  BY DEF SendRequest, At, link
<1>2. CASE Sent(work[th].l, "page", work[th].page) /\ Done(th)
  BY <1>1, <1>2, SentFlows
<1>3. CASE Goto(th, "finish") /\ UNCHANGED toNode
  <2>1. FlowSame  BY <1>1 DEF FlowSame
  <2> QED BY <1>0, <1>1, <1>3, <2>1, PlainGoto, Places
<1> QED BY <1>2, <1>3 DEF SendRequest

LEMMA AdvertisedFlows ==
    ASSUME Base, FlowInv, NEW r \in Readers, Advertised(r)
    PROVE  FlowInv'
<1> USE ThreadsExist
<1>0. Shape /\ Working  BY DEF Base
<1>1. work[r].at = "adv" /\ UNCHANGED <<up, fromNode>>
  BY DEF Advertised, At, link
<1>2. CASE /\ Changes({"receiver"}) /\ b'.receiver = work[r].page
           /\ Sent(work[r].l, "parts", work[r].page) /\ Done(r)
  <2>1. b'.phase = b.phase /\ b'.page = b.page /\ b'.link = b.link
    BY <1>2 DEF Changes, Fields
  <2> QED BY <1>1, <1>2, <2>1, SentFlows
<1>3. CASE Changes({}) /\ Goto(r, "finish") /\ UNCHANGED toNode
  <2>1. FlowSame  BY <1>3, ChangesFlow
  <2> QED BY <1>0, <1>1, <1>3, <2>1, PlainGoto, Places
<1> QED BY <1>0, <1>2, <1>3, ChangesReader

LEMMA BeginFlows ==
    ASSUME Base, FlowInv, BeginFetch
    PROVE  FlowInv'
<1> USE ThreadsExist
<1> SUFFICES ASSUME ~crossed' PROVE FlowInv'
  BY DEF FlowInv
<1>0. Shape /\ Working /\ DOMAIN b = Fields  BY DEF Base, Shape
<1>1. PICK w : Moved("browser", w) /\ w.at = "lookup"
  BY <1>0, GotoMoves DEF BeginFetch
<1>2. work["browser"].at = "begin" /\ Busy("browser") /\ UNCHANGED <<up, toNode, fromNode>>
  BY Places DEF BeginFetch, At, Busy, link, net
<1>3. Turn("browser") /\ b.phase = "Idle"
  BY <1>0, <1>1, <1>2, MyTurn DEF Turn, InStep
<1>4. b'.phase = "Linking" /\ b'.receiver = NoPage  BY <1>0, BeginFields
<1>5. InStep(w)' /\ Received' /\ ~OurLink'
  BY <1>1, <1>4 DEF InStep, Received, OurLink, Fetching
<1>6. up' # 0 => Quiet'
  BY <1>2, <1>3 DEF Turn, OurLink, Fetching, Quiet
<1> QED BY <1>0, <1>1, <1>2, <1>5, <1>6, TurnLeft

\* The fetch gets a link: nothing is on one that no fetch uses.
LEMMA GotLinkFlows ==
    ASSUME Base, FlowInv, NEW th \in Threads, Goto(th, "request"),
           work[th].at \in {"have", "linkup"}, b.phase = "Linking",
           UNCHANGED <<up, toNode, fromNode>>,
           Changes({"link"}), b'.link = work[th].l
    PROVE  FlowInv'
<1> SUFFICES ASSUME ~crossed' PROVE FlowInv'
  BY DEF FlowInv
<1>0. Shape /\ Working  BY DEF Base
<1>1. PICK w : Moved(th, w) /\ w.at = "request" /\ w.l = work[th].l
  BY <1>0, GotoMoves
<1>2. Busy(th)  BY Places DEF Busy
<1>3. Turn(th)  BY <1>0, <1>1, <1>2, MyTurn
<1>4. b'.phase = "Linking" /\ b'.page = b.page /\ b'.receiver = b.receiver
  BY DEF Changes, Fields
<1>5. InStep(w)' /\ Received' /\ ~OurLink' /\ ~OurLink
  BY <1>1, <1>3, <1>4 DEF InStep, Turn, Received, OurLink, Fetching
<1>6. up' # 0 => Quiet'
  BY <1>3, <1>5 DEF Turn, Quiet
<1> QED BY <1>0, <1>1, <1>2, <1>5, <1>6, TurnLeft

LEMMA BrowserFlows ==
    ASSUME Base, FlowInv, BrowserStep
    PROVE  FlowInv'
<1> USE ThreadsExist, Places
<1>0. Shape /\ Working  BY DEF Base
<1>1. UNCHANGED <<up, toNode, fromNode>>
  BY DEF BrowserStep, TickStalled, TickLinking, TickJob, ExpirePath, StartFetch,
      BeginFetch, Lookup, UseLink, Retry, AskLink, link, net
<1>2. CASE TickStalled
  <2> DEFINE s == IF b.phase = "Linking" THEN "expire" ELSE "finish"
  <2>1. Goto("browser", s) /\ s \in {"expire", "finish"} /\ work["browser"].at = "rest"
    BY <1>2 DEF TickStalled, At
  <2>2. FlowSame  BY <1>0, <1>2, ChangesBrowser, ChangesFlow
  <2> HIDE DEF s
  <2> QED BY <1>0, <1>1, <2>1, <2>2, PlainGoto
<1>3. CASE TickLinking
  <2>1. FlowSame  BY <1>0, <1>3, ChangesBrowser, ChangesFlow
  <2> QED BY <1>0, <1>1, <1>3, <2>1, SameWire, IdlingGoto DEF TickLinking, At
<1>4. CASE TickJob
  <2>1. work["browser"].at = "rest"  BY <1>4 DEF TickJob, At
  <2>2. CASE Changes({"left", "wait"}) /\ Done("browser")
    BY <1>0, <1>1, <2>1, <2>2, ChangesFlow, SameWire, IdlingDone
  <2>3. CASE /\ Changes({"left", "wait", "requested"}) /\ b.phase = "Idle"
             /\ Step("browser", [Rest EXCEPT !.at = "start", !.page = b.requested])
    <3>1. PICK w : Moved("browser", w) /\ w.at = "start" /\ w.page = b.requested
      BY <1>0, <2>3, JobMoves
    <3>2. FlowSame  BY <2>3, ChangesFlow
    <3>3. InStep(w)  BY <2>3, <3>1 DEF InStep
    <3> QED BY <1>0, <1>1, <2>1, <3>1, <3>2, <3>3, PlainTurn
  <2> QED BY <1>0, <1>4, <2>2, <2>3, ChangesBrowser
<1>5. CASE ExpirePath
  <2>1. FlowSame  BY <1>0, <1>5, ChangesBrowser, ChangesFlow
  <2>2. work["browser"].at = "expire" /\ Goto("browser", "finish")  BY <1>5 DEF ExpirePath, At
  <2> QED BY <1>0, <1>1, <2>1, <2>2, PlainGoto
<1>6. CASE Retry
  <2>1. FlowSame  BY <1>0, <1>6, ChangesBrowser, ChangesFlow
  <2>2. /\ work["browser"].at = "retry"
        /\ Goto("browser", "finish") \/ Done("browser")
    BY <1>6 DEF Retry, SendLinkRequest, At
  <2> QED BY <1>0, <1>1, <2>1, <2>2, PlainGoto, SameWire, IdlingDone
<1>7. CASE AskLink
  <2>1. FlowSame  BY <1>0, <1>7, ChangesBrowser, ChangesFlow
  <2>2. /\ work["browser"].at = "ask" /\ Busy("browser")
        /\ Goto("browser", "finish") \/ Done("browser")
    BY <1>7 DEF AskLink, SendLinkRequest, At, Busy
  <2> QED BY <1>0, <1>1, <2>1, <2>2, PlainGoto, PlainDone
<1>8. CASE StartFetch
  <2>1. work["browser"].at = "start" /\ Busy("browser")  BY <1>8 DEF StartFetch, At, Busy
  <2>2. CASE /\ Changes({"route_tries"})
             /\ (Goto("browser", "begin") \/ Goto("browser", "finish"))
    <3>1. FlowSame  BY <2>2, ChangesFlow
    <3> QED BY <1>0, <1>1, <2>1, <2>2, <3>1, PlainGoto
  <2>3. CASE Changes({"route_tries", "requested", "wait"}) /\ Done("browser")
    <3>1. FlowSame  BY <2>3, ChangesFlow
    <3> QED BY <1>0, <1>1, <2>1, <2>3, <3>1, PlainDone
  <2> QED BY <1>0, <1>8, <2>2, <2>3, ChangesBrowser
<1>9. CASE Lookup
  <2>1. FlowSame  BY <1>0, <1>9, ChangesBrowser, ChangesFlow
  <2>2. work["browser"].at = "lookup" /\ Busy("browser")  BY <1>9 DEF Lookup, At, Busy
  <2>3. CASE up = 0
    BY <1>0, <1>1, <1>9, <2>1, <2>2, <2>3, PlainGoto DEF Lookup
  <2>4. CASE up # 0
    <3>1. PICK w : Moved("browser", w) /\ w.at = "have" /\ w.l = up
      BY <1>0, <1>9, <2>4, LookupMoves
    <3>2. Turn("browser") => InStep(w)
      BY <2>2, <3>1 DEF Turn, InStep
    <3> QED BY <1>0, <1>1, <2>1, <2>2, <3>1, <3>2, PlainTurn
  <2> QED BY <2>3, <2>4
<1>10. CASE UseLink
  <2> SUFFICES ASSUME ~crossed' PROVE FlowInv'
    BY DEF FlowInv
  <2>1. work["browser"].at = "have" /\ Goto("browser", "request") /\ Busy("browser")
    BY <1>10 DEF UseLink, At, Busy
  <2>2. PICK w : Moved("browser", w) /\ w.at = "request"
    BY <1>0, <2>1, GotoMoves
  <2>3. b.phase = "Linking"
    BY <1>0, <2>1, <2>2, MyTurn DEF Turn, InStep
  <2> QED BY <1>0, <1>1, <1>10, <2>1, <2>3, ChangesBrowser, GotLinkFlows
<1> QED BY <1>2, <1>3, <1>4, <1>5, <1>6, <1>7, <1>8, <1>9, <1>10, BeginFlows DEF BrowserStep

-----------------------------------------------------------------------------

\* A link proof: the new link is one that nothing was ever sent on.
LEMMA LinkProofFlows ==
    ASSUME Base, FlowInv, NEW r \in Readers, LinkProof(r)
    PROVE  FlowInv'
<1> USE ThreadsExist, Places
<1> SUFFICES ASSUME ~crossed' PROVE FlowInv'
  BY DEF FlowInv
<1>0. Working /\ PendIsNew  BY DEF Base
<1>1. PICK w : Moved(r, w) /\ w.at = "proved" /\ w.l = pend
  BY <1>0, LinkProofMoves
<1>2. /\ UNCHANGED <<b, toNode>> /\ up' = pend /\ pend # 0 /\ fromNode' = <<>>
      /\ work[r].at = "rest" /\ w.at \notin Idling
  BY <1>1 DEF LinkProof, At
<1>3. Turn(r)  BY <1>0, <1>1, <1>2, MyTurn
<1>4. ~OurLink' /\ Quiet'
  BY <1>0, <1>2 DEF PendIsNew, OurLink, Quiet, QuietOn
<1>5. InStep(w)' /\ Received'
  BY <1>1, <1>2, <1>3 DEF InStep, Turn, Received
<1> QED BY <1>0, <1>1, <1>2, <1>4, <1>5, TurnLeft

\* An answer: it is about the page being fetched, and the last on the link.
LEMMA ReceiveFlows ==
    ASSUME Base, FlowInv, NEW r \in Readers, Receive(r)
    PROVE  FlowInv'
<1> USE ThreadsExist, Places
<1>0. Shape /\ Working /\ Wire  BY DEF Base
<1>1. /\ UNCHANGED <<up, toNode>> /\ fromNode # <<>> /\ fromNode' = Tail(fromNode)
      /\ work[r].at = "rest" /\ Head(fromNode).form # "close"
  BY DEF Receive, At, link
<1>2. FlowSame  BY <1>0, ChangesReader, ChangesFlow
<1>3. CASE Done(r)
  BY <1>0, <1>1, <1>2, <1>3, AnswerLost, IdlingDone
<1>4. CASE ~Done(r)
  <2> SUFFICES ASSUME ~crossed' PROVE FlowInv'
    BY DEF FlowInv
  <2>1. PICK w : /\ Moved(r, w) /\ w.at = Head(fromNode).form /\ w.l = up /\ up # 0
                 /\ w.page = Head(fromNode).page /\ w.at \in {"packet", "adv", "part"}
                 /\ b.link = up /\ b.phase = "Fetching"
    BY <1>0, <1>4, ReceiveMoves
  <2>2. w.at \notin Idling  BY <2>1
  <2>3. Turn(r)  BY <1>0, <2>1, <2>2, MyTurn
  <2>4. OurLink /\ Flight
    BY <1>1, <2>1, <2>3 DEF Turn, OurLink, Fetching
  <2>5. PICK S : fromNode \in Seq(S)  BY <1>0 DEF Wire
  <2>6. QuietOn(toNode, Tail(fromNode), up) /\ About(Head(fromNode), b.page)
    BY <1>1, <2>4, <2>5, AnswerGone DEF Flight
  <2>7. Quiet' /\ Flight' /\ OurLink' /\ Fetching' /\ Received'
    <3>1. Quiet'  BY <1>1, <2>6 DEF Quiet
    <3>2. Flight'  BY <3>1, QuietIsFlight DEF Quiet, Flight
    <3> QED BY <1>1, <1>2, <2>3, <2>4, <3>1, <3>2, SameFlow DEF Turn, OurLink
  <2>8. w.at = "adv" => w.page = b.page
    BY <2>1, <2>6 DEF About
  <2>9. w.at = "packet" => w.page \in {NoPage, b.page}
    BY <2>1, <2>6 DEF About
  <2>10. b'.page = b.page /\ b'.link = b.link
    BY <1>2, <2>1 DEF FlowSame
  <2>11. InStep(w)'
    BY <1>1, <2>1, <2>7, <2>8, <2>9, <2>10 DEF InStep, OnIt
  <2> QED BY <1>0, <1>1, <2>1, <2>2, <2>7, <2>11, TurnLeft
<1> QED BY <1>3, <1>4

LEMMA ClosedFlows ==
    ASSUME Base, FlowInv, NEW r \in Readers, OutLinkClosed(r)
    PROVE  FlowInv'
<1> USE ThreadsExist, Places
<1>0. Shape /\ Working  BY DEF Base
<1>1. up' = 0 /\ work[r].at = "rest" /\ WireKept
  BY DEF OutLinkClosed, At, WireKept
<1>2. CASE Changes({"link"}) /\ b.phase = "Idle" /\ Done(r)
  BY <1>0, <1>1, <1>2, ChangesFlow, IdlingDone
<1>3. CASE Changes({}) /\ Done(r)
  BY <1>0, <1>1, <1>3, ChangesFlow, IdlingDone
<1>4. CASE Changes({}) /\ Goto(r, "finish")
  <2> SUFFICES ASSUME ~crossed' PROVE FlowInv'
    BY DEF FlowInv
  <2>1. PICK w : Moved(r, w) /\ w.at = "finish"
    BY <1>0, <1>4, GotoMoves
  <2>2. w.at \notin Idling  BY <2>1
  <2>3. Turn(r) /\ FlowSame  BY <1>0, <1>4, <2>1, <2>2, MyTurn, ChangesFlow
  <2>4. InStep(w)' /\ Received'
    BY <2>1, <2>3, SameFlow DEF InStep, Turn
  <2> QED BY <1>0, <1>1, <2>1, <2>2, <2>4, TurnLeft
<1> QED BY <1>0, <1>2, <1>3, <1>4, ChangesReader

LEMMA VerifyFlows ==
    ASSUME Base, FlowInv, NEW r \in Readers, VerifyPage(r)
    PROVE  FlowInv'
<1> USE ThreadsExist, Places
<1>0. Shape /\ Working  BY DEF Base
<1>1. work[r].at = "verify" /\ Busy(r) /\ UNCHANGED <<up, toNode, fromNode>>
  BY DEF VerifyPage, At, Busy, link, net
<1>2. FlowSame  BY <1>0, ChangesReader, ChangesFlow
<1>3. CASE Done(r) \/ Goto(r, "finish")
  BY <1>0, <1>1, <1>2, <1>3, PlainDone, PlainGoto
<1>4. CASE /\ b.receiver # NoPage
           /\ Step(r, [work[r] EXCEPT !.at = "clear", !.page = b.receiver])
  <2>1. PICK w : Moved(r, w) /\ w.at = "clear" /\ w.l = work[r].l /\ w.page = b.receiver
    BY <1>0, <1>4, VerifyMoves
  <2>2. Turn(r) => InStep(w)
    BY <1>1, <1>4, <2>1 DEF Turn, InStep, OnIt, Received, Fetching
  <2> QED BY <1>0, <1>1, <1>2, <2>1, <2>2, PlainTurn
<1> QED BY <1>3, <1>4 DEF VerifyPage

LEMMA ClearFlows ==
    ASSUME Base, FlowInv, NEW r \in Readers, ClearReceiver(r)
    PROVE  FlowInv'
<1> USE ThreadsExist, Places
<1> SUFFICES ASSUME ~crossed' PROVE FlowInv'
  BY DEF FlowInv
<1>0. Shape /\ Working  BY DEF Base
<1>1. PICK w : /\ Moved(r, w)
               /\ w.at = "packet" /\ w.l = work[r].l /\ w.page = work[r].page
  BY <1>0, GotoMoves DEF ClearReceiver
<1>2. work[r].at = "clear" /\ Busy(r) /\ UNCHANGED <<up, toNode, fromNode>>
  BY DEF ClearReceiver, At, Busy, link, net
<1>3. Turn(r)  BY <1>0, <1>1, <1>2, MyTurn
<1>4. /\ b'.phase = b.phase /\ b'.link = b.link /\ b'.page = b.page /\ b'.receiver = NoPage
  BY <1>0, ChangesReader DEF Changes, Fields
<1>5. Quiet' = Quiet /\ Flight' = Flight /\ OurLink' = OurLink /\ Fetching' = Fetching /\ Received'
  BY <1>2, <1>4 DEF Quiet, Flight, OurLink, Fetching, Received
<1>6. InStep(w)'
  BY <1>1, <1>2, <1>3, <1>4, <1>5 DEF Turn, InStep, OnIt
<1> QED BY <1>0, <1>1, <1>2, <1>3, <1>5, <1>6, TurnLeft DEF Turn

\* The page is here: the fetch ends and keeps its link, which is quiet.
LEMMA RenderedFlows ==
    ASSUME Base, FlowInv, NEW r \in Readers, PageReceived(r)
    PROVE  FlowInv'
<1> USE ThreadsExist, Places
<1>0. Shape /\ Working /\ DOMAIN b = Fields  BY DEF Base, Shape
<1>1. work[r].at = "packet" /\ Busy(r) /\ UNCHANGED <<up, toNode, fromNode>>
  BY DEF PageReceived, At, Busy, link, net
<1>2. CASE Changes({}) /\ (Done(r) \/ Goto(r, "finish"))
  <2>1. FlowSame  BY <1>2, ChangesFlow
  <2> QED BY <1>0, <1>1, <1>2, <2>1, PlainDone, PlainGoto
<1>3. CASE b' = Rendered(r) /\ Goto(r, "stage")
  <2> SUFFICES ASSUME ~crossed' PROVE FlowInv'
    BY DEF FlowInv
  <2>1. PICK w : Moved(r, w) /\ w.at = "stage"  BY <1>0, <1>3, GotoMoves
  <2>2. Turn(r)  BY <1>0, <1>1, <2>1, MyTurn
  <2>3. Rendered(r).phase = "Idle"  BY <1>0, RenderedFields
  <2>4. InStep(w)' /\ Received' /\ ~OurLink'
    BY <1>3, <2>1, <2>3 DEF InStep, Received, OurLink, Fetching
  <2>5. up' # 0 => Quiet'
    BY <1>1, <2>2 DEF Turn, InStep, OnIt, OurLink, Quiet
  <2> QED BY <1>0, <1>1, <2>1, <2>4, <2>5, TurnLeft
<1> QED BY <1>0, <1>2, <1>3, ChangesReader

LEMMA ReaderFlows ==
    ASSUME Base, FlowInv, NEW r \in Readers, ReaderStep(r)
    PROVE  FlowInv'
<1> USE ThreadsExist, Places
<1>0. Shape /\ Working  BY DEF Base
<1>1. CASE OnLinkUp(r)
  <2>1. work[r].at = "linkup" /\ Busy(r) /\ UNCHANGED <<up, toNode, fromNode>>
    BY <1>1 DEF OnLinkUp, At, Busy, link, net
  <2>2. CASE Changes({}) /\ Done(r)
    BY <1>0, <2>1, <2>2, ChangesFlow, PlainDone
  <2>3. CASE /\ Changes({"link"}) /\ b'.link = work[r].l /\ Goto(r, "request")
             /\ b.phase = "Linking"
    BY <2>1, <2>3, GotLinkFlows
  <2> QED BY <1>0, <1>1, <2>2, <2>3, ChangesReader
<1>2. CASE Identify(r) \/ AssemblePage(r) \/ DocumentBegin(r) \/ DocumentShow(r)
  <2>1. /\ UNCHANGED <<up, toNode, fromNode>>
        /\ \/ work[r].at = "proved" /\ Goto(r, "linkup")
           \/ work[r].at = "part" /\ (Done(r) \/ Goto(r, "finish") \/ Goto(r, "verify"))
           \/ work[r].at = "stage" /\ Goto(r, "show")
           \/ work[r].at = "show" /\ Done(r)
    BY <1>2 DEF Identify, AssemblePage, DocumentBegin, DocumentShow, At, link, net
  <2>2. FlowSame  BY <1>0, <1>2, ChangesReader, ChangesFlow
  <2>3. Busy(r) /\ work[r].at \notin {"drop", "finish"}  BY <2>1 DEF Busy
  <2> QED BY <1>0, <2>1, <2>2, <2>3, PlainDone, PlainGoto
<1> QED BY <1>1, <1>2, AdvertisedFlows, VerifyFlows, ClearFlows, RenderedFlows DEF ReaderStep

LEMMA AcceptFlows ==
    ASSUME Shape, NEW page, NEW push, NEW pop, Accept(page, push, pop)
    PROVE  FlowSame
BY AcceptFields DEF Shape, FlowSame

LEMMA UiFlows ==
    ASSUME Base, FlowInv, UiStep \/ RaiseMenu \/ PeekBack
    PROVE  FlowInv'
<1> USE ThreadsExist, Places
<1>0. Shape /\ Working  BY DEF Base
<1>1. UNCHANGED <<up, toNode, fromNode>>
  BY DEF UiStep, RequestBack, MarkPop, DocumentSuspend, DocumentResume, Resumed, RaiseMenu,
      PeekBack, link, net
<1>2. FlowSame
  <2>1. CASE RequestBack
    <3>1. CASE Accept(work["ui"].page, FALSE, TRUE)  BY <1>0, <3>1, AcceptFlows
    <3>2. CASE b' = b  BY <3>2 DEF FlowSame
    <3> QED BY <2>1, <3>1, <3>2 DEF RequestBack
  <2>2. CASE ~RequestBack
    <3>1. \/ Changes({}) \/ Changes({"pending_pop"}) \/ Changes({"viewing"})
          \/ Changes({"current", "back", "links"})
      BY <1>0, <2>2, ChangesUi DEF UiStep
    <3> QED BY <3>1, ChangesFlow
  <2> QED BY <2>1, <2>2
<1>3. CASE PeekBack
  <2>1. PICK w : Moved("ui", w) /\ w.at = "back"  BY <1>0, <1>3, PeekMoves
  <2>2. InStep(w) /\ work["ui"].at = "rest"  BY <1>3, <2>1 DEF InStep, PeekBack, At
  <2> QED BY <1>0, <1>1, <1>2, <2>1, <2>2, PlainTurn
<1>4. CASE ~PeekBack
  <2>1. \/ work["ui"].at = "back" /\ (Goto("ui", "pop") \/ Done("ui"))
        \/ work["ui"].at = "pop" /\ Done("ui")
        \/ work["ui"].at = "park" /\ Done("ui")
        \/ work["ui"].at = "menu" /\ (Goto("ui", "view") \/ Goto("ui", "forget") \/ Done("ui"))
        \/ work["ui"].at \in {"view", "forget"} /\ Done("ui")
        \/ work["ui"].at = "rest" /\ Goto("ui", "menu")
    BY <1>4 DEF UiStep, RequestBack, MarkPop, DocumentSuspend, DocumentResume, Resumed,
        RaiseMenu, At
  <2>2. work["ui"].at \notin {"drop", "finish"}  BY <2>1
  <2>3. Busy("ui") \/ (work["ui"].at = "rest" /\ Goto("ui", "menu"))  BY <2>1 DEF Busy
  <2> QED BY <1>0, <1>1, <1>2, <2>1, <2>2, <2>3, PlainDone, PlainGoto
<1> QED BY <1>3, <1>4

LEMMA OpenFlows ==
    ASSUME Base, FlowInv, NEW page, NEW push, OpenPage(page, push)
    PROVE  FlowInv'
<1>0. Shape /\ Working  BY DEF Base
<1>1. /\ Accept(page, push, FALSE) /\ UNCHANGED <<work, up, toNode, fromNode>>
      /\ crossed' = (crossed \/ Crossing("ui"))
  BY DEF OpenPage, link, net
<1> QED BY <1>0, <1>1, AcceptFlows, SameWire, OthersTurn DEF Working

\* The connection manager, the network and the node.
LEMMA EnvironmentFlows ==
    ASSUME Base, FlowInv,
           \/ ConnectionLost \/ EndFetch \/ Connect \/ Announce \/ Lose \/ NodeServes
           \/ UNCHANGED vars
    PROVE  FlowInv'
<1> USE ThreadsExist, Places
<1>0. Shape /\ Working /\ Wire  BY DEF Base
<1>1. CASE ConnectionLost
  <2>1. FlowSame  BY <1>0, <1>1, ChangesOthers, ChangesFlow
  <2> QED BY <1>0, <1>1, <2>1, IdlingGoto DEF ConnectionLost, At, WireKept
<1>2. CASE EndFetch
  <2>1. work[Hub].at = "lost" /\ UNCHANGED <<up, toNode, fromNode>>
    BY <1>2 DEF EndFetch, At, link, net
  <2>2. CASE Changes({}) /\ Goto(Hub, "finish")
    BY <1>0, <2>1, <2>2, ChangesFlow, PlainGoto
  <2>3. CASE Changes({"link"}) /\ b.phase = "Idle" /\ Done(Hub)
    BY <1>0, <2>1, <2>3, ChangesFlow, SameWire, IdlingDone
  <2> QED BY <1>0, <1>2, <2>2, <2>3, ChangesOthers
<1>3. CASE Connect \/ Announce \/ Lose \/ NodeServes \/ UNCHANGED vars
  <2>1. UNCHANGED <<b, work, crossed>>
    BY <1>3 DEF Connect, Announce, Lose, NodeServes, vars
  <2>2. FlowSame  BY <2>1 DEF FlowSame
  <2>3. CASE Connect \/ Announce \/ UNCHANGED vars
    <3>1. WireKept  BY <2>3, SameWire DEF Connect, Announce, vars, link, net
    <3> QED BY <1>0, <2>1, <2>2, <3>1, OthersTurn
  <2>4. CASE Lose
    <3>1. \/ up' = 0
          \/ UNCHANGED <<up, toNode, fromNode>>
          \/ toNode # <<>> /\ toNode' = Tail(toNode) /\ UNCHANGED <<up, fromNode>>
          \/ fromNode # <<>> /\ fromNode' = Tail(fromNode) /\ UNCHANGED <<up, toNode>>
      BY <2>4 DEF Lose, net
    <3>2. WireKept
      BY <1>0, <3>1, SameWire, RequestLost, AnswerLost DEF WireKept
    <3> QED BY <1>0, <2>1, <2>2, <3>2, OthersTurn
  <2>5. CASE NodeServes
    BY <1>0, <2>1, <2>2, <2>5, NodeKeeps, OthersTurn
  <2> QED BY <1>3, <2>3, <2>4, <2>5
<1> QED BY <1>1, <1>2, <1>3

LEMMA FlowStep ==
    ASSUME Base, FlowInv, [Next]_vars
    PROVE  FlowInv'
<1>1. ASSUME NEW th \in Threads, AnyThread(th) PROVE FlowInv'
  BY <1>1, FinishFlows, DropFlows, FetchingFlows, SendFlows DEF AnyThread
<1>2. ASSUME NEW r \in Readers,
             ReaderStep(r) \/ LinkProof(r) \/ Receive(r) \/ OutLinkClosed(r)
      PROVE  FlowInv'
  BY <1>2, ReaderFlows, LinkProofFlows, ReceiveFlows, ClosedFlows
<1>3. ASSUME NEW page, NEW push, OpenPage(page, push) PROVE FlowInv'
  BY <1>3, OpenFlows
<1> QED BY <1>1, <1>2, <1>3, BrowserFlows, UiFlows, SuspendFlows, EnvironmentFlows DEF Next

LEMMA FlowInit ==
    ASSUME Init
    PROVE  FlowInv
<1>1. /\ b.phase = "Idle" /\ up = 0 /\ \A th \in Threads : work[th].at = "rest"
  BY RestWork DEF Init
<1> QED BY <1>1, Places DEF FlowInv, InStep, Received

-----------------------------------------------------------------------------
(* The screen and the history.  The UI thread never works for a fetch.     *)

UiPlaces == {"rest", "back", "pop", "drop", "park", "menu", "view", "forget"}
UiInv == work["ui"].at \in UiPlaces

LEMMA OtherMoves ==
    ASSUME Working, NEW th \in Threads, th # "ui", NEW w, Step(th, w)
    PROVE  work'["ui"] = work["ui"]
BY ThreadsExist DEF Working, Step

LEMMA UiStays ==
    ASSUME Base, UiInv, [Next]_vars
    PROVE  UiInv'
<1> USE ThreadsExist
<1>0. Working  BY DEF Base
<1>1. ASSUME NEW th \in Threads, AnyThread(th) PROVE UiInv'
  <2>1. CASE th # "ui"
    <3>1. \E w : Step(th, w)
      BY <1>1, <2>1 DEF AnyThread, Finish, DropOutLink, SetFetching, SendRequest, Goto, Done
    <3> QED BY <1>0, <2>1, <3>1, OtherMoves DEF UiInv
  <2>2. CASE th = "ui"
    <3>1. Goto("ui", "park")
      BY <1>1, <2>2 DEF AnyThread, Finish, DropOutLink, SetFetching, SendRequest, At, UiInv,
          UiPlaces
    <3>2. PICK w : Moved("ui", w) /\ w.at = "park"  BY <1>0, <3>1, GotoMoves
    <3> QED BY <3>2 DEF UiInv, UiPlaces, Moved
  <2> QED BY <2>1, <2>2
<1>2. ASSUME BrowserStep PROVE UiInv'
  <2>1. \E w : Step("browser", w)
    BY <1>2 DEF BrowserStep, TickStalled, TickLinking, TickJob, ExpirePath, Retry,
        StartFetch, BeginFetch, Lookup, UseLink, AskLink, SendLinkRequest, Goto, Done
  <2> QED BY <1>0, <2>1, OtherMoves DEF UiInv
<1>3. ASSUME NEW r \in Readers,
             ReaderStep(r) \/ LinkProof(r) \/ Receive(r) \/ OutLinkClosed(r)
      PROVE  UiInv'
  <2>1. \E w : Step(r, w)
    <3>1. CASE ReaderStep(r)
      BY <3>1 DEF ReaderStep, Identify, OnLinkUp, Advertised, AssemblePage, VerifyPage,
          ClearReceiver, PageReceived, DocumentBegin, DocumentShow, Goto, Done
    <3>2. CASE LinkProof(r) \/ Receive(r) \/ OutLinkClosed(r)
      BY <3>2 DEF LinkProof, Receive, OutLinkClosed, Goto, Done
    <3> QED BY <1>3, <3>1, <3>2
  <2> QED BY <1>0, <2>1, OtherMoves DEF UiInv
<1>4. ASSUME UiStep \/ RaiseMenu PROVE UiInv'
  <2>1. Done("ui") \/ \E s \in UiPlaces : Goto("ui", s)
    BY <1>4 DEF UiStep, RequestBack, MarkPop, DocumentSuspend, DocumentResume, Resumed,
        RaiseMenu, UiPlaces
  <2>2. \E w : Moved("ui", w) /\ w.at \in UiPlaces
    BY <1>0, <2>1, DoneMoves, GotoMoves, RestWork DEF UiPlaces
  <2> QED BY <2>2 DEF UiInv, Moved
<1>5. ASSUME PeekBack \/ Suspend PROVE UiInv'
  <2>1. \E w : Moved("ui", w) /\ w.at \in UiPlaces
    BY <1>0, <1>5, PeekMoves, SuspendMoves DEF UiPlaces
  <2> QED BY <2>1 DEF UiInv, Moved
<1>6. ASSUME ConnectionLost \/ EndFetch PROVE UiInv'
  <2>1. \E w : Step(Hub, w)  BY <1>6 DEF ConnectionLost, EndFetch, Goto, Done
  <2> QED BY <1>0, <2>1, OtherMoves DEF UiInv
<1>7. ASSUME NEW page, NEW push, OpenPage(page, push) PROVE UiInv'
  BY <1>7 DEF OpenPage, UiInv
<1>8. ASSUME Connect \/ Announce \/ Lose \/ NodeServes \/ UNCHANGED vars PROVE UiInv'
  BY <1>8 DEF Connect, Announce, Lose, NodeServes, vars, UiInv
<1> QED BY <1>1, <1>2, <1>3, <1>4, <1>5, <1>6, <1>7, <1>8 DEF Next

\* What is on screen once a thread that changes it is done, and before the UI
\* thread has parked the document it leaves, or noted the one it resumed.
Shown ==
    /\ b.links = b.current
    /\ screen.document = IF b.viewing THEN b.current ELSE NoPage
    /\ screen.suspended = IF b.viewing THEN NoPage ELSE b.current
Off ==
    /\ ~b.viewing /\ b.links = b.current
    /\ screen.document = b.current /\ screen.suspended = NoPage
Coming == b.viewing /\ b.links = b.current /\ b.current # NoPage

DocInv ==
    ~crossed =>
        /\ \A r \in Readers : work[r].at = "stage" => Coming /\ work[r].page = b.current
        /\ \A r \in Readers : work[r].at = "show" => Coming /\ screen.staging = b.current
        /\ work["ui"].at \in {"drop", "park", "view"} => Off
        /\ work["ui"].at = "menu" => screen.document = NoPage
        /\ work["ui"].at # "forget"
        /\ (/\ work["ui"].at \notin {"drop", "park", "view"}
            /\ \A r \in Readers : work[r].at \notin {"stage", "show"}) => Shown

PageInv == UiInv /\ DocInv

\* Where threads are that have to do with the screen.
DocAt(o) == IF o = "ui" THEN {"drop", "park", "view", "menu", "forget"} ELSE {"stage", "show"}
DocSame ==
    /\ b'.viewing = b.viewing /\ b'.links = b.links /\ b'.current = b.current
    /\ screen' = screen

LEMMA ChangesAside ==
    ASSUME NEW S, Changes(S), UNCHANGED screen,
           S \cap {"viewing", "links", "current"} = {}
    PROVE  DocSame
<1>1. \A f \in {"viewing", "links", "current"} : f \in Fields \ S  BY DEF Fields
<1> QED BY <1>1 DEF Changes, DocSame

LEMMA DocKept ==
    ASSUME DocInv, DocSame, crossed => crossed',
           \A o \in Threads : work'[o] = work[o] \/ (work[o].at \notin DocAt(o) /\ work'[o].at \notin DocAt(o))
    PROVE  DocInv'
<1> SUFFICES ASSUME ~crossed' PROVE DocInv'
  BY DEF DocInv
<1>1. Shown' = Shown /\ Off' = Off /\ Coming' = Coming
  BY DEF DocSame, Shown, Off, Coming
<1>2. \A r \in Readers : work'[r] = work[r] \/ (work[r].at \notin {"stage", "show"} /\ work'[r].at \notin {"stage", "show"})
  BY ThreadsExist DEF DocAt
<1>3. \/ work'["ui"] = work["ui"]
      \/ /\ work["ui"].at \notin {"drop", "park", "view", "menu", "forget"}
         /\ work'["ui"].at \notin {"drop", "park", "view", "menu", "forget"}
  BY ThreadsExist DEF DocAt
<1>4. /\ \A r \in Readers : work'[r].at = "stage" => Coming /\ work'[r].page = b.current
      /\ \A r \in Readers : work'[r].at = "show" => Coming /\ screen.staging = b.current
  BY <1>2 DEF DocInv
<1>5. /\ work'["ui"].at \in {"drop", "park", "view"} => Off
      /\ work'["ui"].at = "menu" => screen.document = NoPage
      /\ work'["ui"].at # "forget"
  BY <1>3 DEF DocInv
<1>6. (/\ work'["ui"].at \notin {"drop", "park", "view"}
       /\ \A r \in Readers : work'[r].at \notin {"stage", "show"}) => Shown
  BY <1>2, <1>3 DEF DocInv
<1> QED BY <1>1, <1>4, <1>5, <1>6 DEF DocInv, DocSame

\* A step that has nothing to do with it.
LEMMA AsideTurn ==
    ASSUME Working, PageInv, UiInv', DocSame,
           NEW th \in Threads, NEW w, Moved(th, w),
           work[th].at \notin DocAt(th), w.at \notin DocAt(th)
    PROVE  PageInv'
<1>1. crossed => crossed'  BY DEF Moved, Working
<1>2. DocInv'  BY <1>1, DocKept DEF PageInv, Moved
<1> QED BY <1>2 DEF PageInv

LEMMA AsideGoto ==
    ASSUME Working, PageInv, UiInv', DocSame,
           NEW th \in Threads, NEW s, Goto(th, s),
           work[th].at \notin DocAt(th), s \notin DocAt(th)
    PROVE  PageInv'
<1>1. PICK w : Moved(th, w) /\ w.at = s /\ w.l = work[th].l /\ w.page = work[th].page
  BY GotoMoves
<1> QED BY <1>1, AsideTurn

LEMMA AsideDone ==
    ASSUME Working, PageInv, UiInv', DocSame,
           NEW th \in Threads, Done(th), work[th].at \notin DocAt(th)
    PROVE  PageInv'
<1>1. Rest.at \notin DocAt(th)
  BY RestWork DEF DocAt
<1> QED BY <1>1, DoneMoves, AsideTurn

\* What a thread leaves behind when no other is at work.
LEMMA DocTurn ==
    ASSUME NEW th \in Threads, NEW w, Moved(th, w),
           \A o \in Threads : o # th => work[o].at \in Idling,
           th \in Readers /\ w.at = "stage" => Coming' /\ w.page = b'.current,
           th \in Readers /\ w.at = "show" => Coming' /\ screen'.staging = b'.current,
           th = "ui" /\ w.at \in {"drop", "park", "view"} => Off',
           th = "ui" /\ w.at = "menu" => screen'.document = NoPage,
           ~(th = "ui" /\ w.at = "forget"),
           \/ th = "ui" /\ w.at \in {"drop", "park", "view"}
           \/ th \in Readers /\ w.at \in {"stage", "show"}
           \/ Shown'
    PROVE  DocInv'
<1>1. work'[th] = w /\ \A o \in Threads : o # th => work'[o].at \in Idling
  BY DEF Moved
<1>2. \A o \in Threads : o # th => work'[o].at \notin {"stage", "show", "drop", "park", "view", "menu", "forget"}
  BY <1>1, Places
<1> QED BY <1>1, <1>2, ThreadsExist DEF DocInv

\* What it finds.
LEMMA ShownNow ==
    ASSUME PageInv, ~crossed, NEW th \in Threads,
           \A o \in Threads : o # th => work[o].at \in Idling,
           \/ th = "ui" /\ work[th].at \notin {"drop", "park", "view"}
           \/ th # "ui" /\ work[th].at \notin {"stage", "show"}
    PROVE  Shown
<1>1. \A o \in Threads : o # th => work[o].at \notin {"stage", "show", "drop", "park", "view"}
  BY Places
<1> QED BY <1>1, ThreadsExist DEF PageInv, DocInv

\* The end of a fetch.
LEMMA FinishPages ==
    ASSUME Base, FlowInv, PageInv, UiInv', NEW th \in Threads, Finish(th)
    PROVE  PageInv'
<1> USE ThreadsExist, Places
<1>0. Shape /\ Working /\ DOMAIN b = Fields  BY DEF Base, Shape
<1>1. PICK w : Moved(th, w) /\ w.at = "drop" /\ w.l = b.link
  BY <1>0, FinishMoves
<1>2. /\ work[th].at = "finish" /\ b' = NoFetch /\ UNCHANGED screen
  BY DEF Finish, At
<1>3. th # "ui"  BY <1>2 DEF PageInv, UiInv, UiPlaces
<1>4. DocSame  BY <1>0, <1>2, NoFetchFields DEF DocSame
<1>5. work[th].at \notin DocAt(th) /\ w.at \notin DocAt(th)
  BY <1>1, <1>2, <1>3 DEF DocAt
<1> QED BY <1>0, <1>1, <1>4, <1>5, AsideTurn

LEMMA SuspendPages ==
    ASSUME Base, FlowInv, PageInv, UiInv', Suspend
    PROVE  PageInv'
<1> USE ThreadsExist, Places
<1>0. Shape /\ Working /\ DOMAIN b = Fields  BY DEF Base, Shape
<1>1. PICK w : Moved("ui", w) /\ w.at = "drop" /\ w.l = b.link
  BY <1>0, SuspendMoves
<1>2. work["ui"].at = "rest" /\ b.viewing /\ UNCHANGED screen
  BY DEF Suspend, At
<1>3. {"links", "current"} \subseteq Fields \ {"viewing"}
  BY DEF Fields
<1>4. /\ b'.viewing = FALSE
      /\ b'.links = b.links /\ b'.current = b.current
  BY <1>0, <1>3, NoFetchFields, ChangesUi
<1> SUFFICES ASSUME ~crossed' PROVE DocInv'
  BY DEF PageInv, DocInv
<1>5. ~crossed /\ \A o \in Threads : o # "ui" => work[o].at \in Idling
  BY <1>0, <1>1, OnlyMe
<1>6. Shown  BY <1>2, <1>5, ShownNow
<1>7. Off'  BY <1>2, <1>4, <1>6 DEF Shown, Off
<1> QED BY <1>1, <1>5, <1>7, DocTurn

LEMMA DropPages ==
    ASSUME Base, FlowInv, PageInv, UiInv', NEW th \in Threads, DropOutLink(th)
    PROVE  PageInv'
<1> USE ThreadsExist, Places
<1>0. Shape /\ Working  BY DEF Base
<1>1. work[th].at = "drop" /\ Busy(th) /\ UNCHANGED <<b, screen>>
  BY DEF DropOutLink, At, Busy
<1>2. DocSame  BY <1>1 DEF DocSame
<1>3. CASE th # "ui"
  <2>1. Done(th) /\ work[th].at \notin DocAt(th)
    BY <1>1, <1>3 DEF DropOutLink, DocAt
  <2> QED BY <1>0, <1>2, <2>1, AsideDone
<1>4. CASE th = "ui"
  <2>1. PICK w : Moved("ui", w) /\ w.at = "park"
    BY <1>0, <1>4, GotoMoves DEF DropOutLink
  <2>3. DocInv'
    <3> SUFFICES ASSUME ~crossed' PROVE DocInv'
      BY DEF DocInv
    <3>1. ~crossed /\ \A o \in Threads : o # "ui" => work[o].at \in Idling
      BY <1>0, <1>1, <1>4, <2>1, OnlyMe
    <3>2. Off  BY <1>1, <1>4, <3>1 DEF PageInv, DocInv
    <3>3. Off'  BY <1>1, <3>2 DEF Off
    <3> QED BY <2>1, <3>1, <3>3, DocTurn
  <2> QED BY <2>3 DEF PageInv
<1> QED BY <1>3, <1>4

LEMMA SendPages ==
    ASSUME Base, FlowInv, PageInv, UiInv', NEW th \in Threads, SetFetching(th) \/ SendRequest(th)
    PROVE  PageInv'
<1> USE ThreadsExist, Places
<1>0. Shape /\ Working  BY DEF Base
<1>1. work[th].at \in {"request", "send"} /\ UNCHANGED screen
  BY DEF SetFetching, SendRequest, At
<1>2. th # "ui" /\ work[th].at \notin DocAt(th)
  BY <1>1 DEF PageInv, UiInv, UiPlaces, DocAt
<1>3. DocSame  BY <1>0, <1>1, ChangesAny, ChangesAside
<1>4. CASE SendRequest(th)
  <2>1. Done(th) \/ Goto(th, "finish")  BY <1>4 DEF SendRequest
  <2>2. "finish" \notin DocAt(th)  BY DEF DocAt
  <2> QED BY <1>0, <1>2, <1>3, <2>1, <2>2, AsideDone, AsideGoto
<1>5. CASE SetFetching(th)
  <2>1. PICK w : Moved(th, w) /\ w.at = "send"  BY <1>0, <1>5, FetchingMoves
  <2>2. w.at \notin DocAt(th)  BY <2>1 DEF DocAt
  <2> QED BY <1>0, <1>2, <1>3, <2>1, <2>2, AsideTurn
<1> QED BY <1>4, <1>5

LEMMA BrowserPages ==
    ASSUME Base, FlowInv, PageInv, UiInv', BrowserStep
    PROVE  PageInv'
<1> USE ThreadsExist, Places
<1>0. Shape /\ Working /\ DOMAIN b = Fields  BY DEF Base, Shape
<1>1. UNCHANGED screen /\ work["browser"].at \notin DocAt("browser")
  BY DEF BrowserStep, TickStalled, TickLinking, TickJob, ExpirePath, Retry, StartFetch,
      BeginFetch, Lookup, UseLink, AskLink, At, DocAt
<1>2. DocSame
  <2>1. CASE BeginFetch
    BY <1>0, <1>1, <2>1, BeginFields DEF DocSame
  <2>2. CASE ~BeginFetch
    <3>1. \/ Changes({}) \/ Changes({"left", "wait"}) \/ Changes({"left", "wait", "requested"})
          \/ Changes({"route_tries"}) \/ Changes({"route_tries", "requested", "wait"})
          \/ Changes({"link"})
      BY <1>0, <2>2, ChangesBrowser DEF BrowserStep
    <3> QED BY <1>1, <3>1, ChangesAside
  <2> QED BY <2>1, <2>2
<1>3. \E w : Moved("browser", w) /\ w.at \notin DocAt("browser")
  <2>1. ASSUME NEW s, Goto("browser", s) \/ Done("browser"), s \notin {"stage", "show"}
        PROVE  \E w : Moved("browser", w) /\ w.at \notin {"stage", "show"}
    BY <1>0, <2>1, GotoMoves, DoneMoves, RestWork
  <2>2. CASE TickJob
    <3>1. CASE Step("browser", [Rest EXCEPT !.at = "start", !.page = b.requested])
      BY <1>0, <3>1, JobMoves DEF DocAt
    <3>2. CASE Done("browser")
      BY <2>1, <3>2 DEF DocAt
    <3> QED BY <1>0, <2>2, <3>1, <3>2, ChangesBrowser
  <2>3. CASE Lookup
    <3>1. CASE up = 0
      BY <2>1, <2>3, <3>1 DEF Lookup, DocAt
    <3>2. CASE up # 0
      BY <1>0, <2>3, <3>2, LookupMoves DEF DocAt
    <3> QED BY <3>1, <3>2
  <2>4. CASE TickStalled
    <3> DEFINE s == IF b.phase = "Linking" THEN "expire" ELSE "finish"
    <3>1. Goto("browser", s) /\ s \notin {"stage", "show"}
      BY <2>4 DEF TickStalled
    <3> HIDE DEF s
    <3> QED BY <2>1, <3>1 DEF DocAt
  <2>5. CASE ~(TickJob \/ Lookup \/ TickStalled)
    <3>1. \/ Done("browser")
          \/ \E s \in {"retry", "finish", "begin", "lookup", "request"} : Goto("browser", s)
      BY <2>5 DEF BrowserStep, TickLinking, ExpirePath, Retry, StartFetch, BeginFetch, UseLink,
          AskLink, SendLinkRequest
    <3> QED BY <2>1, <3>1 DEF DocAt
  <2> QED BY <2>2, <2>3, <2>4, <2>5
<1> QED BY <1>0, <1>1, <1>2, <1>3, AsideTurn

-----------------------------------------------------------------------------

\* A page that is received is the one being fetched.
LEMMA ReceivedPage ==
    ASSUME Base, FlowInv, PageInv, NEW r \in Readers, PageReceived(r), b' = Rendered(r),
           Goto(r, "stage"), work[r].page # NoPage, ~crossed'
    PROVE  /\ ~crossed /\ \A o \in Threads : o # r => work[o].at \in Idling
           /\ work[r].page = b.page
<1> USE ThreadsExist, Places
<1>0. Working  BY DEF Base
<1>1. PICK w : Moved(r, w) /\ w.at = "stage"  BY <1>0, GotoMoves
<1>2. work[r].at = "packet" /\ Busy(r)  BY DEF PageReceived, At, Busy
<1>3. ~crossed /\ \A o \in Threads : o # r => work[o].at \in Idling
  BY <1>0, <1>1, <1>2, OnlyMe
<1>4. work[r].page = b.page
  BY <1>2, <1>3 DEF FlowInv, InStep
<1> QED BY <1>3, <1>4

LEMMA ReceivedPages ==
    ASSUME Base, FlowInv, PageInv, UiInv', NEW r \in Readers, PageReceived(r)
    PROVE  PageInv'
<1> USE ThreadsExist, Places
<1>0. Shape /\ Working /\ DOMAIN b = Fields  BY DEF Base, Shape
<1>1. work[r].at = "packet" /\ UNCHANGED screen  BY DEF PageReceived, At
<1>2. CASE Changes({}) /\ (Done(r) \/ Goto(r, "finish"))
  <2>1. DocSame  BY <1>1, <1>2, ChangesAside
  <2>2. work[r].at \notin DocAt(r) /\ "finish" \notin DocAt(r)
    BY <1>1 DEF DocAt
  <2> QED BY <1>0, <1>2, <2>1, <2>2, AsideDone, AsideGoto
<1>3. CASE b' = Rendered(r) /\ Goto(r, "stage") /\ work[r].page # NoPage
  <2> SUFFICES ASSUME ~crossed' PROVE DocInv'
    BY DEF PageInv, DocInv
  <2>1. PICK w : Moved(r, w) /\ w.at = "stage" /\ w.page = work[r].page
    BY <1>0, <1>3, GotoMoves
  <2>2. /\ ~crossed /\ \A o \in Threads : o # r => work[o].at \in Idling
        /\ work[r].page = b.page
    BY <1>3, ReceivedPage
  <2>3. b'.current = b.page /\ b'.links = work[r].page /\ b'.viewing = TRUE
    BY <1>0, <1>3, RenderedFields
  <2>4. Coming' /\ w.page = b'.current  BY <1>3, <2>1, <2>2, <2>3 DEF Coming
  <2> QED BY <2>1, <2>2, <2>4, DocTurn
<1> QED BY <1>0, <1>2, <1>3, ChangesReader

LEMMA DocumentPages ==
    ASSUME Base, FlowInv, PageInv, UiInv', NEW r \in Readers, DocumentBegin(r) \/ DocumentShow(r)
    PROVE  PageInv'
<1> USE ThreadsExist, Places
<1>0. Shape /\ Working  BY DEF Base
<1>1. work[r].at \in {"stage", "show"} /\ Busy(r) /\ UNCHANGED b
  BY DEF DocumentBegin, DocumentShow, At, Busy
<1>2. PICK w : /\ Moved(r, w)
               /\ \/ DocumentBegin(r) /\ w.at = "show" /\ work[r].at = "stage"
                  \/ DocumentShow(r) /\ w.at = "rest" /\ work[r].at = "show"
  BY <1>0, GotoMoves, DoneMoves, RestWork DEF DocumentBegin, DocumentShow, At
<1>4. DocInv'
  <2> SUFFICES ASSUME ~crossed' PROVE DocInv'
    BY DEF DocInv
  <2>1. ~crossed /\ \A o \in Threads : o # r => work[o].at \in Idling
    BY <1>0, <1>1, <1>2, OnlyMe
  <2>2. CASE DocumentBegin(r) /\ w.at = "show" /\ work[r].at = "stage"
    <3>1. Coming /\ work[r].page = b.current  BY <2>1, <2>2 DEF PageInv, DocInv
    <3>2. screen'.staging = work[r].page
      BY <1>0, <2>2 DEF DocumentBegin, Shape
    <3>3. Coming'  BY <1>1, <3>1 DEF Coming
    <3> QED BY <1>1, <1>2, <2>1, <2>2, <3>1, <3>2, <3>3, DocTurn
  <2>3. CASE DocumentShow(r) /\ w.at = "rest" /\ work[r].at = "show"
    <3>1. Coming /\ screen.staging = b.current  BY <2>1, <2>3 DEF PageInv, DocInv
    <3>2. screen' = [document |-> b.current, staging |-> NoPage, suspended |-> NoPage]
      BY <2>3, <3>1 DEF DocumentShow, Coming
    <3>3. Shown'  BY <1>1, <3>1, <3>2 DEF Coming, Shown
    <3> QED BY <1>2, <2>1, <2>3, <3>3, DocTurn
  <2> QED BY <1>2, <2>2, <2>3
<1> QED BY <1>4 DEF PageInv

LEMMA ReaderPages ==
    ASSUME Base, FlowInv, PageInv, UiInv', NEW r \in Readers,
           ReaderStep(r) \/ LinkProof(r) \/ Receive(r) \/ OutLinkClosed(r)
    PROVE  PageInv'
<1> USE ThreadsExist, Places
<1>0. Shape /\ Working /\ Wire  BY DEF Base
<1>1. CASE PageReceived(r) \/ DocumentBegin(r) \/ DocumentShow(r)
  BY <1>1, ReceivedPages, DocumentPages
<1>2. CASE ~(PageReceived(r) \/ DocumentBegin(r) \/ DocumentShow(r))
  <2>1. Changes({}) \/ Changes({"link"}) \/ Changes({"left"}) \/ Changes({"receiver"})
    BY <1>0, <1>2, ChangesReader DEF ReaderStep
  <2>2. UNCHANGED screen /\ work[r].at \notin {"stage", "show"}
    BY <1>2 DEF ReaderStep, OnLinkUp, Advertised, AssemblePage, VerifyPage, ClearReceiver,
        Receive, OutLinkClosed, Identify, LinkProof, At
  <2>3. DocSame  BY <2>1, <2>2, ChangesAside
  <2>4. \E w : Moved(r, w) /\ w.at \notin {"stage", "show"}
    <3>1. CASE LinkProof(r)
      BY <1>0, <3>1, LinkProofMoves
    <3>2. CASE Receive(r)
      BY <1>0, <3>2, ReceiveMoves, DoneMoves, RestWork
    <3>3. CASE OutLinkClosed(r)
      BY <1>0, <3>3, GotoMoves, DoneMoves, RestWork DEF OutLinkClosed
    <3>4. CASE VerifyPage(r)
      <4>1. CASE Step(r, [work[r] EXCEPT !.at = "clear", !.page = b.receiver])
        BY <1>0, <4>1, VerifyMoves
      <4> QED BY <1>0, <3>4, <4>1, GotoMoves, DoneMoves, RestWork DEF VerifyPage
    <3>5. CASE Identify(r) \/ OnLinkUp(r) \/ Advertised(r) \/ AssemblePage(r) \/ ClearReceiver(r)
      BY <1>0, <3>5, GotoMoves, DoneMoves, RestWork
         DEF Identify, OnLinkUp, Advertised, AssemblePage, ClearReceiver
    <3> QED BY <1>2, <3>1, <3>2, <3>3, <3>4, <3>5 DEF ReaderStep
  <2>5. DocAt(r) = {"stage", "show"}
    BY DEF DocAt
  <2> QED BY <1>0, <2>2, <2>3, <2>4, <2>5, AsideTurn
<1> QED BY <1>1, <1>2

-----------------------------------------------------------------------------
(* The UI thread.                                                          *)

LEMMA AcceptPages ==
    ASSUME Shape, NEW page, NEW push, NEW pop, Accept(page, push, pop)
    PROVE  /\ b'.back = b.back
           /\ b'.viewing = b.viewing /\ b'.links = b.links /\ b'.current = b.current
<1>1. \A f \in {"back", "viewing", "links", "current"} : b'[f] = b[f]
  BY AcceptFields DEF Shape
<1> QED BY <1>1

LEMMA OpenPages ==
    ASSUME Base, FlowInv, PageInv, UiInv', NEW page, NEW push, OpenPage(page, push)
    PROVE  PageInv'
<1>0. Shape /\ Working  BY DEF Base
<1>1. /\ Accept(page, push, FALSE) /\ UNCHANGED <<work, screen>>
      /\ crossed' = (crossed \/ Crossing("ui"))
  BY DEF OpenPage
<1>2. DocSame  BY <1>0, <1>1, AcceptPages DEF DocSame
<1> QED BY <1>1, <1>2, DocKept DEF PageInv

\* Going back only asks for a page.
LEMMA BackPages ==
    ASSUME Base, FlowInv, PageInv, UiInv', PeekBack \/ RequestBack \/ MarkPop
    PROVE  PageInv'
<1> USE ThreadsExist, Places
<1>0. Shape /\ Working  BY DEF Base
<1>1. UNCHANGED screen /\ work["ui"].at \notin DocAt("ui")
  BY DEF PeekBack, RequestBack, MarkPop, At, DocAt
<1>2. DocSame
  <2>1. CASE PeekBack \/ MarkPop
    <3>1. Changes({}) \/ Changes({"pending_pop"})  BY <1>0, <2>1, ChangesUi
    <3> QED BY <1>1, <3>1, ChangesAside
  <2>2. CASE RequestBack
    <3> DEFINE page == work["ui"].page
    <3>1. Accept(page, FALSE, TRUE) \/ b' = b  BY <2>2 DEF RequestBack
    <3> HIDE DEF page
    <3> QED BY <1>0, <1>1, <3>1, AcceptPages DEF DocSame
  <2> QED BY <2>1, <2>2
<1>3. \E w : Moved("ui", w) /\ w.at \notin DocAt("ui")
  <2>1. CASE PeekBack
    BY <1>0, <2>1, PeekMoves DEF DocAt
  <2>2. CASE RequestBack \/ MarkPop
    <3>1. Done("ui") \/ Goto("ui", "pop")  BY <2>2 DEF RequestBack, MarkPop
    <3> QED BY <1>0, <3>1, DoneMoves, GotoMoves, RestWork DEF DocAt
  <2> QED BY <2>1, <2>2
<1> QED BY <1>0, <1>1, <1>2, <1>3, AsideTurn

\* Leaving the browser and coming back: the document is where it is looked for.
LEMMA ViewPages ==
    ASSUME Base, FlowInv, PageInv, UiInv',
           DocumentSuspend \/ RaiseMenu \/ DocumentResume \/ Resumed
    PROVE  PageInv'
<1> USE ThreadsExist, Places
<1>0. Shape /\ Working  BY DEF Base
<1>1. PICK w : /\ Moved("ui", w)
               /\ \/ DocumentSuspend /\ w.at = "rest" /\ work["ui"].at = "park"
                  \/ RaiseMenu /\ w.at = "menu" /\ work["ui"].at = "rest"
                  \/ DocumentResume /\ Done("ui") /\ w.at = "rest" /\ work["ui"].at = "menu"
                  \/ DocumentResume /\ Goto("ui", "view") /\ w.at = "view" /\ work["ui"].at = "menu"
                  \/ DocumentResume /\ Goto("ui", "forget") /\ w.at = "forget" /\ work["ui"].at = "menu"
                  \/ Resumed /\ w.at = "rest" /\ work["ui"].at \in {"view", "forget"}
  <2>1. Resumed => Done("ui") /\ work["ui"].at \in {"view", "forget"}
    BY DEF Resumed, At
  <2> QED BY <1>0, <2>1, GotoMoves, DoneMoves, RestWork
             DEF DocumentSuspend, RaiseMenu, DocumentResume, At
<1>2. w.at \notin Idling \/ Busy("ui")  BY <1>1 DEF Busy
<1> SUFFICES ASSUME ~crossed' PROVE DocInv'
  BY DEF PageInv, DocInv
<1>4. ~crossed /\ \A o \in Threads : o # "ui" => work[o].at \in Idling
  BY <1>0, <1>1, <1>2, OnlyMe
<1>5. work["ui"].at # "forget"  BY <1>4 DEF PageInv, DocInv
<1>6. Changes({}) \/ Changes({"viewing"})
  <2>1. CASE Resumed
    BY <1>0, <1>5, <2>1, ChangesUi DEF At
  <2>2. CASE ~Resumed
    BY <1>0, <2>2, ChangesUi
  <2> QED BY <2>1, <2>2
<1>8. DocInv'
  <2>0. Changes({}) => b'.links = b.links /\ b'.current = b.current /\ b'.viewing = b.viewing
    BY DEF Changes, Fields
  <2>1. CASE DocumentSuspend /\ w.at = "rest" /\ work["ui"].at = "park"
    <3>1. Off  BY <1>4, <2>1 DEF PageInv, DocInv
    <3>2. b'.links = b.links /\ b'.current = b.current /\ b'.viewing = b.viewing
      BY <1>0, <2>0, <2>1, ChangesUi
    <3>3. /\ screen'.document = NoPage
          /\ screen'.suspended = IF screen.document = NoPage THEN screen.suspended
                                 ELSE screen.document
      BY <1>0, <2>1 DEF DocumentSuspend, Shape
    <3>4. Shown'  BY <3>1, <3>2, <3>3 DEF Off, Shown
    <3> QED BY <1>1, <1>4, <2>1, <3>4, DocTurn
  <2>2. CASE RaiseMenu /\ w.at = "menu" /\ work["ui"].at = "rest"
    <3>1. Shown  BY <1>4, <2>2, ShownNow
    <3>2. /\ b'.links = b.links /\ b'.current = b.current /\ b'.viewing = b.viewing
          /\ screen' = screen /\ screen.document = NoPage
      BY <1>0, <2>0, <2>2, ChangesUi DEF RaiseMenu
    <3>3. Shown'  BY <3>1, <3>2 DEF Shown
    <3> QED BY <1>1, <1>4, <2>2, <3>2, <3>3, DocTurn
  <2>3. CASE DocumentResume /\ work["ui"].at = "menu"
    <3>1. Shown /\ screen.document = NoPage
      BY <1>4, <2>3, ShownNow DEF PageInv, DocInv
    <3>2. b'.links = b.links /\ b'.current = b.current /\ b'.viewing = b.viewing
      BY <1>0, <2>0, <2>3, ChangesUi
    <3>3. \/ b.current = NoPage /\ UNCHANGED screen /\ Done("ui")
          \/ /\ b.current # NoPage /\ screen.suspended # NoPage
             /\ screen' = [screen EXCEPT !.document = screen.suspended, !.suspended = NoPage]
             /\ Goto("ui", "view")
          \/ b.current # NoPage /\ screen.suspended = NoPage
      BY <2>3 DEF DocumentResume
    <3>4. CASE b.current = NoPage /\ UNCHANGED screen /\ Done("ui")
      <4>1. Shown'  BY <3>1, <3>2, <3>4 DEF Shown
      <4>2. Moved("ui", Rest) /\ Rest.at = "rest"  BY <1>0, <3>4, DoneMoves, RestWork
      <4> QED BY <1>4, <4>1, <4>2, DocTurn
    <3>5. CASE /\ b.current # NoPage /\ screen.suspended # NoPage
               /\ screen' = [screen EXCEPT !.document = screen.suspended, !.suspended = NoPage]
               /\ Goto("ui", "view")
      <4>1. screen'.document = screen.suspended /\ screen'.suspended = NoPage
        BY <1>0, <3>5 DEF Shape
      <4>2. ~b.viewing /\ screen.suspended = b.current  BY <3>1, <3>5 DEF Shown
      <4>3. Off'  BY <3>1, <3>2, <4>1, <4>2 DEF Shown, Off
      <4>4. PICK v : Moved("ui", v) /\ v.at = "view"  BY <1>0, <3>5, GotoMoves
      <4> QED BY <1>4, <4>3, <4>4, DocTurn
    <3>6. CASE b.current # NoPage /\ screen.suspended = NoPage
      BY <3>1, <3>6 DEF Shown
    <3> QED BY <3>3, <3>4, <3>5, <3>6
  <2>4. CASE Resumed /\ w.at = "rest" /\ work["ui"].at \in {"view", "forget"}
    <3>1. Off  BY <1>4, <1>5, <2>4 DEF PageInv, DocInv
    <3>2. /\ b'.links = b.links /\ b'.current = b.current /\ b'.viewing = TRUE
          /\ screen' = screen
      <4>1. Changes({"viewing"}) /\ b'.viewing = TRUE
        BY <1>0, <1>5, <2>4, ChangesUi DEF At
      <4> QED BY <2>4, <4>1 DEF Changes, Fields, Resumed
    <3>3. Shown'  BY <3>1, <3>2 DEF Off, Shown
    <3> QED BY <1>1, <1>4, <2>4, <3>3, DocTurn
  <2> QED BY <1>1, <2>1, <2>2, <2>3, <2>4
<1> QED BY <1>8

LEMMA EnvironmentPages ==
    ASSUME Base, FlowInv, PageInv, UiInv',
           \/ ConnectionLost \/ EndFetch \/ Connect \/ Announce \/ Lose \/ NodeServes
           \/ UNCHANGED vars
    PROVE  PageInv'
<1> USE ThreadsExist, Places
<1>0. Shape /\ Working  BY DEF Base
<1>1. CASE ConnectionLost \/ EndFetch
  <2>1. Changes({}) \/ Changes({"link"})  BY <1>0, <1>1, ChangesOthers
  <2>2. /\ UNCHANGED screen /\ work[Hub].at \in {"rest", "lost"}
        /\ Done(Hub) \/ Goto(Hub, "lost") \/ Goto(Hub, "finish")
    BY <1>1 DEF ConnectionLost, EndFetch, At
  <2>3. DocSame  BY <2>1, <2>2, ChangesAside
  <2>4. DocAt(Hub) = {"stage", "show"}
    BY DEF DocAt
  <2> QED BY <1>0, <2>2, <2>3, <2>4, AsideDone, AsideGoto
<1>2. CASE Connect \/ Announce \/ Lose \/ NodeServes \/ UNCHANGED vars
  <2>1. UNCHANGED <<b, work, crossed, screen>>
    BY <1>2 DEF Connect, Announce, Lose, NodeServes, vars
  <2>2. DocSame  BY <2>1 DEF DocSame
  <2>3. DocInv'  BY <2>1, <2>2, DocKept DEF PageInv
  <2> QED BY <2>3 DEF PageInv
<1> QED BY <1>1, <1>2

LEMMA PageStep ==
    ASSUME Base, FlowInv, PageInv, [Next]_vars
    PROVE  PageInv'
<1>0. UiInv'  BY UiStays DEF PageInv
<1>1. ASSUME NEW th \in Threads, AnyThread(th) PROVE PageInv'
  BY <1>0, <1>1, FinishPages, DropPages, SendPages DEF AnyThread
<1>2. ASSUME NEW r \in Readers,
             ReaderStep(r) \/ LinkProof(r) \/ Receive(r) \/ OutLinkClosed(r)
      PROVE  PageInv'
  BY <1>0, <1>2, ReaderPages
<1>3. ASSUME NEW page, NEW push, OpenPage(page, push) PROVE PageInv'
  BY <1>0, <1>3, OpenPages
<1>4. ASSUME UiStep \/ PeekBack \/ RaiseMenu PROVE PageInv'
  BY <1>0, <1>4, BackPages, ViewPages DEF UiStep
<1> QED BY <1>0, <1>1, <1>2, <1>3, <1>4, BrowserPages, SuspendPages, EnvironmentPages DEF Next

LEMMA PageInit ==
    ASSUME Init
    PROVE  PageInv
<1>1. /\ b.links = NoPage /\ b.current = NoPage
      /\ b.viewing = FALSE /\ screen.document = NoPage /\ screen.suspended = NoPage
      /\ \A th \in Threads : work[th].at = "rest"
  BY RestWork DEF Init
<1>2. Shown  BY <1>1 DEF Shown
<1> QED BY <1>1, <1>2, ThreadsExist DEF PageInv, UiInv, UiPlaces, DocInv

BrowserInv == Base /\ FlowInv /\ PageInv

\* The inductive invariant behind the next result: the fetch and the screen as
\* page_received, browser_suspend, browser_resume and browser_back leave them.
THEOREM InvHolds == Spec => []BrowserInv
<1>1. Init => BrowserInv
  BY BaseInit, FlowInit, PageInit DEF BrowserInv
<1>2. BrowserInv /\ [Next]_vars => BrowserInv'
  BY BaseStep, FlowStep, PageStep DEF BrowserInv
<1> QED BY <1>1, <1>2, PTL DEF Spec

\* When every thread is at rest and no two have been at work at once, the document
\* the chat server shows is the page page_received recorded as current, or the one
\* browser_suspend parked where browser_resume looks for it.
THEOREM ScreenIsTrueHolds == Spec => []ScreenIsTrue
<1>1. BrowserInv => ScreenIsTrue
  <2> SUFFICES ASSUME BrowserInv, AtRest, ~crossed PROVE Shown
    BY DEF ScreenIsTrue, Shown
  <2>1. \A th \in Threads : work[th].at = "rest"  BY DEF AtRest, At
  <2> QED BY <2>1, ThreadsExist DEF BrowserInv, PageInv, DocInv
<1> QED BY <1>1, InvHolds, PTL

-----------------------------------------------------------------------------
(* The history, whichever threads cross.  A request is armed in the shared  *)
(* state, in the browser thread's hands, or being fetched, and its flags    *)
(* stay in the shared state meanwhile.                                     *)

\* The flags in the shared state are those of the last request, up to the pop
\* that browser_back is about to ask for, and a step back is to the top entry.
Meant ==
    /\ b.pending_push = wanted.push
    /\ b.pending_pop = wanted.pop \/ work["ui"].at = "pop"
    /\ wanted.pop => b.back # <<>> /\ wanted.page = Last(b.back)

HandPlaces == {"start", "begin"}
WantInv ==
    /\ b.node => b.phase # "Idle"
    /\ work["browser"].at \in HandPlaces => ~b.node
    /\ work["ui"].at = "pop" => wanted.pop = TRUE
    /\ ~wanted.mixed =>
          /\ b.requested # NoPage => b.requested = wanted.page /\ Meant
          /\ work["browser"].at \in HandPlaces =>
                b.requested = NoPage /\ work["browser"].page = wanted.page /\ Meant
          /\ b.node => b.requested = NoPage /\ b.page = wanted.page /\ Meant

WantSame ==
    /\ b'.requested = b.requested /\ b'.node = b.node /\ b'.page = b.page
    /\ b'.pending_push = b.pending_push /\ b'.pending_pop = b.pending_pop /\ b'.back = b.back
    /\ wanted' = wanted

LEMMA ChangesElse ==
    ASSUME NEW S, Changes(S), UNCHANGED wanted,
           S \subseteq {"left", "wait", "route_tries", "link", "receiver", "phase", "viewing"}
    PROVE  WantSame
BY DEF Changes, WantSame, Fields

\* There is a node only while the phase says so.
LEMMA NodePhase ==
    ASSUME Base, WantInv, [Next]_vars
    PROVE  b'.node => b'.phase # "Idle"
BY NodeStep DEF Base, Shape, NodeKind, WantInv

\* A step that has nothing to do with the request.
LEMMA WantKept ==
    ASSUME WantInv, WantSame, b'.node => b'.phase # "Idle",
           \/ work'["browser"] = work["browser"]
           \/ work'["browser"].at \notin HandPlaces,
           \/ work'["ui"] = work["ui"]
           \/ work["ui"].at # "pop" /\ work'["ui"].at # "pop"
    PROVE  WantInv'
<1>1. Meant => Meant'  BY DEF Meant, WantSame
<1>2. work'["ui"].at = "pop" => wanted'.pop = TRUE  BY DEF WantInv, WantSame
<1>3. work'["browser"].at \in HandPlaces => ~b'.node  BY DEF WantInv, WantSame
<1> QED BY <1>1, <1>2, <1>3 DEF WantInv, WantSame

LEMMA WantTurn ==
    ASSUME WantInv, WantSame, b'.node => b'.phase # "Idle",
           NEW th \in Threads, NEW w, Moved(th, w), w.at \notin HandPlaces, w.at # "pop",
           work[th].at # "pop"
    PROVE  WantInv'
BY WantKept, ThreadsExist DEF Moved

LEMMA WantGoes ==
    ASSUME Working, WantInv, WantSame, b'.node => b'.phase # "Idle",
           NEW th \in Threads, work[th].at # "pop",
           Done(th) \/ \E s : s \notin HandPlaces \cup {"pop"} /\ Goto(th, s)
    PROVE  WantInv'
<1>1. CASE Done(th)
  BY <1>1, DoneMoves, RestWork, WantTurn DEF HandPlaces
<1>2. CASE \E s : s \notin HandPlaces \cup {"pop"} /\ Goto(th, s)
  <2>1. PICK s : s \notin HandPlaces \cup {"pop"} /\ Goto(th, s)  BY <1>2
  <2>2. PICK w : Moved(th, w) /\ w.at = s  BY <2>1, GotoMoves
  <2> QED BY <2>1, <2>2, WantTurn
<1> QED BY <1>1, <1>2

\* The end of a fetch leaves no request, unless the browser thread has one in hand.
LEMMA EndedWant ==
    ASSUME Shape, WantInv, MixedIf(InHand), b'.requested = NoPage, ~b'.node,
           NEW th \in Threads, work[th].at # "pop", NEW w, Moved(th, w), w.at = "drop"
    PROVE  WantInv'
<1>1. wanted'.pop = wanted.pop /\ (wanted'.mixed <=> wanted.mixed \/ InHand)
  BY DEF Shape, MixedIf
<1>2. work'["browser"].at \in HandPlaces => InHand
  BY ThreadsExist DEF Moved, HandPlaces, InHand, At
<1>3. work'["ui"].at = "pop" => work["ui"].at = "pop"
  BY ThreadsExist DEF Moved
<1> QED BY <1>1, <1>2, <1>3 DEF WantInv

LEMMA AnyWant ==
    ASSUME Base, WantInv, [Next]_vars, NEW th \in Threads, AnyThread(th)
    PROVE  WantInv'
<1>0. Shape /\ Working /\ DOMAIN b = Fields /\ (b'.node => b'.phase # "Idle")
  BY NodePhase DEF Base, Shape
<1>1. CASE Finish(th)
  <2>1. PICK w : Moved(th, w) /\ w.at = "drop"  BY <1>0, <1>1, FinishMoves
  <2>2. b'.requested = NoPage /\ ~b'.node /\ MixedIf(InHand) /\ work[th].at # "pop"
    BY <1>0, <1>1, NoFetchFields DEF Finish, At
  <2> QED BY <1>0, <2>1, <2>2, EndedWant
<1>2. CASE SetFetching(th)
  <2>1. PICK w : Moved(th, w) /\ w.at = "send"  BY <1>0, <1>2, FetchingMoves
  <2>2. Changes({"phase"}) /\ UNCHANGED wanted /\ work[th].at # "pop"
    BY <1>0, <1>2, ChangesAny DEF SetFetching, At
  <2>3. WantSame  BY <2>2, ChangesElse
  <2> QED BY <1>0, <2>1, <2>2, <2>3, WantTurn DEF HandPlaces
<1>3. CASE DropOutLink(th) \/ SendRequest(th)
  <2>1. Changes({}) /\ UNCHANGED wanted /\ work[th].at # "pop"
    BY <1>0, <1>3, ChangesAny DEF DropOutLink, SendRequest, At
  <2>2. WantSame  BY <2>1, ChangesElse
  <2>3. Done(th) \/ Goto(th, "finish") \/ Goto(th, "park")
    BY <1>3 DEF DropOutLink, SendRequest
  <2> QED BY <1>0, <2>1, <2>2, <2>3, WantGoes DEF HandPlaces
<1> QED BY <1>1, <1>2, <1>3 DEF AnyThread

\* The browser thread takes a request, arms it again, or begins to carry it out.
LEMMA HandWant ==
    ASSUME Base, WantInv, [Next]_vars, TickJob \/ StartFetch \/ BeginFetch
    PROVE  WantInv'
<1> USE ThreadsExist
<1>0. Shape /\ Working /\ DOMAIN b = Fields /\ (b'.node => b'.phase # "Idle")
  BY NodePhase DEF Base, Shape
<1>1. UNCHANGED wanted /\ work["browser"].at # "pop"
  BY DEF TickJob, StartFetch, BeginFetch, At
<1>2. ASSUME NEW S, Changes(S), S \cap {"pending_push", "pending_pop", "back"} = {},
             work'["ui"] = work["ui"]
      PROVE  Meant' = Meant
  <2>1. \A f \in {"pending_push", "pending_pop", "back"} : f \in Fields \ S  BY <1>2 DEF Fields
  <2> QED BY <1>1, <1>2, <2>1 DEF Changes, Meant
<1>3. CASE TickJob
  <2>1. CASE Changes({"left", "wait"}) /\ Done("browser")
    BY <1>0, <1>1, <2>1, ChangesElse, WantGoes
  <2>2. CASE /\ Changes({"left", "wait", "requested"}) /\ b'.requested = NoPage
             /\ Step("browser", [Rest EXCEPT !.at = "start", !.page = b.requested])
             /\ b.phase = "Idle" /\ b.requested # NoPage
    <3>1. PICK w : Moved("browser", w) /\ w.at = "start" /\ w.page = b.requested
      BY <1>0, <2>2, JobMoves
    <3>2. work'["ui"] = work["ui"] /\ work'["browser"] = w  BY <3>1 DEF Moved
    <3>3. b'.node = b.node /\ ~b.node  BY <1>0, <2>2 DEF WantInv, Changes, Fields, Shape
    <3>4. Meant' = Meant  BY <1>2, <2>2, <3>2
    <3> QED BY <1>1, <2>2, <3>1, <3>2, <3>3, <3>4 DEF WantInv
  <2> QED BY <1>0, <1>3, <2>1, <2>2, ChangesBrowser
<1>4. CASE StartFetch
  <2>0. work["browser"].at = "start" /\ work["browser"].at \in HandPlaces
    BY <1>4 DEF StartFetch, At, HandPlaces
  <2>1. CASE Changes({"route_tries"}) /\ Goto("browser", "finish")
    BY <1>0, <1>1, <2>1, ChangesElse, WantGoes DEF HandPlaces
  <2>2. CASE Changes({"route_tries"}) /\ Goto("browser", "begin")
    <3>1. PICK w : Moved("browser", w) /\ w.page = work["browser"].page
      BY <1>0, <2>2, GotoMoves
    <3>2. work'["ui"] = work["ui"] /\ work'["browser"] = w  BY <3>1 DEF Moved
    <3>3. WantSame  BY <1>1, <2>2, ChangesElse
    <3>4. Meant' = Meant  BY <1>2, <2>2, <3>2
    <3> QED BY <1>0, <1>1, <2>0, <3>1, <3>2, <3>3, <3>4 DEF WantInv, WantSame
  <2>3. CASE /\ Changes({"route_tries", "requested", "wait"})
             /\ b'.requested = work["browser"].page /\ Done("browser")
    <3>1. Moved("browser", Rest) /\ Rest.at \notin HandPlaces
      BY <1>0, <2>3, DoneMoves, RestWork DEF HandPlaces
    <3>2. work'["ui"] = work["ui"] /\ work'["browser"] = Rest  BY <3>1 DEF Moved
    <3>3. b'.node = b.node /\ ~b.node  BY <1>0, <2>0, <2>3 DEF WantInv, Changes, Fields, Shape
    <3>4. Meant' = Meant  BY <1>2, <2>3, <3>2
    <3> QED BY <1>1, <2>0, <2>3, <3>1, <3>2, <3>3, <3>4 DEF WantInv
  <2> QED BY <1>0, <1>4, <2>1, <2>2, <2>3, ChangesBrowser
<1>5. CASE BeginFetch
  <2>0. work["browser"].at \in HandPlaces  BY <1>5 DEF BeginFetch, At, HandPlaces
  <2>1. PICK w : Moved("browser", w) /\ w.at = "lookup"
    BY <1>0, <1>5, GotoMoves DEF BeginFetch
  <2>2. work'["ui"] = work["ui"] /\ work'["browser"].at \notin HandPlaces
    BY <2>1 DEF Moved, HandPlaces
  <2>3. /\ b'.page = work["browser"].page
        /\ \A f \in {"requested", "pending_push", "pending_pop", "back"} : b'[f] = b[f]
    BY <1>0, <1>5, BeginFields
  <2>4. Meant' = Meant  BY <1>1, <2>2, <2>3 DEF Meant
  <2> QED BY <1>0, <1>1, <2>0, <2>2, <2>3, <2>4 DEF WantInv
<1> QED BY <1>3, <1>4, <1>5

LEMMA BrowserWant ==
    ASSUME Base, WantInv, [Next]_vars, BrowserStep
    PROVE  WantInv'
<1> USE ThreadsExist
<1>0. Shape /\ Working /\ DOMAIN b = Fields /\ (b'.node => b'.phase # "Idle")
  BY NodePhase DEF Base, Shape
<1>1. CASE TickJob \/ StartFetch \/ BeginFetch
  BY <1>1, HandWant
<1>2. CASE ~(TickJob \/ StartFetch \/ BeginFetch)
  <2>1. UNCHANGED wanted /\ work["browser"].at # "pop"
    BY <1>2 DEF BrowserStep, TickStalled, TickLinking, ExpirePath, Retry, Lookup, UseLink,
        AskLink, At
  <2>2. Changes({}) \/ Changes({"left", "wait"}) \/ Changes({"link"})
    BY <1>0, <1>2, ChangesBrowser DEF BrowserStep
  <2>3. WantSame  BY <2>1, <2>2, ChangesElse
  <2>4. CASE Lookup /\ up # 0
    <3>1. PICK w : Moved("browser", w) /\ w.at = "have"  BY <1>0, <2>4, LookupMoves
    <3> QED BY <1>0, <2>1, <2>3, <3>1, WantTurn DEF HandPlaces
  <2>5. CASE ~(Lookup /\ up # 0)
    <3>1. \/ Done("browser")
          \/ \E s \in {"expire", "finish", "retry", "request", "ask"} : Goto("browser", s)
      <4>1. TickStalled => Goto("browser", "expire") \/ Goto("browser", "finish")
        BY DEF TickStalled
      <4> QED BY <1>2, <2>5, <4>1 DEF BrowserStep, TickLinking, ExpirePath, Retry, UseLink,
                AskLink, SendLinkRequest, Lookup
    <3>2. \A s \in {"expire", "finish", "retry", "request", "ask"} : s \notin HandPlaces \cup {"pop"}
      BY DEF HandPlaces
    <3> QED BY <1>0, <2>1, <2>3, <3>1, <3>2, WantGoes
  <2> QED BY <2>4, <2>5
<1> QED BY <1>1, <1>2

LEMMA ReaderWant ==
    ASSUME Base, WantInv, [Next]_vars, NEW r \in Readers,
           ReaderStep(r) \/ LinkProof(r) \/ Receive(r) \/ OutLinkClosed(r)
    PROVE  WantInv'
<1> USE ThreadsExist
<1>0. Shape /\ Working /\ Wire /\ DOMAIN b = Fields /\ (b'.node => b'.phase # "Idle")
  BY NodePhase DEF Base, Shape
<1>1. work[r].at # "pop"
  BY DEF ReaderStep, OnLinkUp, Advertised, AssemblePage, VerifyPage, ClearReceiver,
      PageReceived, DocumentBegin, DocumentShow, Receive, OutLinkClosed, Identify, LinkProof, At
<1>2. CASE PageReceived(r) /\ b' = Rendered(r) /\ b.node
  <2>1. PICK w : Moved(r, w) /\ w.at = "stage"
    <3>1. Goto(r, "stage")
      BY <1>0, <1>2, RenderedFields DEF PageReceived
    <3> QED BY <1>0, <3>1, GotoMoves
  <2>2. work'["ui"] = work["ui"] /\ work'["browser"] = work["browser"]  BY <2>1 DEF Moved
  <2>3. b'.requested = b.requested /\ ~b'.node  BY <1>0, <1>2, RenderedFields
  <2>4. wanted'.pop = wanted.pop /\ (wanted.mixed => wanted'.mixed)
    BY <1>0, <1>2 DEF PageReceived, Shape, MixedIf
  <2>5. work["browser"].at \notin HandPlaces /\ (~wanted.mixed => b.requested = NoPage)
    BY <1>2 DEF WantInv
  <2> QED BY <2>2, <2>3, <2>4, <2>5 DEF WantInv
<1>3. CASE ~(PageReceived(r) /\ b' = Rendered(r) /\ b.node)
  <2>1. UNCHANGED wanted
    BY <1>3 DEF ReaderStep, OnLinkUp, Advertised, AssemblePage, VerifyPage, ClearReceiver,
        PageReceived, DocumentBegin, DocumentShow, Receive, OutLinkClosed, Identify, LinkProof
  <2>2. Changes({}) \/ Changes({"link"}) \/ Changes({"left"}) \/ Changes({"receiver"})
    BY <1>0, <1>3, ChangesReader DEF ReaderStep
  <2>3. WantSame  BY <2>1, <2>2, ChangesElse
  <2>4. \E w : Moved(r, w) /\ w.at # "pop"
    <3>1. CASE LinkProof(r)
      BY <1>0, <3>1, LinkProofMoves
    <3>2. CASE Receive(r)
      BY <1>0, <3>2, ReceiveMoves, DoneMoves, RestWork
    <3>3. CASE OutLinkClosed(r)
      BY <1>0, <3>3, GotoMoves, DoneMoves, RestWork DEF OutLinkClosed
    <3>4. CASE VerifyPage(r)
      <4>1. CASE Step(r, [work[r] EXCEPT !.at = "clear", !.page = b.receiver])
        BY <1>0, <4>1, VerifyMoves
      <4> QED BY <1>0, <3>4, <4>1, GotoMoves, DoneMoves, RestWork DEF VerifyPage
    <3>5. CASE Identify(r) \/ OnLinkUp(r) \/ Advertised(r) \/ AssemblePage(r) \/ ClearReceiver(r)
      BY <1>0, <3>5, GotoMoves, DoneMoves, RestWork
         DEF Identify, OnLinkUp, Advertised, AssemblePage, ClearReceiver
    <3>6. CASE PageReceived(r) \/ DocumentBegin(r) \/ DocumentShow(r)
      BY <1>0, <3>6, GotoMoves, DoneMoves, RestWork DEF PageReceived, DocumentBegin, DocumentShow
    <3> QED BY <3>1, <3>2, <3>3, <3>4, <3>5, <3>6 DEF ReaderStep
  <2>5. work'["ui"] = work["ui"] /\ work'["browser"] = work["browser"]  BY <2>4 DEF Moved
  <2> QED BY <1>0, <2>3, <2>5, WantKept
<1> QED BY <1>2, <1>3

\* A request is what the user wants, unless an earlier one is in hand or the
\* history moved since browser_back looked at it.
LEMMA AcceptWant ==
    ASSUME Base, WantInv, [Next]_vars, NEW page, NEW push, NEW pop \in BOOLEAN,
           Accept(page, push, pop),
           work'["browser"] = work["browser"],
           work'["ui"].at = IF pop THEN "pop" ELSE "rest"
    PROVE  WantInv'
<1>0. Shape /\ DOMAIN b = Fields /\ (b'.node => b'.phase # "Idle")
  BY NodePhase DEF Base, Shape
<1>1. /\ b'.requested = page /\ b'.pending_push = push /\ b'.pending_pop = FALSE
      /\ b.phase = "Idle" /\ b'.node = b.node /\ b'.back = b.back
  <2>1. \A f \in {"node", "back"} : b'[f] = b[f]  BY <1>0, AcceptFields
  <2> QED BY <1>0, <2>1, AcceptFields
<1>2. /\ wanted'.page = page /\ wanted'.push = push /\ wanted'.pop = pop
      /\ ~wanted'.mixed => ~InHand /\ (pop => b.back # <<>> /\ page = Last(b.back))
  BY DEF Accept
<1>3. ~b'.node  BY <1>0, <1>1 DEF WantInv, Shape
<1>4. ~wanted'.mixed => work'["browser"].at \notin HandPlaces
  BY <1>2 DEF InHand, At, HandPlaces
<1>5. ~wanted'.mixed => Meant'  BY <1>1, <1>2 DEF Meant
<1> QED BY <1>1, <1>2, <1>3, <1>4, <1>5 DEF WantInv

LEMMA UiWant ==
    ASSUME Base, WantInv, [Next]_vars, UiStep \/ PeekBack \/ RaiseMenu \/ Suspend
    PROVE  WantInv'
<1> USE ThreadsExist
<1>0. Shape /\ Working /\ DOMAIN b = Fields /\ (b'.node => b'.phase # "Idle")
  BY NodePhase DEF Base, Shape
<1>1. CASE Suspend
  <2>1. PICK w : Moved("ui", w) /\ w.at = "drop"  BY <1>0, <1>1, SuspendMoves
  <2>2. {"requested", "node"} \subseteq Fields \ {"viewing"}  BY DEF Fields
  <2>3. b'.requested = NoPage /\ ~b'.node  BY <1>0, <1>1, <2>2, ChangesUi, NoFetchFields
  <2>4. MixedIf(InHand) /\ work["ui"].at # "pop"  BY <1>1 DEF Suspend, At
  <2> QED BY <1>0, <2>1, <2>3, <2>4, EndedWant
<1>2. CASE PeekBack
  <2>1. PICK w : Moved("ui", w) /\ w.at = "back"  BY <1>0, <1>2, PeekMoves
  <2>2. Changes({}) /\ UNCHANGED wanted /\ work["ui"].at # "pop"
    BY <1>0, <1>2, ChangesUi DEF PeekBack, At
  <2>3. WantSame  BY <2>2, ChangesElse
  <2> QED BY <1>0, <2>1, <2>2, <2>3, WantTurn DEF HandPlaces
<1>3. CASE RequestBack
  <2>0. work["ui"].at # "pop"  BY <1>3 DEF RequestBack, At
  <2>1. CASE Accept(work["ui"].page, FALSE, TRUE) /\ Goto("ui", "pop")
    <3> DEFINE page == work["ui"].page
    <3>1. PICK w : Moved("ui", w) /\ w.at = "pop"  BY <1>0, <2>1, GotoMoves
    <3>2. work'["browser"] = work["browser"] /\ work'["ui"].at = "pop"  BY <3>1 DEF Moved
    <3>3. Accept(page, FALSE, TRUE)  BY <2>1
    <3> HIDE DEF page
    <3> QED BY <3>2, <3>3, AcceptWant
  <2>2. CASE Done("ui") /\ UNCHANGED <<b, wanted>>
    <3>1. WantSame  BY <2>2 DEF WantSame
    <3> QED BY <1>0, <2>0, <2>2, <3>1, WantGoes
  <2> QED BY <1>3, <2>1, <2>2 DEF RequestBack
<1>4. CASE MarkPop
  <2>1. work["ui"].at = "pop" /\ UNCHANGED wanted /\ Done("ui")
    BY <1>4 DEF MarkPop, At
  <2>2. Changes({"pending_pop"}) /\ b'.pending_pop = TRUE  BY <1>0, <1>4, ChangesUi
  <2>3. \A f \in {"requested", "node", "page", "pending_push", "back"} : b'[f] = b[f]
    BY <2>2 DEF Changes, Fields
  <2>4. work'["browser"] = work["browser"] /\ work'["ui"].at = "rest"
    BY <1>0, <2>1, DoneMoves, RestWork DEF Moved
  <2>5. Meant => Meant'  BY <2>1, <2>2, <2>3 DEF Meant, WantInv
  <2> QED BY <1>0, <2>1, <2>3, <2>4, <2>5 DEF WantInv
<1>5. CASE Resumed
  <2>0. Done("ui") /\ work["ui"].at # "pop"  BY <1>5 DEF Resumed, At
  <2>1. CASE Changes({"viewing"}) /\ At("ui", "view")
    <3>1. UNCHANGED wanted  BY <1>5, <2>1 DEF Resumed, At
    <3>2. WantSame  BY <2>1, <3>1, ChangesElse
    <3> QED BY <1>0, <2>0, <3>2, WantGoes
  <2>2. CASE Changes({"current", "back", "links"}) /\ At("ui", "forget")
    <3>1. MixedIf(TRUE)  BY <1>5, <2>2 DEF Resumed, At
    <3>2. wanted'.mixed  BY <1>0, <3>1 DEF MixedIf, Shape
    <3>3. b'.node = b.node  BY <2>2 DEF Changes, Fields
    <3>4. work'["browser"] = work["browser"] /\ work'["ui"].at = "rest"
      BY <1>0, <2>0, DoneMoves, RestWork DEF Moved
    <3> QED BY <1>0, <3>2, <3>3, <3>4 DEF WantInv
  <2> QED BY <1>0, <1>5, <2>1, <2>2, ChangesUi
<1>6. CASE DocumentSuspend \/ DocumentResume \/ RaiseMenu
  <2>1. /\ UNCHANGED wanted /\ work["ui"].at # "pop"
        /\ \/ Done("ui")
           \/ \E s \in {"menu", "view", "forget"} : Goto("ui", s)
    BY <1>6 DEF DocumentSuspend, DocumentResume, RaiseMenu, At
  <2>2. WantSame  BY <1>0, <1>6, <2>1, ChangesUi, ChangesElse
  <2>3. \A s \in {"menu", "view", "forget"} : s \notin HandPlaces \cup {"pop"}
    BY DEF HandPlaces
  <2> QED BY <1>0, <2>1, <2>2, <2>3, WantGoes
<1> QED BY <1>1, <1>2, <1>3, <1>4, <1>5, <1>6 DEF UiStep

LEMMA WantStep ==
    ASSUME Base, WantInv, [Next]_vars
    PROVE  WantInv'
<1> USE ThreadsExist
<1>0. Shape /\ Working /\ (b'.node => b'.phase # "Idle")
  BY NodePhase DEF Base
<1>1. ASSUME NEW page, NEW push, OpenPage(page, push) PROVE WantInv'
  <2>1. /\ Accept(page, push, FALSE) /\ work'["browser"] = work["browser"]
        /\ work'["ui"].at = "rest"
    BY <1>1 DEF OpenPage, At
  <2> QED BY <2>1, AcceptWant
<1>2. ASSUME ConnectionLost \/ EndFetch PROVE WantInv'
  <2>1. Changes({}) \/ Changes({"link"})  BY <1>0, <1>2, ChangesOthers
  <2>2. /\ UNCHANGED wanted /\ work[Hub].at # "pop"
        /\ Done(Hub) \/ Goto(Hub, "lost") \/ Goto(Hub, "finish")
    BY <1>2 DEF ConnectionLost, EndFetch, At
  <2>3. WantSame  BY <2>1, <2>2, ChangesElse
  <2> QED BY <1>0, <2>2, <2>3, WantGoes DEF HandPlaces
<1>3. ASSUME Connect \/ Announce \/ Lose \/ NodeServes \/ UNCHANGED vars PROVE WantInv'
  <2>1. UNCHANGED <<b, work, wanted>>  BY <1>3 DEF Connect, Announce, Lose, NodeServes, vars
  <2>2. WantSame  BY <2>1 DEF WantSame
  <2> QED BY <1>0, <2>1, <2>2, WantKept
<1>4. ASSUME NEW th \in Threads, AnyThread(th) PROVE WantInv'
  BY <1>4, AnyWant
<1>5. ASSUME NEW r \in Readers,
             ReaderStep(r) \/ LinkProof(r) \/ Receive(r) \/ OutLinkClosed(r)
      PROVE  WantInv'
  BY <1>5, ReaderWant
<1> QED BY <1>1, <1>2, <1>3, <1>4, <1>5, BrowserWant, UiWant DEF Next

\* A step that changes the page shown or the history.
LEMMA HistoryStep ==
    ASSUME Base, WantInv, [Next]_vars
    PROVE  \/ UNCHANGED <<b.current, b.back>>
           \/ wanted'.mixed
           \/ /\ b'.current = wanted.page
              /\ b'.back = History(wanted.push, wanted.pop)
              /\ wanted.pop => wanted.page = Last(b.back)
<1> DEFINE Goal == \/ b'.current = b.current /\ b'.back = b.back
                   \/ wanted'.mixed
                   \/ /\ b'.current = wanted.page
                      /\ b'.back = History(wanted.push, wanted.pop)
                      /\ wanted.pop => wanted.page = Last(b.back)
<1> SUFFICES Goal
  OBVIOUS
<1>0. Shape /\ DOMAIN b = Fields /\ Working
  BY DEF Base, Shape
<1>1. ASSUME NEW S, Changes(S), "current" \notin S, "back" \notin S PROVE Goal
  BY <1>1 DEF Changes, Fields
<1>2. ASSUME NEW th \in Threads, AnyThread(th) PROVE Goal
  <2>1. CASE Finish(th)
    BY <1>0, <2>1, NoFetchFields DEF Finish
  <2>2. CASE ~Finish(th)
    <3>1. Changes({}) \/ Changes({"phase"})
      BY <1>0, <1>2, <2>2, ChangesAny DEF AnyThread
    <3> QED BY <1>1, <3>1
  <2> QED BY <2>1, <2>2
<1>3. ASSUME BrowserStep PROVE Goal
  <2>1. CASE BeginFetch
    BY <1>0, <2>1, BeginFields
  <2>2. CASE ~BeginFetch
    <3>1. \/ Changes({}) \/ Changes({"left", "wait"}) \/ Changes({"left", "wait", "requested"})
          \/ Changes({"route_tries"}) \/ Changes({"route_tries", "requested", "wait"})
          \/ Changes({"link"})
      BY <1>0, <1>3, <2>2, ChangesBrowser DEF BrowserStep
    <3> QED BY <1>1, <3>1
  <2> QED BY <2>1, <2>2
<1>4. ASSUME NEW r \in Readers,
             ReaderStep(r) \/ LinkProof(r) \/ Receive(r) \/ OutLinkClosed(r)
      PROVE  Goal
  <2>1. CASE PageReceived(r)
    <3>1. CASE b' = Rendered(r) /\ b.node
      <4> SUFFICES ASSUME ~wanted'.mixed PROVE Goal
        OBVIOUS
      <4>1. ~wanted.mixed /\ work["ui"].at # "pop"
        <5>1. MixedIf(At("ui", "pop"))
          BY <2>1, <3>1, <1>0, RenderedFields DEF PageReceived
        <5> QED BY <1>0, <5>1 DEF MixedIf, Shape, At
      <4>2. b.page = wanted.page /\ Meant  BY <3>1, <4>1 DEF WantInv
      <4>3. b.pending_push = wanted.push /\ b.pending_pop = wanted.pop
            /\ (wanted.pop => wanted.page = Last(b.back))
        BY <4>1, <4>2 DEF Meant
      <4>4. b'.current = b.page /\ b'.back = History(b.pending_push, b.pending_pop)
        BY <1>0, <3>1, RenderedFields
      <4>5. History(b.pending_push, b.pending_pop) = History(wanted.push, wanted.pop)
        BY <4>3
      <4> QED BY <4>2, <4>3, <4>4, <4>5
    <3>2. CASE Changes({})
      BY <1>1, <3>2
    <3> QED BY <1>0, <2>1, <3>1, <3>2, ChangesReader
  <2>2. CASE ~PageReceived(r)
    <3>1. Changes({}) \/ Changes({"link"}) \/ Changes({"left"}) \/ Changes({"receiver"})
      BY <1>0, <1>4, <2>2, ChangesReader DEF ReaderStep
    <3> QED BY <1>1, <3>1
  <2> QED BY <2>1, <2>2
<1>5. ASSUME NEW page, NEW push, Accept(page, push, FALSE) PROVE Goal
  BY <1>0, <1>5, AcceptPages
<1>6. ASSUME UiStep \/ RaiseMenu \/ PeekBack \/ Suspend PROVE Goal
  <2>1. CASE Suspend
    <3>1. "current" \in Fields \ {"viewing"} /\ "back" \in Fields \ {"viewing"}
      BY DEF Fields
    <3> QED BY <1>0, <2>1, <3>1, NoFetchFields, ChangesUi
  <2>2. CASE RequestBack
    <3> DEFINE page == work["ui"].page
    <3>1. Accept(page, FALSE, TRUE) \/ b' = b  BY <2>2 DEF RequestBack
    <3> HIDE DEF page
    <3>2. Accept(page, FALSE, TRUE) => b'.current = b.current /\ b'.back = b.back
      BY <1>0, AcceptPages
    <3> QED BY <3>1, <3>2
  <2>3. CASE Resumed
    <3>1. CASE Changes({"viewing"})
      BY <1>1, <3>1
    <3>2. CASE At("ui", "forget")
      <4>1. MixedIf(TRUE)  BY <2>3, <3>2 DEF Resumed, At
      <4> QED BY <1>0, <4>1 DEF MixedIf, Shape
    <3> QED BY <1>0, <2>3, <3>1, <3>2, ChangesUi
  <2>4. CASE MarkPop \/ DocumentSuspend \/ DocumentResume \/ RaiseMenu \/ PeekBack
    <3>1. Changes({}) \/ Changes({"pending_pop"})  BY <1>0, <2>4, ChangesUi
    <3> QED BY <1>1, <3>1
  <2> QED BY <1>6, <2>1, <2>2, <2>3, <2>4 DEF UiStep
<1>7. ASSUME ConnectionLost \/ EndFetch \/ Connect \/ Announce \/ Lose \/ NodeServes
             \/ UNCHANGED vars
      PROVE  Goal
  <2>1. Changes({}) \/ Changes({"link"})  BY <1>0, <1>7, ChangesOthers
  <2> QED BY <1>1, <2>1
<1> QED BY <1>2, <1>3, <1>4, <1>5, <1>6, <1>7 DEF Next, OpenPage

\* page_received shows the page of the last request that request_page accepted, and
\* pushes and pops as that request meant, whatever start_fetch armed again, whatever
\* fetches failed in between and whichever threads overlapped, unless one of them
\* got between the steps of that very request (`mixed`).
THEOREM HistoryAsWantedHolds == Spec => HistoryAsWanted
<1>1. Init => Base /\ WantInv
  <2>1. ASSUME Init PROVE WantInv
    <3>1. b.node = FALSE /\ b.requested = NoPage /\ \A th \in Threads : work[th].at = "rest"
      BY <2>1, RestWork DEF Init
    <3> QED BY <3>1, ThreadsExist DEF WantInv, HandPlaces
  <2> QED BY <2>1, BaseInit
<1>2. Base /\ WantInv /\ [Next]_vars => Base' /\ WantInv'
  BY BaseStep, WantStep
<1>3. Base /\ WantInv /\ [Next]_vars =>
         [\/ UNCHANGED <<b.current, b.back>>
          \/ wanted'.mixed
          \/ /\ b'.current = wanted.page
             /\ b'.back = History(wanted.push, wanted.pop)
             /\ wanted.pop => wanted.page = Last(b.back)]_vars
  BY HistoryStep
<1> QED BY <1>1, <1>2, <1>3, PTL DEF Spec, HistoryAsWanted
=============================================================================
