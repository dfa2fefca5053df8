----------------------------- MODULE SyncProofs -----------------------------
(***************************************************************************)
(* For any messages, readers, deadlines and retry counts: the propagation  *)
(* node deletes only what was delivered here; no second link to it is      *)
(* asked for while there is one; the sync state keeps its type; no sync    *)
(* waits for a link that is up; and an answer is taken for what it is      *)
(* unless threads were at work at once.                                    *)
(*                                                                         *)
(* The first is about three places a confirmation passes through: a reader *)
(* that has delivered a batch and is about to confirm it, the request on   *)
(* its way, and the node's store.  Each may only name messages in `got`,   *)
(* which never shrinks.  The last is about what can be on its way on the   *)
(* link of a sync; its invariant, AskInv, is explained there.              *)
(***************************************************************************)
EXTENDS Sync, SequenceTheorems, TLAPS

IsWork(w) == w = [at |-> w.at, l |-> w.l, ans |-> w.ans]
Confirms(w, g) == w.at = "confirm" /\ w.ans.kind = "blobs" => w.ans.ids \subseteq g

(* What the threads are about to confirm was delivered.                    *)
WorkInv ==
    /\ work = [th \in Threads |-> work[th]]
    /\ \A th \in Threads : IsWork(work[th]) /\ Confirms(work[th], got)

(* So was what they have confirmed ...                                     *)
RequestInv ==
    /\ \E S : toNode \in Seq(S)
    /\ \A i \in 1..Len(toNode) : toNode[i].req = "delete" => toNode[i].ids \subseteq got

(* A reader takes the form of an answer as its next step, and no form is a  *)
(* confirmation.                                                           *)
AnswerInv ==
    /\ \E S : fromNode \in Seq(S)
    /\ \A i \in 1..Len(fromNode) : fromNode[i].form # "confirm"

IInv == WorkInv /\ RequestInv /\ AnswerInv /\ DeletedWasDelivered /\ OneLinkToNode

LEMMA InitInv == Init => IInv
<1> SUFFICES ASSUME Init PROVE IInv
  OBVIOUS
<1>1. WorkInv
  BY DEF Init, WorkInv, IsWork, Confirms, Rest, NoAns
<1>2. RequestInv
  <2>1. toNode \in Seq({}) /\ Len(toNode) = 0
    BY DEF Init
  <2> QED BY <2>1 DEF RequestInv
<1>3. AnswerInv
  <2>1. fromNode \in Seq({}) /\ Len(fromNode) = 0
    BY DEF Init
  <2> QED BY <2>1 DEF AnswerInv
<1>4. DeletedWasDelivered /\ OneLinkToNode
  BY DEF Init, DeletedWasDelivered, OneLinkToNode
<1> QED BY <1>1, <1>2, <1>3, <1>4 DEF IInv

-----------------------------------------------------------------------------
(* A thread goes on to anything but a confirmation.                        *)
LEMMA StepWork ==
    ASSUME WorkInv, got \subseteq got', NEW th \in Threads, NEW w, IsWork(w),
           w.at # "confirm" \/ Confirms(w, got'), work' = [work EXCEPT ![th] = w]
    PROVE  WorkInv'
<1>1. work' = [o \in Threads |-> IF o = th THEN w ELSE work[o]]
  BY DEF WorkInv
<1>2. work' = [o \in Threads |-> work'[o]]
  BY <1>1
<1>3. ASSUME NEW o \in Threads PROVE IsWork(work'[o]) /\ Confirms(work'[o], got')
  <2>1. CASE o = th
    BY <1>1, <2>1 DEF Confirms
  <2>2. CASE o # th
    <3>1. work'[o] = work[o] /\ IsWork(work[o]) /\ Confirms(work[o], got)
      BY <1>1, <2>2 DEF WorkInv
    <3> QED BY <3>1 DEF Confirms
  <2> QED BY <2>1, <2>2
<1> QED BY <1>2, <1>3 DEF WorkInv

LEMMA GotoWork ==
    ASSUME WorkInv, got \subseteq got', NEW th \in Threads, NEW s, s # "confirm", Goto(th, s)
    PROVE  WorkInv'
<1> DEFINE w == [work[th] EXCEPT !.at = s]
<1>1. IsWork(work[th])
  BY DEF WorkInv
<1>2. IsWork(w) /\ w.at # "confirm"
  BY <1>1 DEF IsWork
<1>3. work' = [work EXCEPT ![th] = w]
  BY DEF Goto, Step
<1> HIDE DEF w
<1> QED BY <1>2, <1>3, StepWork

LEMMA RestWork ==
    ASSUME WorkInv, got \subseteq got', NEW th \in Threads, NEW s, s # "confirm", NEW l,
           Step(th, [Rest EXCEPT !.at = s, !.l = l])
    PROVE  WorkInv'
<1> DEFINE w == [Rest EXCEPT !.at = s, !.l = l]
<1>1. IsWork(w) /\ w.at # "confirm"
  <2>1. w = [[Rest EXCEPT !.at = s] EXCEPT !.l = l]
    OBVIOUS
  <2> HIDE DEF w
  <2>2. w = [at |-> s, l |-> l, ans |-> NoAns]
    BY <2>1 DEF Rest
  <2> QED BY <2>2 DEF IsWork
<1>2. work' = [work EXCEPT ![th] = w]
  BY DEF Step
<1> HIDE DEF w
<1> QED BY <1>1, <1>2, StepWork

LEMMA DoneWork ==
    ASSUME WorkInv, got \subseteq got', NEW th \in Threads, Done(th)
    PROVE  WorkInv'
<1>1. IsWork(Rest) /\ Rest.at # "confirm"
  BY DEF IsWork, Rest
<1>2. work' = [work EXCEPT ![th] = Rest]
  BY DEF Done, Step
<1> QED BY <1>1, <1>2, StepWork

LEMMA SameWork ==
    ASSUME WorkInv, got \subseteq got', UNCHANGED work
    PROVE  WorkInv'
BY DEF WorkInv, Confirms

(* Requests on their way.                                                  *)
LEMMA SendRequest ==
    ASSUME RequestInv, UNCHANGED got, NEW l, NEW req, NEW ids, Send(l, req, ids),
           req = "delete" => ids \subseteq got
    PROVE  RequestInv'
<1> DEFINE q == [l |-> l, req |-> req, ids |-> ids]
<1>1. CASE up = l
  <2>1. PICK S : toNode \in Seq(S)
    BY DEF RequestInv
  <2>2. toNode' = Append(toNode, q)
    BY <1>1 DEF Send
  <2>3. q.req = req /\ q.ids = ids
    OBVIOUS
  <2> DEFINE T == S \cup {q}
  <2> HIDE DEF q
  <2>4. toNode \in Seq(T) /\ q \in T
    BY <2>1
  <2> HIDE DEF T
  <2>5. /\ toNode' \in Seq(T) /\ Len(toNode') = Len(toNode) + 1 /\ Len(toNode) \in Nat
        /\ \A i \in 1..Len(toNode) : toNode'[i] = toNode[i]
        /\ toNode'[Len(toNode) + 1] = q
    BY <2>2, <2>4, AppendProperties
  <2> QED BY <2>3, <2>5 DEF RequestInv
<1>2. CASE up # l
  BY <1>2 DEF Send, RequestInv
<1> QED BY <1>1, <1>2

LEMMA TakeRequest ==
    ASSUME RequestInv, UNCHANGED got, toNode # <<>>, toNode' = Tail(toNode)
    PROVE  RequestInv'
<1>1. PICK S : toNode \in Seq(S)
  BY DEF RequestInv
<1>2. /\ toNode' \in Seq(S) /\ Len(toNode') = Len(toNode) - 1 /\ Len(toNode) \in Nat \ {0}
      /\ \A i \in 1..Len(toNode') : toNode'[i] = toNode[i + 1]
  BY <1>1, HeadTailProperties, EmptySeq
<1> QED BY <1>2 DEF RequestInv

LEMMA SameRequests ==
    ASSUME RequestInv, got \subseteq got', UNCHANGED toNode
    PROVE  RequestInv'
BY DEF RequestInv

(* Answers on their way.                                                   *)
LEMMA HeadForm ==
    ASSUME AnswerInv, fromNode # <<>>
    PROVE  Head(fromNode).form # "confirm"
<1>1. PICK S : fromNode \in Seq(S)
  BY DEF AnswerInv
<1>2. Head(fromNode) = fromNode[1] /\ 1 \in 1..Len(fromNode)
  BY <1>1, EmptySeq
<1> QED BY <1>2 DEF AnswerInv

LEMMA TakeAnswer ==
    ASSUME AnswerInv, fromNode # <<>>, fromNode' = Tail(fromNode)
    PROVE  AnswerInv'
<1>1. PICK S : fromNode \in Seq(S)
  BY DEF AnswerInv
<1>2. /\ fromNode' \in Seq(S) /\ Len(fromNode') = Len(fromNode) - 1 /\ Len(fromNode) \in Nat
      /\ \A i \in 1..Len(fromNode') : fromNode'[i] = fromNode[i + 1]
  BY <1>1, HeadTailProperties, EmptySeq
<1> QED BY <1>2 DEF AnswerInv

LEMMA NoAnswers == ASSUME fromNode' = <<>> PROVE AnswerInv'
<1>1. fromNode' \in Seq({}) /\ Len(fromNode') = 0
  OBVIOUS
<1> QED BY <1>1 DEF AnswerInv

LEMMA SameAnswers == ASSUME AnswerInv, UNCHANGED fromNode PROVE AnswerInv'
BY DEF AnswerInv

LEMMA AnswerSent ==
    ASSUME AnswerInv, NEW l, NEW form, NEW kind, NEW ids, form # "confirm",
           Answer(l, form, kind, ids)
    PROVE  AnswerInv'
<1> DEFINE a == [form |-> form, kind |-> kind, ids |-> ids]
<1>1. CASE up = l
  <2>1. PICK S : fromNode \in Seq(S)
    BY DEF AnswerInv
  <2>2. fromNode' = Append(fromNode, a)
    BY <1>1 DEF Answer
  <2>3. a.form = form
    OBVIOUS
  <2> DEFINE T == S \cup {a}
  <2> HIDE DEF a
  <2>4. fromNode \in Seq(T) /\ a \in T
    BY <2>1
  <2> HIDE DEF T
  <2>5. /\ fromNode' \in Seq(T) /\ Len(fromNode') = Len(fromNode) + 1 /\ Len(fromNode) \in Nat
        /\ \A i \in 1..Len(fromNode) : fromNode'[i] = fromNode[i]
        /\ fromNode'[Len(fromNode) + 1] = a
    BY <2>2, <2>4, AppendProperties
  <2> QED BY <2>3, <2>5 DEF AnswerInv
<1>2. CASE up # l
  BY <1>2, SameAnswers DEF Answer
<1> QED BY <1>1, <1>2

-----------------------------------------------------------------------------
(* One lemma for each invariant, one step for each action or for the        *)
(* actions that treat it alike.                                            *)

LEMMA ThreadsExist ==
    /\ "sync" \in Threads /\ Hub \in Threads /\ Hub \in Readers
    /\ \A r \in Readers : r \in Threads
BY SyncThreads DEF Threads

(* What a thread is about to confirm.  Only DeliverSynced goes on to a      *)
(* confirmation, of the messages it has just added to `got`.               *)
LEMMA WorkStep ==
    ASSUME WorkInv, AnswerInv, [Next]_vars
    PROVE  WorkInv' /\ got \subseteq got'
<1> USE ThreadsExist
<1>1. ASSUME NEW th \in Threads, AnyThread(th) PROVE WorkInv' /\ got \subseteq got'
  <2>1. UNCHANGED got
    BY <1>1 DEF AnyThread, Finish, DropOutLink, IdentifyAndList, SendList
  <2>2. CASE Finish(th)
    BY <2>1, <2>2, RestWork DEF Finish
  <2>3. CASE DropOutLink(th) \/ SendList(th)
    BY <2>1, <2>3, DoneWork DEF DropOutLink, SendList
  <2>4. CASE IdentifyAndList(th)
    BY <2>1, <2>4, GotoWork DEF IdentifyAndList
  <2> QED BY <1>1, <2>1, <2>2, <2>3, <2>4 DEF AnyThread
<1>2. ASSUME SyncStep PROVE WorkInv' /\ got \subseteq got'
  <2>1. UNCHANGED got
    BY <1>2 DEF SyncStep, Wake, WakeStalled, WakeLinking, WakeRequested, WakeAuto,
                ExpirePath, Retry, StartSync, BeginLinking, Lookup, UseLink, AskLink
  <2>2. CASE Wake
    <3>1. CASE WakeStalled
      BY <2>1, <3>1, GotoWork DEF WakeStalled
    <3>2. CASE WakeLinking \/ WakeRequested
      BY <2>1, <3>2, GotoWork DEF WakeLinking, WakeRequested
    <3>3. CASE WakeAuto
      BY <2>1, <3>3, GotoWork, DoneWork DEF WakeAuto
    <3> QED BY <2>1, <2>2, <3>1, <3>2, <3>3 DEF Wake
  <2>3. CASE ExpirePath \/ UseLink
    BY <2>1, <2>3, GotoWork DEF ExpirePath, UseLink
  <2>4. CASE Retry \/ AskLink
    BY <2>1, <2>4, GotoWork, DoneWork DEF Retry, AskLink, SendLinkRequest
  <2>5. CASE StartSync
    BY <2>1, <2>5, GotoWork, DoneWork DEF StartSync
  <2>6. CASE BeginLinking
    <3> DEFINE w == [work["sync"] EXCEPT !.at = "lookup"]
    <3>1. IsWork(work["sync"])
      BY DEF WorkInv
    <3>2. IsWork(w) /\ w.at # "confirm"
      BY <3>1 DEF IsWork
    <3>3. work' = [work EXCEPT !["sync"] = w]
      BY <2>6 DEF BeginLinking
    <3> HIDE DEF w
    <3> QED BY <2>1, <3>2, <3>3, StepWork
  <2>7. CASE Lookup
    BY <2>1, <2>7, GotoWork, RestWork DEF Lookup
  <2> QED BY <1>2, <2>1, <2>2, <2>3, <2>4, <2>5, <2>6, <2>7 DEF SyncStep
<1>3. ASSUME NEW r \in Readers, DeliverSynced(r) PROVE WorkInv' /\ got \subseteq got'
  <2> DEFINE s == IF work[r].ans.ids = {} THEN "finish" ELSE "confirm"
             w == [work[r] EXCEPT !.at = s]
  <2>1. got' = IF work[r].ans.kind = "blobs" THEN got \cup work[r].ans.ids ELSE got
    BY <1>3 DEF DeliverSynced
  <2>2. IsWork(work[r])
    BY DEF WorkInv
  <2>3. IsWork(w) /\ w.ans = work[r].ans
    BY <2>2 DEF IsWork
  <2>4. work' = [work EXCEPT ![r] = w]
    BY <1>3 DEF DeliverSynced, Goto, Step
  <2> HIDE DEF w
  <2>5. Confirms(w, got')
    BY <2>1, <2>3 DEF Confirms
  <2>6. got \subseteq got'
    BY <2>1
  <2> QED BY <2>3, <2>4, <2>5, <2>6, StepWork
<1>4. ASSUME NEW r \in Readers, ReaderStep(r), ~DeliverSynced(r)
      PROVE  WorkInv' /\ got \subseteq got'
  <2>1. UNCHANGED got
    BY <1>4 DEF ReaderStep, OnLinkUp, Advertised, AssembleAnswer, VerifyAnswer,
                ClearReceiver, HandleResponse, SendGet, GetRequested, Confirm
  <2>2. CASE OnLinkUp(r) \/ Advertised(r) \/ AssembleAnswer(r)
    BY <2>1, <2>2, GotoWork, DoneWork DEF OnLinkUp, Advertised, AssembleAnswer
  <2>3. CASE VerifyAnswer(r)
    <3>1. CASE Step(r, [work[r] EXCEPT !.at = "clear", !.ans = sync.receiver])
      <4> DEFINE w == [work[r] EXCEPT !.at = "clear", !.ans = sync.receiver]
      <4>1. IsWork(work[r])
        BY DEF WorkInv
      <4>2. w = [[work[r] EXCEPT !.at = "clear"] EXCEPT !.ans = sync.receiver]
        OBVIOUS
      <4>3. work' = [work EXCEPT ![r] = w]
        BY <3>1 DEF Step
      <4> HIDE DEF w
      <4>4. w = [at |-> "clear", l |-> work[r].l, ans |-> sync.receiver]
        BY <4>1, <4>2 DEF IsWork
      <4>5. IsWork(w) /\ w.at # "confirm"
        BY <4>4 DEF IsWork
      <4> QED BY <2>1, <4>3, <4>5, StepWork
    <3> QED BY <2>1, <2>3, <3>1, GotoWork, DoneWork DEF VerifyAnswer
  <2>4. CASE ClearReceiver(r) \/ Confirm(r)
    BY <2>1, <2>4, GotoWork DEF ClearReceiver, Confirm
  <2>5. CASE HandleResponse(r) \/ SendGet(r) \/ GetRequested(r)
    BY <2>1, <2>5, GotoWork, DoneWork DEF HandleResponse, SendGet, GetRequested
  <2> QED BY <1>4, <2>1, <2>2, <2>3, <2>4, <2>5 DEF ReaderStep
<1>5. ASSUME NEW r \in Readers, LinkProof(r) \/ Receive(r) \/ OutLinkClosed(r)
      PROVE  WorkInv' /\ got \subseteq got'
  <2>1. UNCHANGED got
    BY <1>5 DEF LinkProof, Receive, OutLinkClosed
  <2>2. CASE LinkProof(r)
    BY <2>1, <2>2, RestWork DEF LinkProof
  <2>3. CASE Receive(r)
    <3> DEFINE w == [at |-> Head(fromNode).form, l |-> up, ans |-> Head(fromNode)]
    <3>1. CASE Step(r, w)
      <4>1. work' = [work EXCEPT ![r] = w]
        BY <3>1 DEF Step
      <4>2. IsWork(w)
        BY DEF IsWork
      <4>3. w.at # "confirm"
        BY <2>3, HeadForm DEF Receive
      <4> HIDE DEF w
      <4> QED BY <2>1, <4>1, <4>2, <4>3, StepWork
    <3>2. CASE Done(r)
      BY <2>1, <3>2, DoneWork
    <3> QED BY <2>1, <2>3, <3>1, <3>2 DEF Receive
  <2>4. CASE OutLinkClosed(r)
    BY <2>1, <2>4, GotoWork, DoneWork DEF OutLinkClosed
  <2> QED BY <1>5, <2>1, <2>2, <2>3, <2>4
<1>6. ASSUME ConnectionLost \/ EndSync PROVE WorkInv' /\ got \subseteq got'
  BY <1>6, GotoWork, DoneWork DEF ConnectionLost, EndSync
<1>7. ASSUME \/ Connect \/ request_sync \/ Announce \/ OutboxAsks \/ Lose
             \/ NodeServes \/ UNCHANGED vars
      PROVE  WorkInv' /\ got \subseteq got'
  <2>1. UNCHANGED <<work, got>>
    BY <1>7 DEF Connect, request_sync, Announce, OutboxAsks, Lose, NodeServes, vars
  <2> QED BY <2>1, SameWork
<1> QED BY <1>1, <1>2, <1>3, <1>4, <1>5, <1>6, <1>7 DEF Next

(* What the threads have confirmed.                                        *)
LEMMA RequestStep ==
    ASSUME WorkInv, RequestInv, got \subseteq got', [Next]_vars
    PROVE  RequestInv'
<1> USE ThreadsExist
<1>1. ASSUME NEW th \in Threads, AnyThread(th) PROVE RequestInv'
  <2>1. CASE SendList(th)
    BY <2>1, SendRequest DEF SendList
  <2>2. CASE ~SendList(th)
    BY <1>1, <2>2, SameRequests DEF AnyThread, Finish, DropOutLink, IdentifyAndList, node
  <2> QED BY <2>1, <2>2
<1>2. ASSUME SyncStep PROVE RequestInv'
  BY <1>2, SameRequests DEF SyncStep, Wake, WakeStalled, WakeLinking, WakeRequested,
        WakeAuto, ExpirePath, Retry, StartSync, BeginLinking, Lookup, UseLink, AskLink, node
<1>3. ASSUME NEW r \in Readers, Confirm(r) PROVE RequestInv'
  <2>1. Confirms(work[r], got) /\ work[r].at = "confirm"
    BY <1>3 DEF WorkInv, Confirm, At
  <2> DEFINE ids == IF work[r].ans.kind = "blobs" THEN work[r].ans.ids ELSE {}
  <2>2. ids \subseteq got
    BY <2>1 DEF Confirms
  <2>3. Send(work[r].l, "delete", ids) /\ UNCHANGED got
    BY <1>3 DEF Confirm
  <2> HIDE DEF ids
  <2> QED BY <2>2, <2>3, SendRequest
<1>4. ASSUME NEW r \in Readers, Advertised(r) PROVE RequestInv'
  BY <1>4, SendRequest, SameRequests DEF Advertised
<1>5. ASSUME NEW r \in Readers, SendGet(r) PROVE RequestInv'
  <2>1. CASE UNCHANGED toNode
    BY <2>1, SameRequests
  <2>2. ASSUME NEW ids, Send(work[r].l, "get", ids) PROVE RequestInv'
    BY <1>5, <2>2, SendRequest DEF SendGet
  <2> QED BY <1>5, <2>1, <2>2 DEF SendGet
<1>6. ASSUME NEW r \in Readers, ReaderStep(r), ~Confirm(r), ~Advertised(r), ~SendGet(r)
      PROVE  RequestInv'
  BY <1>6, SameRequests DEF ReaderStep, OnLinkUp, AssembleAnswer, VerifyAnswer,
        ClearReceiver, HandleResponse, GetRequested, DeliverSynced, node
<1>7. ASSUME \/ \E r \in Readers : LinkProof(r) \/ Receive(r) \/ OutLinkClosed(r)
             \/ ConnectionLost \/ EndSync \/ Connect \/ request_sync \/ Announce
             \/ OutboxAsks \/ UNCHANGED vars
      PROVE  RequestInv'
  BY <1>7, SameRequests DEF LinkProof, Receive, OutLinkClosed, ConnectionLost, EndSync,
        Connect, request_sync, Announce, OutboxAsks, node, vars
<1>8. ASSUME Lose PROVE RequestInv'
  BY <1>8, SameRequests, TakeRequest DEF Lose, LoseLink
<1>9. ASSUME NodeServes PROVE RequestInv'
  BY <1>9, TakeRequest DEF NodeServes
<1> QED BY <1>1, <1>2, <1>3, <1>4, <1>5, <1>6, <1>7, <1>8, <1>9 DEF Next

(* The answers on their way.                                               *)
LEMMA AnswerStep ==
    ASSUME AnswerInv, [Next]_vars
    PROVE  AnswerInv'
<1>1. ASSUME NEW th \in Threads, AnyThread(th) PROVE AnswerInv'
  BY <1>1, NoAnswers, SameAnswers DEF AnyThread, Finish, DropOutLink, IdentifyAndList,
        SendList, node
<1>2. ASSUME SyncStep PROVE AnswerInv'
  BY <1>2, SameAnswers DEF SyncStep, Wake, WakeStalled, WakeLinking, WakeRequested,
        WakeAuto, ExpirePath, Retry, StartSync, BeginLinking, Lookup, UseLink, AskLink, node
<1>3. ASSUME NEW r \in Readers, ReaderStep(r) PROVE AnswerInv'
  BY <1>3, SameAnswers DEF ReaderStep, OnLinkUp, Advertised, AssembleAnswer, VerifyAnswer,
        ClearReceiver, HandleResponse, SendGet, GetRequested, DeliverSynced, Confirm, node
<1>4. ASSUME NEW r \in Readers, LinkProof(r) \/ Receive(r) \/ OutLinkClosed(r)
      PROVE  AnswerInv'
  BY <1>4, NoAnswers, TakeAnswer DEF LinkProof, Receive, OutLinkClosed
<1>5. ASSUME \/ ConnectionLost \/ EndSync \/ Connect \/ request_sync \/ Announce
             \/ OutboxAsks \/ UNCHANGED vars
      PROVE  AnswerInv'
  BY <1>5, NoAnswers, SameAnswers DEF ConnectionLost, EndSync, Connect, request_sync,
        Announce, OutboxAsks, node, vars
<1>6. ASSUME Lose PROVE AnswerInv'
  BY <1>6, NoAnswers, SameAnswers, TakeAnswer DEF Lose, LoseLink
<1>7. ASSUME NodeServes PROVE AnswerInv'
  <2>1. ASSUME NEW l, NEW form, NEW kind, NEW ids, form # "confirm", Answer(l, form, kind, ids)
        PROVE  AnswerInv'
    BY <2>1, AnswerSent
  <2> QED BY <1>7, <2>1 DEF NodeServes
<1> QED BY <1>1, <1>2, <1>3, <1>4, <1>5, <1>6, <1>7 DEF Next

(* The node's store.                                                       *)
LEMMA StoreStep ==
    ASSUME RequestInv, DeletedWasDelivered, got \subseteq got', [Next]_vars
    PROVE  DeletedWasDelivered'
<1>1. ASSUME NodeServes PROVE DeletedWasDelivered'
  <2>1. PICK S : toNode \in Seq(S)
    BY DEF RequestInv
  <2>2. Head(toNode) = toNode[1] /\ 1 \in 1..Len(toNode)
    BY <1>1, <2>1, EmptySeq DEF NodeServes
  <2>3. \/ UNCHANGED store
        \/ Head(toNode).req = "delete" /\ store' = store \ Head(toNode).ids
    BY <1>1 DEF NodeServes
  <2>4. Head(toNode).req = "delete" => Head(toNode).ids \subseteq got
    BY <2>2 DEF RequestInv
  <2> QED BY <2>3, <2>4 DEF DeletedWasDelivered
<1>2. ASSUME ~NodeServes PROVE UNCHANGED store
  <2>1. ASSUME NEW th \in Threads, AnyThread(th) PROVE UNCHANGED store
    BY <2>1 DEF AnyThread, Finish, DropOutLink, IdentifyAndList, SendList, node
  <2>2. ASSUME SyncStep PROVE UNCHANGED store
    BY <2>2 DEF SyncStep, Wake, WakeStalled, WakeLinking, WakeRequested, WakeAuto,
          ExpirePath, Retry, StartSync, BeginLinking, Lookup, UseLink, AskLink, node
  <2>3. ASSUME NEW r \in Readers, ReaderStep(r) PROVE UNCHANGED store
    BY <2>3 DEF ReaderStep, OnLinkUp, Advertised, AssembleAnswer, VerifyAnswer,
          ClearReceiver, HandleResponse, SendGet, GetRequested, DeliverSynced, Confirm, node
  <2>4. ASSUME NEW r \in Readers, LinkProof(r) \/ Receive(r) \/ OutLinkClosed(r)
        PROVE  UNCHANGED store
    BY <2>4 DEF LinkProof, Receive, OutLinkClosed
  <2>5. ASSUME \/ ConnectionLost \/ EndSync \/ Connect \/ request_sync \/ Announce
               \/ OutboxAsks \/ Lose \/ UNCHANGED vars
        PROVE  UNCHANGED store
    BY <2>5 DEF ConnectionLost, EndSync, Connect, request_sync, Announce, OutboxAsks,
          Lose, node, vars
  <2> QED BY <1>2, <2>1, <2>2, <2>3, <2>4, <2>5 DEF Next
<1> QED BY <1>1, <1>2 DEF DeletedWasDelivered

(* The link: a request for one is made only where there is none of either. *)
LEMMA LinkStep ==
    ASSUME OneLinkToNode, [Next]_vars
    PROVE  OneLinkToNode'
<1>1. ASSUME NEW th \in Threads, AnyThread(th) PROVE OneLinkToNode'
  BY <1>1 DEF AnyThread, Finish, DropOutLink, IdentifyAndList, SendList, link, OneLinkToNode
<1>2. ASSUME Retry \/ AskLink PROVE OneLinkToNode'
  BY <1>2 DEF Retry, AskLink, SendLinkRequest, OneLinkToNode
<1>3. ASSUME SyncStep, ~Retry, ~AskLink PROVE OneLinkToNode'
  BY <1>3 DEF SyncStep, Wake, WakeStalled, WakeLinking, WakeRequested, WakeAuto,
        ExpirePath, StartSync, BeginLinking, Lookup, UseLink, link, OneLinkToNode
<1>4. ASSUME NEW r \in Readers, ReaderStep(r) PROVE OneLinkToNode'
  BY <1>4 DEF ReaderStep, OnLinkUp, Advertised, AssembleAnswer, VerifyAnswer, ClearReceiver,
        HandleResponse, SendGet, GetRequested, DeliverSynced, Confirm, link, OneLinkToNode
<1>5. ASSUME NEW r \in Readers, LinkProof(r) \/ Receive(r) \/ OutLinkClosed(r)
      PROVE  OneLinkToNode'
  BY <1>5 DEF LinkProof, Receive, OutLinkClosed, link, OneLinkToNode
<1>6. ASSUME \/ ConnectionLost \/ EndSync \/ Connect \/ request_sync \/ Announce
             \/ OutboxAsks \/ Lose \/ NodeServes \/ UNCHANGED vars
      PROVE  OneLinkToNode'
  BY <1>6 DEF ConnectionLost, EndSync, Connect, request_sync, Announce, OutboxAsks,
        Lose, LoseLink, NodeServes, link, vars, OneLinkToNode
<1> QED BY <1>1, <1>2, <1>3, <1>4, <1>5, <1>6 DEF Next

LEMMA NextInv == IInv /\ [Next]_vars => IInv'
<1> SUFFICES ASSUME IInv, [Next]_vars PROVE IInv'
  OBVIOUS
<1>1. WorkInv' /\ got \subseteq got'
  BY WorkStep DEF IInv
<1>2. RequestInv' /\ DeletedWasDelivered'
  BY <1>1, RequestStep, StoreStep DEF IInv
<1>3. AnswerInv' /\ OneLinkToNode'
  BY AnswerStep, LinkStep DEF IInv
<1> QED BY <1>1, <1>2, <1>3 DEF IInv

(* The node never deletes a message that handle_sync_response had not      *)
(* passed to deliver_synced_message, however many threads and syncs        *)
(* overlap, and whichever answer is taken for another.                     *)
THEOREM NodeDeletesOnlyDelivered == Spec => []DeletedWasDelivered
<1>1. IInv => DeletedWasDelivered
  BY DEF IInv
<1> QED BY <1>1, InitInv, NextInv, PTL DEF Spec

(* send_link_request, whoever calls it, never asks for a link to the node   *)
(* while one is up or asked for.                                           *)
THEOREM AtMostOneLink == Spec => []OneLinkToNode
<1>1. IInv => OneLinkToNode
  BY DEF IInv
<1> QED BY <1>1, InitInv, NextInv, PTL DEF Spec

-----------------------------------------------------------------------------
(* Types.  With the sync state go the places a thread can be in, the links  *)
(* it may name there, and what is on the wire; a link that is asked for is  *)
(* named nowhere yet.                                                      *)

OnLink == {"linkup", "have", "list", "send", "packet", "adv", "part", "verify", "clear",
           "listed", "getting", "blobs", "confirm"}
Places == Sampling \cup OnLink \cup {"finish", "drop", "expire", "lookup", "ask"}
Works == [at : Places, l : 0..MaxLinks, ans : Answers \cup {NoAns}]
Requests == [l : 1..MaxLinks, req : {"list", "get", "delete", "parts"}, ids : SUBSET Msgs]
SyncStates == [phase : Phases, link : 0..MaxLinks, receiver : Answers \cup {NoAns},
               left : -1..SYNC_DEADLINE_SECS, auto_done : BOOLEAN,
               requested : BOOLEAN, wait : 0..SYNC_ROUTE_RETRY_SECS,
               route_tries : 0..SYNC_ROUTE_TRIES + 1,
               probe : 0..PN_PROBE_RETRY_SECS]

WorkTyped ==
    /\ work \in [Threads -> Works] /\ overlap \in BOOLEAN
    /\ \A th \in Threads : work[th].at \in OnLink => work[th].l # 0
WireTyped ==
    /\ toNode \in Seq(Requests) /\ fromNode \in Seq(Answers)
    /\ up = 0 => fromNode = <<>>
PendIsNew ==
    pend # 0 => /\ sync.link # pend
                /\ \A th \in Threads : work[th].l # pend
                /\ \A i \in 1..Len(toNode) : toNode[i].l # pend

\* The try beyond the last is the sync thread's to end.
TriesCounted == sync.route_tries > SYNC_ROUTE_TRIES => work["sync"].at = "finish"

Types == /\ TypeOK /\ WorkTyped /\ WireTyped /\ PendIsNew /\ TriesCounted
         /\ OneLinkToNode

LEMMA TimesFacts ==
    /\ SYNC_DEADLINE_SECS \in Nat /\ SYNC_DEADLINE_SECS >= 1
    /\ SYNC_ROUTE_RETRY_SECS \in Nat /\ SYNC_ROUTE_RETRY_SECS >= 1
    /\ SYNC_ROUTE_TRIES \in Nat /\ SYNC_ROUTE_TRIES >= 1
    /\ PN_PROBE_RETRY_SECS \in Nat /\ PN_PROBE_RETRY_SECS >= 1
    /\ MaxLinks \in Nat /\ MaxLinks >= 1
BY SyncTimes

\* One field of the sync state at a time.
LEMMA SyncField ==
    ASSUME NEW s \in SyncStates
    PROVE  /\ \A v \in Phases : [s EXCEPT !.phase = v] \in SyncStates
           /\ \A v \in 0..MaxLinks : [s EXCEPT !.link = v] \in SyncStates
           /\ \A v \in Answers \cup {NoAns} : [s EXCEPT !.receiver = v] \in SyncStates
           /\ \A v \in -1..SYNC_DEADLINE_SECS : [s EXCEPT !.left = v] \in SyncStates
           /\ \A v \in BOOLEAN : [s EXCEPT !.auto_done = v] \in SyncStates
           /\ \A v \in BOOLEAN : [s EXCEPT !.requested = v] \in SyncStates
           /\ \A v \in 0..SYNC_ROUTE_RETRY_SECS : [s EXCEPT !.wait = v] \in SyncStates
           /\ \A v \in 0..SYNC_ROUTE_TRIES + 1 : [s EXCEPT !.route_tries = v] \in SyncStates
           /\ \A v \in 0..PN_PROBE_RETRY_SECS : [s EXCEPT !.probe = v] \in SyncStates
<1> DEFINE A == Answers \cup {NoAns}
           D == -1..SYNC_DEADLINE_SECS
           W == 0..SYNC_ROUTE_RETRY_SECS
           R == 0..SYNC_ROUTE_TRIES + 1
           P == 0..PN_PROBE_RETRY_SECS
           L == 0..MaxLinks
<1>1. SyncStates = [phase : Phases, link : L, receiver : A, left : D, auto_done : BOOLEAN,
                    requested : BOOLEAN, wait : W, route_tries : R, probe : P]
  BY DEF SyncStates
<1> HIDE DEF A, D, W, R, P, L
<1>2. /\ \A v \in Phases : [s EXCEPT !.phase = v] \in SyncStates
      /\ \A v \in L : [s EXCEPT !.link = v] \in SyncStates
      /\ \A v \in A : [s EXCEPT !.receiver = v] \in SyncStates
  BY <1>1
<1>3. /\ \A v \in D : [s EXCEPT !.left = v] \in SyncStates
      /\ \A v \in BOOLEAN : [s EXCEPT !.auto_done = v] \in SyncStates
      /\ \A v \in BOOLEAN : [s EXCEPT !.requested = v] \in SyncStates
  BY <1>1
<1>4. /\ \A v \in W : [s EXCEPT !.wait = v] \in SyncStates
      /\ \A v \in R : [s EXCEPT !.route_tries = v] \in SyncStates
      /\ \A v \in P : [s EXCEPT !.probe = v] \in SyncStates
  BY <1>1
<1> QED BY <1>2, <1>3, <1>4 DEF A, D, W, R, P, L

\* A second passes.
LEMMA LaterType ==
    ASSUME sync \in SyncStates
    PROVE  /\ Later \in SyncStates
           /\ Later.phase = sync.phase /\ Later.link = sync.link
           /\ Later.receiver = sync.receiver
<1> DEFINE n == IF sync.left < 0 \/ sync.phase = "Idle" THEN sync.left ELSE sync.left - 1
           a == Less(sync.wait)
           c == Less(sync.probe)
           s1 == [sync EXCEPT !.left = n]
           s2 == [s1 EXCEPT !.wait = a]
<1>1. n \in -1..SYNC_DEADLINE_SECS /\ a \in 0..SYNC_ROUTE_RETRY_SECS /\ c \in 0..PN_PROBE_RETRY_SECS
  BY TimesFacts DEF SyncStates, Less
<1>2. Later = [s2 EXCEPT !.probe = c]
  BY DEF Later
<1> HIDE DEF n, a, c
<1>3. s1 \in SyncStates  BY <1>1, SyncField
<1>4. s2 \in SyncStates  BY <1>1, <1>3, SyncField
<1>5. Later \in SyncStates  BY <1>1, <1>2, <1>4, SyncField
<1>6. Later.phase = sync.phase /\ Later.link = sync.link /\ Later.receiver = sync.receiver
  BY <1>2 DEF SyncStates
<1> QED BY <1>5, <1>6

\* The sync state after the steps that change several of its fields.
LEMMA FinishType ==
    ASSUME sync \in SyncStates, NEW th \in Threads, Finish(th)
    PROVE  /\ sync' \in SyncStates
           /\ sync'.phase = "Idle" /\ sync'.link = 0 /\ sync'.receiver = NoAns
<1> DEFINE s1 == [sync EXCEPT !.phase = "Idle"]
           s2 == [s1 EXCEPT !.receiver = NoAns]
           s3 == [s2 EXCEPT !.link = 0]
           s4 == [s3 EXCEPT !.requested = FALSE]
<1>1. sync' = [s4 EXCEPT !.route_tries = 0]
  BY DEF Finish
<1>2. /\ "Idle" \in Phases /\ 0 \in 0..MaxLinks /\ FALSE \in BOOLEAN
      /\ 0 \in 0..SYNC_ROUTE_TRIES + 1
  BY TimesFacts DEF Phases
<1>3. s1 \in SyncStates  BY <1>2, SyncField
<1>4. s2 \in SyncStates  BY <1>3, SyncField
<1>5. s3 \in SyncStates /\ s3.phase = "Idle" /\ s3.link = 0 /\ s3.receiver = NoAns
  <2>1. s3 \in SyncStates  BY <1>2, <1>4, SyncField
  <2>2. s3.phase = "Idle" /\ s3.link = 0 /\ s3.receiver = NoAns
    BY DEF SyncStates
  <2> QED BY <2>1, <2>2
<1> HIDE DEF s3
<1>6. s4 \in SyncStates /\ s4.phase = "Idle" /\ s4.link = 0 /\ s4.receiver = NoAns
  <2>1. s4 \in SyncStates  BY <1>2, <1>5, SyncField
  <2> QED BY <1>5, <2>1 DEF SyncStates
<1> HIDE DEF s4
<1>7. sync' \in SyncStates  BY <1>1, <1>2, <1>6, SyncField
<1> QED BY <1>1, <1>6, <1>7 DEF SyncStates

LEMMA BeginType ==
    ASSUME sync \in SyncStates, BeginLinking
    PROVE  /\ sync' \in SyncStates
           /\ sync'.phase = "Linking" /\ sync'.link = 0 /\ sync'.receiver = NoAns
<1> DEFINE s1 == [sync EXCEPT !.phase = "Linking"]
           s2 == [s1 EXCEPT !.receiver = NoAns]
           s3 == [s2 EXCEPT !.link = 0]
           s4 == [s3 EXCEPT !.left = SYNC_DEADLINE_SECS]
           s5 == [s4 EXCEPT !.route_tries = 0]
<1>1. sync' = [s5 EXCEPT !.wait = 0]
  BY DEF BeginLinking
<1>2. /\ "Linking" \in Phases /\ 0 \in 0..MaxLinks
      /\ 0 \in 0..SYNC_ROUTE_TRIES + 1 /\ 0 \in 0..SYNC_ROUTE_RETRY_SECS
      /\ SYNC_DEADLINE_SECS \in -1..SYNC_DEADLINE_SECS
  BY TimesFacts DEF Phases
<1>3. s1 \in SyncStates  BY <1>2, SyncField
<1>4. s2 \in SyncStates  BY <1>3, SyncField
<1>5. s3 \in SyncStates /\ s3.phase = "Linking" /\ s3.link = 0 /\ s3.receiver = NoAns
  <2>1. s3 \in SyncStates  BY <1>2, <1>4, SyncField
  <2>2. s3.phase = "Linking" /\ s3.link = 0 /\ s3.receiver = NoAns
    BY DEF SyncStates
  <2> QED BY <2>1, <2>2
<1> HIDE DEF s3
<1>6. s4 \in SyncStates /\ s4.phase = "Linking" /\ s4.link = 0 /\ s4.receiver = NoAns
  <2>1. s4 \in SyncStates  BY <1>2, <1>5, SyncField
  <2> QED BY <1>5, <2>1 DEF SyncStates
<1> HIDE DEF s4
<1>7. s5 \in SyncStates /\ s5.phase = "Linking" /\ s5.link = 0 /\ s5.receiver = NoAns
  <2>1. s5 \in SyncStates  BY <1>2, <1>6, SyncField
  <2> QED BY <1>6, <2>1 DEF SyncStates
<1> HIDE DEF s5
<1>8. sync' \in SyncStates  BY <1>1, <1>2, <1>7, SyncField
<1> QED BY <1>1, <1>7, <1>8 DEF SyncStates

-----------------------------------------------------------------------------
(* What a thread's step does to `work` and `overlap`.                      *)

Busy(th) == work[th].at \notin Sampling
OthersBusy(th) == \E o \in Threads \ {th} : work[o].at \notin Sampling

\* Thread th goes on with w, and nobody else moves.
Moved(th, w) ==
    /\ work' \in [Threads -> Works] /\ work'[th] = w
    /\ \A o \in Threads : o # th => work'[o] = work[o]
    /\ overlap' = (overlap \/ (w.at \notin Sampling /\ OthersBusy(th)))

LEMMA StepMoves ==
    ASSUME WorkTyped, NEW th \in Threads, NEW w \in Works, Step(th, w)
    PROVE  Moved(th, w)
BY DEF WorkTyped, Step, Moved, OthersBusy

LEMMA GotoMoves ==
    ASSUME WorkTyped, NEW th \in Threads, NEW s \in Places, Goto(th, s)
    PROVE  \E w \in Works : /\ Moved(th, w)
                            /\ w.at = s /\ w.l = work[th].l /\ w.ans = work[th].ans
<1> DEFINE w == [work[th] EXCEPT !.at = s]
<1>1. w \in Works /\ w.at = s /\ w.l = work[th].l /\ w.ans = work[th].ans
  BY DEF WorkTyped, Works
<1>2. Step(th, w)  BY DEF Goto
<1> HIDE DEF w
<1> QED BY <1>1, <1>2, StepMoves

LEMMA RestType ==
    /\ Rest \in Works /\ Rest.at = "rest" /\ Rest.l = 0 /\ Rest.ans = NoAns
    /\ "rest" \in Sampling /\ "rest" \notin OnLink
BY TimesFacts DEF Rest, Works, Places, Sampling, OnLink

LEMMA DoneMoves ==
    ASSUME WorkTyped, NEW th \in Threads, Done(th)
    PROVE  /\ Moved(th, Rest) /\ overlap' = overlap
<1>1. Moved(th, Rest)  BY RestType, StepMoves DEF Done
<1>2. overlap' = overlap  BY <1>1, RestType DEF Moved, WorkTyped
<1> QED BY <1>1, <1>2

LEMMA RestWorks ==
    ASSUME NEW s \in Places, NEW l \in 0..MaxLinks
    PROVE  LET w == [Rest EXCEPT !.at = s, !.l = l]
           IN  w \in Works /\ w.at = s /\ w.l = l /\ w.ans = NoAns
<1> DEFINE w == [Rest EXCEPT !.at = s, !.l = l]
<1>1. w = [[Rest EXCEPT !.at = s] EXCEPT !.l = l]
  OBVIOUS
<1> HIDE DEF w
<1>2. w \in Works /\ w.at = s /\ w.l = l /\ w.ans = NoAns
  <2>1. w = [at |-> s, l |-> l, ans |-> NoAns]
    BY <1>1 DEF Rest
  <2> QED BY <2>1 DEF Works
<1> QED BY <1>2 DEF w

-----------------------------------------------------------------------------
(* Every step keeps the types.                                             *)

LEMMA MovedTyped ==
    ASSUME WorkTyped, NEW th \in Threads, NEW w \in Works, Moved(th, w),
           w.at \in OnLink => w.l # 0
    PROVE  WorkTyped'
<1>1. overlap' \in BOOLEAN  BY DEF Moved, WorkTyped, OthersBusy
<1> QED BY <1>1 DEF Moved, WorkTyped

LEMMA GotoTyped ==
    ASSUME WorkTyped, NEW th \in Threads, NEW s \in Places, Goto(th, s),
           s \in OnLink => work[th].at \in OnLink
    PROVE  WorkTyped'
<1>1. PICK w \in Works : /\ Moved(th, w)
                         /\ w.at = s /\ w.l = work[th].l /\ w.ans = work[th].ans
  BY GotoMoves
<1>2. w.at \in OnLink => w.l # 0  BY <1>1 DEF WorkTyped
<1> QED BY <1>1, <1>2, MovedTyped

LEMMA DoneTyped ==
    ASSUME WorkTyped, NEW th \in Threads, Done(th)
    PROVE  WorkTyped'
BY DoneMoves, RestType, MovedTyped

LEMMA PlacesExist ==
    /\ Sampling \subseteq Places /\ OnLink \subseteq Places
    /\ {"finish", "drop", "expire", "lookup", "ask"} \subseteq Places
    /\ {"finish", "drop", "expire", "lookup", "ask"} \cap OnLink = {}
    /\ Sampling \cap OnLink = {}
    /\ {"rest", "retry", "start", "begin", "lost"} \subseteq Sampling
    /\ {"finish", "drop", "expire", "lookup", "ask"} \cap Sampling = {}
    /\ {"linkup", "have", "list", "send", "packet", "adv", "part", "verify", "clear",
        "listed", "getting", "blobs", "confirm"} \subseteq OnLink
BY DEF Places, Sampling, OnLink

LEMMA TypeFields ==
    ASSUME TypeOK, WorkTyped
    PROVE  /\ sync \in SyncStates /\ sync.link \in 0..MaxLinks
           /\ sync.receiver \in Answers \cup {NoAns} /\ sync.phase \in Phases
           /\ pend \in 0..MaxLinks /\ up \in 0..MaxLinks
           /\ \A th \in Threads : /\ work[th] \in Works /\ work[th].l \in 0..MaxLinks
                                  /\ work[th].ans \in Answers \cup {NoAns}
<1>1. sync \in SyncStates /\ pend \in 0..MaxLinks /\ up \in 0..MaxLinks
  BY DEF TypeOK, SyncStates
<1>2. /\ sync.link \in 0..MaxLinks /\ sync.receiver \in Answers \cup {NoAns}
      /\ sync.phase \in Phases
  BY <1>1 DEF SyncStates
<1>3. ASSUME NEW th \in Threads
      PROVE  /\ work[th] \in Works /\ work[th].l \in 0..MaxLinks
             /\ work[th].ans \in Answers \cup {NoAns}
  BY DEF WorkTyped, Works
<1> QED BY <1>1, <1>2, <1>3

\* The oldest answer.
LEMMA HeadAnswer ==
    ASSUME WireTyped, fromNode # <<>>
    PROVE  /\ Head(fromNode) \in Answers /\ Head(fromNode) = fromNode[1]
           /\ Tail(fromNode) \in Seq(Answers) /\ up # 0
           /\ Len(fromNode) \in Nat \ {0}
BY HeadTailProperties, EmptySeq DEF WireTyped

LEMMA FinishMoves ==
    ASSUME TypeOK, WorkTyped, NEW th \in Threads, Finish(th)
    PROVE  \E w \in Works : Moved(th, w) /\ w.at = "drop" /\ w.l = sync.link
<1> DEFINE w == [Rest EXCEPT !.at = "drop", !.l = sync.link]
<1>1. th \in Threads /\ Step(th, w)
  BY ThreadsExist DEF Finish
<1>2. w \in Works /\ w.at = "drop" /\ w.l = sync.link
  BY PlacesExist, TypeFields, RestWorks
<1> HIDE DEF w
<1> QED BY <1>1, <1>2, StepMoves

LEMMA LookupMoves ==
    ASSUME TypeOK, WorkTyped, Lookup, up # 0
    PROVE  \E w \in Works : Moved("sync", w) /\ w.at = "have" /\ w.l = up
<1> DEFINE w == [Rest EXCEPT !.at = "have", !.l = up]
<1>1. "sync" \in Threads /\ Step("sync", w)
  BY ThreadsExist DEF Lookup
<1>2. w \in Works /\ w.at = "have" /\ w.l = up
  BY PlacesExist, TypeFields, RestWorks
<1> HIDE DEF w
<1> QED BY <1>1, <1>2, StepMoves

LEMMA LinkProofMoves ==
    ASSUME TypeOK, WorkTyped, NEW r \in Readers, LinkProof(r)
    PROVE  \E w \in Works : Moved(r, w) /\ w.at = "linkup" /\ w.l = pend
<1> DEFINE w == [Rest EXCEPT !.at = "linkup", !.l = pend]
<1>1. r \in Threads /\ Step(r, w)
  BY ThreadsExist DEF LinkProof
<1>2. w \in Works /\ w.at = "linkup" /\ w.l = pend
  BY PlacesExist, TypeFields, RestWorks
<1> HIDE DEF w
<1> QED BY <1>1, <1>2, StepMoves

LEMMA ReceiveMoves ==
    ASSUME TypeOK, WorkTyped, WireTyped, NEW r \in Readers, Receive(r), ~Done(r)
    PROVE  \E w \in Works :
              /\ Moved(r, w) /\ w.at = Head(fromNode).form /\ w.l = up /\ up # 0
              /\ w.ans = Head(fromNode) /\ w.at \in {"packet", "adv", "part"}
              /\ sync.link = up /\ sync.phase # "Idle"
              /\ w.at = "part" => sync.receiver # NoAns
<1> DEFINE a == Head(fromNode)
           w == [at |-> a.form, l |-> up, ans |-> a]
<1>1. a \in Answers /\ up # 0 /\ a.form # "close"
  BY HeadAnswer DEF Receive
<1>2. a.form \in {"packet", "adv", "part"}
  BY <1>1 DEF Answers
<1>3. /\ Step(r, w) /\ sync.link = up /\ sync.phase # "Idle"
      /\ a.form = "part" => sync.receiver # NoAns
  BY DEF Receive
<1>4. w \in Works /\ w.at = a.form /\ w.l = up /\ w.ans = a
  BY <1>1, <1>2, PlacesExist, TypeFields DEF Works
<1> HIDE DEF w, a
<1>5. r \in Threads  BY ThreadsExist
<1>6. Moved(r, w)  BY <1>3, <1>4, <1>5, StepMoves
<1> QED BY <1>1, <1>2, <1>3, <1>4, <1>6 DEF a

LEMMA VerifyMoves ==
    ASSUME TypeOK, WorkTyped, NEW r \in Readers,
           Step(r, [work[r] EXCEPT !.at = "clear", !.ans = sync.receiver])
    PROVE  \E w \in Works : /\ Moved(r, w)
                            /\ w.at = "clear" /\ w.l = work[r].l /\ w.ans = sync.receiver
<1> DEFINE w1 == [work[r] EXCEPT !.at = "clear"]
           w == [w1 EXCEPT !.ans = sync.receiver]
<1>1. r \in Threads /\ work[r] \in Works /\ sync.receiver \in Answers \cup {NoAns}
  BY ThreadsExist, TypeFields
<1>2. w1 \in Works /\ w1.at = "clear" /\ w1.l = work[r].l
  BY <1>1, PlacesExist DEF Works
<1>3. Step(r, w)
  BY DEF Step
<1> HIDE DEF w1
<1>4. w \in Works /\ w.at = "clear" /\ w.l = work[r].l /\ w.ans = sync.receiver
  BY <1>1, <1>2 DEF Works
<1> HIDE DEF w
<1> QED BY <1>1, <1>3, <1>4, StepMoves

LEMMA BeginMoves ==
    ASSUME WorkTyped, BeginLinking
    PROVE  \E w \in Works :
              /\ w.at = "lookup" /\ w.l = work["sync"].l
              /\ work' \in [Threads -> Works] /\ work'["sync"] = w
              /\ \A o \in Threads : o # "sync" => work'[o] = work[o]
              /\ overlap' = ((overlap /\ up # 0) \/ OthersBusy("sync"))
<1> DEFINE w == [work["sync"] EXCEPT !.at = "lookup"]
<1>1. w \in Works /\ w.at = "lookup" /\ w.l = work["sync"].l
  BY PlacesExist, ThreadsExist DEF WorkTyped, Works
<1>2. work' = [work EXCEPT !["sync"] = w]
      /\ overlap' = ((overlap /\ up # 0) \/ OthersBusy("sync"))
  BY DEF BeginLinking, OthersBusy
<1> HIDE DEF w
<1> QED BY <1>1, <1>2, ThreadsExist DEF WorkTyped

LEMMA WorkTypedStep ==
    ASSUME Types, [Next]_vars
    PROVE  WorkTyped'
<1> USE ThreadsExist, PlacesExist
<1>0. TypeOK /\ WorkTyped /\ WireTyped  BY DEF Types
<1>1. ASSUME NEW th \in Threads, AnyThread(th) PROVE WorkTyped'
  <2>1. CASE Finish(th)
    BY <1>0, <2>1, FinishMoves, MovedTyped
  <2>2. CASE DropOutLink(th) \/ SendList(th)
    BY <1>0, <2>2, DoneTyped DEF DropOutLink, SendList
  <2>3. CASE IdentifyAndList(th)
    BY <1>0, <2>3, GotoTyped DEF IdentifyAndList, At
  <2> QED BY <1>1, <2>1, <2>2, <2>3 DEF AnyThread
<1>2. ASSUME SyncStep PROVE WorkTyped'
  <2>1. CASE Wake
    BY <1>0, <2>1, GotoTyped, DoneTyped DEF Wake, WakeStalled, WakeLinking, WakeRequested, WakeAuto
  <2>2. CASE ExpirePath \/ UseLink
    BY <1>0, <2>2, GotoTyped DEF ExpirePath, UseLink, At
  <2>3. CASE Retry \/ AskLink
    BY <1>0, <2>3, GotoTyped, DoneTyped DEF Retry, AskLink, SendLinkRequest
  <2>4. CASE StartSync
    BY <1>0, <2>4, GotoTyped, DoneTyped DEF StartSync
  <2>5. CASE BeginLinking
    <3>1. PICK w \in Works :
              /\ w.at = "lookup" /\ w.l = work["sync"].l
              /\ work' \in [Threads -> Works] /\ work'["sync"] = w
              /\ \A o \in Threads : o # "sync" => work'[o] = work[o]
              /\ overlap' = ((overlap /\ up # 0) \/ OthersBusy("sync"))
      BY <1>0, <2>5, BeginMoves
    <3>2. overlap' \in BOOLEAN  BY <1>0, <3>1 DEF WorkTyped, OthersBusy
    <3>3. \A o \in Threads : work'[o].at \in OnLink => work'[o].l # 0
      BY <1>0, <3>1 DEF WorkTyped
    <3> QED BY <3>1, <3>2, <3>3 DEF WorkTyped
  <2>6. CASE Lookup
    <3>1. CASE up # 0
      BY <1>0, <2>6, <3>1, LookupMoves, MovedTyped
    <3>2. CASE up = 0
      BY <1>0, <2>6, <3>2, GotoTyped DEF Lookup
    <3> QED BY <3>1, <3>2
  <2> QED BY <1>2, <2>1, <2>2, <2>3, <2>4, <2>5, <2>6 DEF SyncStep
<1>3. ASSUME NEW r \in Readers, ReaderStep(r) PROVE WorkTyped'
  <2>1. CASE VerifyAnswer(r)
    <3>1. CASE Step(r, [work[r] EXCEPT !.at = "clear", !.ans = sync.receiver])
      <4>1. PICK w \in Works : /\ Moved(r, w) /\ w.at = "clear"
                               /\ w.l = work[r].l /\ w.ans = sync.receiver
        BY <1>0, <3>1, VerifyMoves
      <4>2. work[r].l # 0  BY <1>0, <2>1 DEF VerifyAnswer, At, WorkTyped
      <4> QED BY <1>0, <4>1, <4>2, MovedTyped
    <3> QED BY <1>0, <2>1, <3>1, GotoTyped, DoneTyped DEF VerifyAnswer
  <2>2. CASE OnLinkUp(r) \/ Advertised(r) \/ AssembleAnswer(r) \/ ClearReceiver(r)
    BY <1>0, <2>2, GotoTyped, DoneTyped
       DEF OnLinkUp, Advertised, AssembleAnswer, ClearReceiver, At
  <2>3. CASE HandleResponse(r) \/ SendGet(r) \/ GetRequested(r) \/ Confirm(r)
    BY <1>0, <2>3, GotoTyped, DoneTyped
       DEF HandleResponse, SendGet, GetRequested, Confirm, At
  <2>4. CASE DeliverSynced(r)
    <3> DEFINE s == IF work[r].ans.ids = {} THEN "finish" ELSE "confirm"
    <3>1. s \in Places /\ Goto(r, s) /\ work[r].at \in OnLink
      BY <2>4 DEF DeliverSynced, At
    <3> QED BY <1>0, <3>1, GotoTyped
  <2> QED BY <1>3, <2>1, <2>2, <2>3, <2>4 DEF ReaderStep
<1>4. ASSUME NEW r \in Readers, LinkProof(r) \/ Receive(r) \/ OutLinkClosed(r)
      PROVE  WorkTyped'
  <2>1. CASE LinkProof(r)
    <3>1. pend # 0  BY <2>1 DEF LinkProof
    <3> QED BY <1>0, <2>1, <3>1, LinkProofMoves, MovedTyped
  <2>2. CASE Receive(r) /\ ~Done(r)
    BY <1>0, <2>2, ReceiveMoves, MovedTyped
  <2>3. CASE Done(r) \/ OutLinkClosed(r)
    BY <1>0, <2>3, GotoTyped, DoneTyped DEF OutLinkClosed
  <2> QED BY <1>4, <2>1, <2>2, <2>3
<1>5. ASSUME ConnectionLost \/ EndSync PROVE WorkTyped'
  BY <1>0, <1>5, GotoTyped, DoneTyped DEF ConnectionLost, EndSync
<1>6. ASSUME \/ Connect \/ request_sync \/ Announce \/ OutboxAsks \/ Lose
             \/ NodeServes \/ UNCHANGED vars
      PROVE  WorkTyped'
  <2>1. UNCHANGED <<work, overlap>>
    BY <1>6 DEF Connect, request_sync, Announce, OutboxAsks, Lose, NodeServes, vars
  <2> QED BY <1>0, <2>1 DEF WorkTyped
<1> QED BY <1>1, <1>2, <1>3, <1>4, <1>5, <1>6 DEF Next

\* The sync state keeps its type.
LEMMA SyncTypeStep ==
    ASSUME Types, [Next]_vars
    PROVE  sync' \in SyncStates
<1> USE ThreadsExist
<1>0. /\ TypeOK /\ WorkTyped /\ sync \in SyncStates
      /\ {"Idle", "Linking", "ListRequested", "GetRequested"} \subseteq Phases
      /\ \A th \in Threads : /\ work[th].l \in 0..MaxLinks
                             /\ work[th].ans \in Answers \cup {NoAns}
  BY TypeFields DEF Types, Phases
<1>1. ASSUME NEW th \in Threads, AnyThread(th) PROVE sync' \in SyncStates
  <2>1. CASE Finish(th)
    BY <1>0, <2>1, FinishType
  <2>2. CASE IdentifyAndList(th)
    BY <1>0, <2>2, SyncField DEF IdentifyAndList
  <2> QED BY <1>0, <1>1, <2>1, <2>2 DEF AnyThread, DropOutLink, SendList
<1>2. ASSUME SyncStep PROVE sync' \in SyncStates
  <2>1. Later \in SyncStates
    BY <1>0, LaterType
  <2>2. CASE WakeStalled \/ WakeLinking \/ WakeRequested
    BY <2>1, <2>2, SyncField DEF WakeStalled, WakeLinking, WakeRequested
  <2>3. CASE WakeAuto
    <3>1. PN_PROBE_RETRY_SECS \in 0..PN_PROBE_RETRY_SECS  BY TimesFacts
    <3> QED BY <2>1, <2>3, <3>1, SyncField DEF WakeAuto
  <2>4. CASE BeginLinking
    BY <1>0, <2>4, BeginType
  <2>5. CASE UseLink
    BY <1>0, <2>5, SyncField DEF UseLink
  <2>6. CASE StartSync
    <3> DEFINE t == Tries
               s1 == [sync EXCEPT !.route_tries = t]
               s2 == [s1 EXCEPT !.requested = TRUE]
    <3>0. t \in 0..SYNC_ROUTE_TRIES + 1
      <4>1. ~(sync.route_tries > SYNC_ROUTE_TRIES)
        BY <2>6 DEF StartSync, At, Types, TriesCounted
      <4>2. sync.route_tries \in 0..SYNC_ROUTE_TRIES + 1
        BY <1>0 DEF SyncStates
      <4> QED BY <4>1, <4>2, TimesFacts DEF Tries
    <3>1. CASE UNCHANGED sync
      BY <1>0, <3>1
    <3>2. CASE sync' = [sync EXCEPT !.route_tries = t]
      <4> HIDE DEF t
      <4> QED BY <1>0, <3>0, <3>2, SyncField
    <3>3. CASE sync' = [sync EXCEPT !.route_tries = t, !.requested = TRUE,
                                    !.wait = SYNC_ROUTE_RETRY_SECS]
      <4>1. SYNC_ROUTE_RETRY_SECS \in 0..SYNC_ROUTE_RETRY_SECS
        BY TimesFacts
      <4>2. sync' = [s2 EXCEPT !.wait = SYNC_ROUTE_RETRY_SECS]  BY <3>3
      <4> HIDE DEF t
      <4>3. s1 \in SyncStates  BY <1>0, <3>0, SyncField
      <4>4. s2 \in SyncStates  BY <4>3, SyncField
      <4> QED BY <4>1, <4>2, <4>4, SyncField
    <3> QED BY <2>6, <3>1, <3>2, <3>3 DEF StartSync
  <2> QED BY <1>0, <1>2, <2>2, <2>3, <2>4, <2>5, <2>6
          DEF SyncStep, Wake, ExpirePath, Retry, Lookup, AskLink
<1>3. ASSUME NEW r \in Readers, ReaderStep(r) PROVE sync' \in SyncStates
  <2>1. CASE OnLinkUp(r) \/ Advertised(r) \/ ClearReceiver(r) \/ GetRequested(r)
    BY <1>0, <2>1, SyncField DEF OnLinkUp, Advertised, ClearReceiver, GetRequested
  <2> QED BY <1>0, <1>3, <2>1 DEF ReaderStep, AssembleAnswer, VerifyAnswer,
             HandleResponse, SendGet, DeliverSynced, Confirm
<1>4. ASSUME NEW r \in Readers, LinkProof(r) \/ Receive(r) \/ OutLinkClosed(r)
      PROVE  sync' \in SyncStates
  BY <1>0, <1>4 DEF LinkProof, Receive, OutLinkClosed
<1>5. ASSUME request_sync PROVE sync' \in SyncStates
  BY <1>0, <1>5, SyncField DEF request_sync
<1>6. ASSUME \/ ConnectionLost \/ EndSync \/ Connect \/ Announce \/ OutboxAsks \/ Lose
             \/ NodeServes \/ UNCHANGED vars
      PROVE  sync' \in SyncStates
  BY <1>0, <1>6 DEF ConnectionLost, EndSync, Connect, Announce, OutboxAsks, Lose,
        NodeServes, vars
<1> QED BY <1>1, <1>2, <1>3, <1>4, <1>5, <1>6 DEF Next

\* A request goes out.
LEMMA SendTyped ==
    ASSUME WireTyped, NEW l \in 0..MaxLinks, l # 0, NEW ids \in SUBSET Msgs,
           NEW req \in {"list", "get", "delete", "parts"}, Send(l, req, ids)
    PROVE  toNode' \in Seq(Requests)
<1> DEFINE q == [l |-> l, req |-> req, ids |-> ids]
<1>1. l \in 1..MaxLinks  BY TimesFacts
<1>2. q \in Requests  BY <1>1 DEF Requests
<1>3. toNode' = toNode \/ toNode' = Append(toNode, q)  BY DEF Send
<1> HIDE DEF q
<1> QED BY <1>2, <1>3, AppendProperties DEF WireTyped

LEMMA AnswerTyped ==
    ASSUME WireTyped, up' = up, NEW l, l # 0, NEW ids \in SUBSET Msgs,
           NEW form \in {"packet", "adv", "part", "close"},
           NEW kind \in {"list", "blobs", "error", "none"}, Answer(l, form, kind, ids)
    PROVE  fromNode' \in Seq(Answers) /\ (up' = 0 => fromNode' = <<>>)
<1> DEFINE a == [form |-> form, kind |-> kind, ids |-> ids]
<1>1. a \in Answers  BY DEF Answers
<1>2. \/ up # l /\ fromNode' = fromNode
      \/ up = l /\ fromNode' = Append(fromNode, a)
  BY DEF Answer
<1> HIDE DEF a
<1> QED BY <1>1, <1>2, AppendProperties DEF WireTyped

\* The oldest request.
LEMMA HeadRequest ==
    ASSUME WireTyped, toNode # <<>>
    PROVE  /\ Head(toNode) \in Requests /\ Head(toNode) = toNode[1]
           /\ Head(toNode).l # 0 /\ Head(toNode).ids \in SUBSET Msgs
           /\ Tail(toNode) \in Seq(Requests) /\ Len(toNode) \in Nat \ {0}
<1>1. /\ Head(toNode) \in Requests /\ Head(toNode) = toNode[1]
      /\ Tail(toNode) \in Seq(Requests) /\ Len(toNode) \in Nat \ {0}
  BY HeadTailProperties, EmptySeq DEF WireTyped
<1>2. Head(toNode).l \in 1..MaxLinks /\ Head(toNode).ids \in SUBSET Msgs
  BY <1>1 DEF Requests
<1> QED BY <1>1, <1>2, TimesFacts

LEMMA ReaderAns ==
    ASSUME TypeOK, WorkTyped, NEW th \in Threads
    PROVE  /\ work[th].ans.ids \in SUBSET Msgs
           /\ work[th].at \in OnLink => work[th].l \in 0..MaxLinks /\ work[th].l # 0
<1>1. work[th].ans \in Answers \cup {NoAns} /\ work[th].l \in 0..MaxLinks
  BY TypeFields
<1>2. work[th].ans.ids \in SUBSET Msgs
  BY <1>1 DEF Answers, NoAns
<1> QED BY <1>1, <1>2 DEF WorkTyped

LEMMA WireTypedStep ==
    ASSUME Types, [Next]_vars
    PROVE  WireTyped'
<1> USE ThreadsExist
<1>0. TypeOK /\ WorkTyped /\ WireTyped /\ OneLinkToNode  BY DEF Types
<1>1. ASSUME UNCHANGED <<toNode, fromNode, up>> PROVE WireTyped'
  BY <1>0, <1>1 DEF WireTyped
<1>2. ASSUME UNCHANGED toNode, fromNode' = <<>> PROVE WireTyped'
  BY <1>0, <1>2 DEF WireTyped
<1>3. ASSUME UNCHANGED <<fromNode, up>>, toNode' \in Seq(Requests) PROVE WireTyped'
  BY <1>0, <1>3 DEF WireTyped
<1>4. ASSUME NEW th \in Threads, AnyThread(th) PROVE WireTyped'
  <2>1. CASE SendList(th)
    <3>1. /\ work[th].l \in 0..MaxLinks /\ work[th].l # 0
          /\ Send(work[th].l, "list", {}) /\ UNCHANGED <<fromNode, up>>
      BY <1>0, <2>1, ReaderAns, PlacesExist DEF SendList, At, link
    <3>2. toNode' \in Seq(Requests)  BY <1>0, <3>1, SendTyped
    <3> QED BY <1>3, <3>1, <3>2
  <2>2. CASE DropOutLink(th)
    BY <1>1, <1>2, <2>2 DEF DropOutLink
  <2> QED BY <1>1, <1>4, <2>1, <2>2 DEF AnyThread, Finish, IdentifyAndList, link, node
<1>5. ASSUME SyncStep PROVE WireTyped'
  BY <1>1, <1>5 DEF SyncStep, Wake, WakeStalled, WakeLinking, WakeRequested, WakeAuto,
        ExpirePath, Retry, StartSync, BeginLinking, Lookup, UseLink, AskLink, link, node
<1>6. ASSUME NEW r \in Readers, ReaderStep(r) PROVE WireTyped'
  <2>1. CASE Advertised(r)
    <3>1. /\ work[r].l \in 0..MaxLinks /\ work[r].l # 0 /\ UNCHANGED <<fromNode, up>>
          /\ Send(work[r].l, "parts", {}) \/ UNCHANGED toNode
      BY <1>0, <2>1, ReaderAns, PlacesExist DEF Advertised, At, link
    <3>2. toNode' \in Seq(Requests)  BY <1>0, <3>1, SendTyped DEF WireTyped
    <3> QED BY <1>3, <3>1, <3>2
  <2>2. CASE SendGet(r)
    <3> DEFINE ids == IF work[r].ans.kind = "list" THEN work[r].ans.ids ELSE {}
    <3>1. /\ work[r].l \in 0..MaxLinks /\ work[r].l # 0 /\ UNCHANGED <<fromNode, up>>
          /\ ids \in SUBSET Msgs
          /\ Send(work[r].l, "get", ids) \/ UNCHANGED toNode
      BY <1>0, <2>2, ReaderAns, PlacesExist DEF SendGet, At, link
    <3> HIDE DEF ids
    <3>2. toNode' \in Seq(Requests)  BY <1>0, <3>1, SendTyped DEF WireTyped
    <3> QED BY <1>3, <3>1, <3>2
  <2>3. CASE Confirm(r)
    <3> DEFINE ids == IF work[r].ans.kind = "blobs" THEN work[r].ans.ids ELSE {}
    <3>1. /\ work[r].l \in 0..MaxLinks /\ work[r].l # 0 /\ UNCHANGED <<fromNode, up>>
          /\ ids \in SUBSET Msgs
          /\ Send(work[r].l, "delete", ids)
      BY <1>0, <2>3, ReaderAns, PlacesExist DEF Confirm, At, link
    <3> HIDE DEF ids
    <3>2. toNode' \in Seq(Requests)  BY <1>0, <3>1, SendTyped
    <3> QED BY <1>3, <3>1, <3>2
  <2> QED BY <1>1, <1>6, <2>1, <2>2, <2>3 DEF ReaderStep, OnLinkUp, AssembleAnswer,
             VerifyAnswer, ClearReceiver, HandleResponse, GetRequested, DeliverSynced,
             link, node
<1>7. ASSUME NEW r \in Readers, LinkProof(r) \/ Receive(r) \/ OutLinkClosed(r)
      PROVE  WireTyped'
  <2>1. CASE Receive(r)
    <3>1. /\ fromNode' \in Seq(Answers) /\ up' # 0 /\ UNCHANGED toNode
      BY <1>0, <2>1, HeadAnswer DEF Receive, link
    <3> QED BY <1>0, <3>1 DEF WireTyped
  <2> QED BY <1>2, <1>7, <2>1 DEF LinkProof, OutLinkClosed
<1>8. ASSUME \/ ConnectionLost \/ EndSync \/ Connect \/ request_sync \/ Announce
             \/ OutboxAsks \/ UNCHANGED vars
      PROVE  WireTyped'
  BY <1>1, <1>2, <1>8 DEF ConnectionLost, EndSync, Connect, request_sync, Announce,
        OutboxAsks, link, node, vars
<1>9. ASSUME Lose PROVE WireTyped'
  <2>1. CASE toNode # <<>> /\ toNode' = Tail(toNode) /\ UNCHANGED <<up, fromNode>>
    BY <1>0, <1>3, <2>1, HeadRequest
  <2>2. CASE fromNode # <<>> /\ fromNode' = Tail(fromNode) /\ UNCHANGED <<up, toNode>>
    <3>1. fromNode' \in Seq(Answers) /\ up # 0  BY <1>0, <2>2, HeadAnswer
    <3> QED BY <1>0, <2>2, <3>1 DEF WireTyped
  <2> QED BY <1>1, <1>2, <1>9, <2>1, <2>2 DEF Lose, LoseLink
<1>10. ASSUME NodeServes PROVE WireTyped'
  <2> DEFINE q == Head(toNode)
  <2>1. /\ toNode' \in Seq(Requests) /\ q.l # 0 /\ q.ids \in SUBSET Msgs
        /\ up' = up
    BY <1>0, <1>10, HeadRequest DEF NodeServes, link
  <2>2. store \in SUBSET Msgs  BY <1>0 DEF TypeOK
  <2>3. \E form \in {"packet", "adv", "part", "close"},
           kind \in {"list", "blobs", "error", "none"}, ids \in SUBSET Msgs :
              Answer(q.l, form, kind, ids)
    <3> HIDE DEF q
    <3> QED BY <1>10, <2>1, <2>2 DEF NodeServes, q
  <2>4. PICK form \in {"packet", "adv", "part", "close"},
             kind \in {"list", "blobs", "error", "none"}, ids \in SUBSET Msgs :
              Answer(q.l, form, kind, ids)
    BY <2>3
  <2>5. fromNode' \in Seq(Answers) /\ (up' = 0 => fromNode' = <<>>)
    BY <1>0, <2>1, <2>4, AnswerTyped
  <2> QED BY <2>1, <2>5 DEF WireTyped
<1> QED BY <1>4, <1>5, <1>6, <1>7, <1>8, <1>9, <1>10 DEF Next

\* The fields of the sync state that its course depends on.
SameCourse ==
    /\ sync'.phase = sync.phase /\ sync'.link = sync.link
    /\ sync'.receiver = sync.receiver

\* Only a new sync, or its link, changes its course in the sync thread.
LEMMA SyncThreadCourse ==
    ASSUME Types, SyncStep, ~BeginLinking, ~UseLink
    PROVE  SameCourse
<1>0. sync \in SyncStates  BY TypeFields DEF Types
<1>1. /\ Later \in SyncStates
      /\ Later.phase = sync.phase /\ Later.link = sync.link
      /\ Later.receiver = sync.receiver
  BY <1>0, LaterType
<1>2. CASE WakeStalled \/ WakeLinking \/ WakeRequested
  <2>1. sync' = Later \/ sync' = [Later EXCEPT !.requested = FALSE]
    BY <1>2 DEF WakeStalled, WakeLinking, WakeRequested
  <2> QED BY <1>1, <2>1 DEF SameCourse, SyncStates
<1>3. CASE WakeAuto
  <2>1. \/ sync' = Later
        \/ sync' = [Later EXCEPT !.auto_done = TRUE]
        \/ sync' = [Later EXCEPT !.probe = PN_PROBE_RETRY_SECS]
    BY <1>3 DEF WakeAuto
  <2> QED BY <1>1, <2>1 DEF SameCourse, SyncStates
<1>4. CASE StartSync
  <2> DEFINE t == Tries
             s1 == [sync EXCEPT !.route_tries = t]
  <2>1. \/ sync' = sync
        \/ sync' = s1
        \/ sync' = [s1 EXCEPT !.requested = TRUE, !.wait = SYNC_ROUTE_RETRY_SECS]
    BY <1>4 DEF StartSync
  <2> HIDE DEF t
  <2>2. /\ s1 = [s1 EXCEPT !.route_tries = t]
        /\ s1.phase = sync.phase /\ s1.link = sync.link /\ s1.receiver = sync.receiver
    BY <1>0 DEF SyncStates
  <2>3. DOMAIN s1 = DOMAIN sync  OBVIOUS
  <2> HIDE DEF s1
  <2> QED BY <1>0, <2>1, <2>2, <2>3 DEF SameCourse, SyncStates
<1>5. CASE UNCHANGED sync
  BY <1>5 DEF SameCourse
<1> QED BY <1>2, <1>3, <1>4, <1>5 DEF SyncStep, Wake, ExpirePath, Retry, Lookup, AskLink

LEMMA RequestCourse ==
    ASSUME Types, request_sync
    PROVE  SameCourse
<1>1. sync \in SyncStates  BY TypeFields DEF Types
<1> QED BY <1>1 DEF request_sync, SameCourse, SyncStates

\* The other steps that change it.
LEMMA CourseChanges ==
    ASSUME Types
    PROVE  /\ UseLink => /\ sync'.phase = sync.phase /\ sync'.receiver = sync.receiver
                         /\ sync'.link = work["sync"].l
           /\ \A th \in Threads : IdentifyAndList(th) =>
                 /\ sync'.phase = "ListRequested" /\ sync'.link = sync.link
                 /\ sync'.receiver = sync.receiver
           /\ \A r \in Readers : OnLinkUp(r) =>
                 /\ sync'.phase = sync.phase /\ sync'.receiver = sync.receiver
                 /\ sync'.link = IF sync.phase = "Linking" THEN work[r].l ELSE sync.link
           /\ \A r \in Readers : Advertised(r) =>
                 /\ sync'.phase = sync.phase /\ sync'.link = sync.link
                 /\ sync'.receiver = work[r].ans \/ sync' = sync
           /\ \A r \in Readers : ClearReceiver(r) =>
                 /\ sync'.phase = sync.phase /\ sync'.link = sync.link
                 /\ sync'.receiver = NoAns
           /\ \A r \in Readers : GetRequested(r) =>
                 /\ sync'.phase = "GetRequested" /\ sync'.link = sync.link
                 /\ sync'.receiver = sync.receiver
<1>1. sync \in SyncStates  BY TypeFields DEF Types
<1>2. ASSUME UseLink
      PROVE  /\ sync'.phase = sync.phase /\ sync'.receiver = sync.receiver
             /\ sync'.link = work["sync"].l
  BY <1>1, <1>2 DEF UseLink, SyncStates
<1>3. ASSUME NEW th \in Threads, IdentifyAndList(th)
      PROVE  /\ sync'.phase = "ListRequested" /\ sync'.link = sync.link
             /\ sync'.receiver = sync.receiver
  BY <1>1, <1>3 DEF IdentifyAndList, SyncStates
<1>4. ASSUME NEW r \in Readers, OnLinkUp(r)
      PROVE  /\ sync'.phase = sync.phase /\ sync'.receiver = sync.receiver
             /\ sync'.link = IF sync.phase = "Linking" THEN work[r].l ELSE sync.link
  BY <1>1, <1>4 DEF OnLinkUp, SyncStates
<1>5. ASSUME NEW r \in Readers, Advertised(r)
      PROVE  /\ sync'.phase = sync.phase /\ sync'.link = sync.link
             /\ sync'.receiver = work[r].ans \/ sync' = sync
  BY <1>1, <1>5 DEF Advertised, SyncStates
<1>6. ASSUME NEW r \in Readers, ClearReceiver(r)
      PROVE  /\ sync'.phase = sync.phase /\ sync'.link = sync.link
             /\ sync'.receiver = NoAns
  BY <1>1, <1>6 DEF ClearReceiver, SyncStates
<1>7. ASSUME NEW r \in Readers, GetRequested(r)
      PROVE  /\ sync'.phase = "GetRequested" /\ sync'.link = sync.link
             /\ sync'.receiver = sync.receiver
  BY <1>1, <1>7 DEF GetRequested, SyncStates
<1> QED BY <1>2, <1>3, <1>4, <1>5, <1>6, <1>7

\* A link that is asked for stays unnamed while only names in use are passed on.
LEMMA NewKept ==
    ASSUME Types, pend' = pend, pend # 0,
           \/ sync'.link = sync.link \/ sync'.link = 0
           \/ \E th \in Threads : sync'.link = work[th].l,
           \A o \in Threads : work'[o].l \in {work[o].l, 0, sync.link},
           toNode' = toNode \/ (toNode # <<>> /\ toNode' = Tail(toNode))
    PROVE  PendIsNew'
<1>1. toNode \in Seq(Requests)  BY DEF Types, WireTyped
<1>2. ASSUME NEW i \in 1..Len(toNode') PROVE toNode'[i].l # pend
  <2>1. CASE toNode' = toNode
    BY <2>1 DEF Types, PendIsNew
  <2>2. CASE toNode # <<>> /\ toNode' = Tail(toNode)
    <3>1. /\ Len(toNode') = Len(toNode) - 1 /\ Len(toNode) \in Nat
          /\ toNode'[i] = toNode[i + 1]
      BY <1>1, <2>2, HeadTailProperties
    <3>2. i + 1 \in 1..Len(toNode)  BY <3>1
    <3> QED BY <3>1, <3>2 DEF Types, PendIsNew
  <2> QED BY <2>1, <2>2
<1> QED BY <1>2 DEF Types, PendIsNew

LEMMA SendOnDead ==
    ASSUME up = 0, NEW l, l # 0, NEW req, NEW ids, Send(l, req, ids)
    PROVE  toNode' = toNode
BY DEF Send

\* A new link is one that nothing names.
LEMMA NewLinkIsNew ==
    ASSUME Types, NewLink, sync'.link = sync.link, UNCHANGED toNode,
           \A o \in Threads : work'[o].l \in {work[o].l, 0}
    PROVE  PendIsNew' /\ pend' \in 0..MaxLinks
<1>1. pend' \in Unused  BY DEF NewLink
<1>2. /\ pend' \in 1..MaxLinks /\ pend' # sync.link
      /\ \A th \in Threads : work[th].l # pend'
      /\ \A i \in DOMAIN toNode : toNode[i].l # pend'
  BY <1>1 DEF Unused
<1>3. DOMAIN toNode = 1..Len(toNode)  BY DEF Types, WireTyped
<1> QED BY <1>2, <1>3, TimesFacts DEF PendIsNew

LEMMA GotoNames ==
    ASSUME WorkTyped, NEW th \in Threads, NEW s \in Places, Goto(th, s)
    PROVE  \A o \in Threads : work'[o].l = work[o].l
BY GotoMoves DEF Moved

LEMMA DoneNames ==
    ASSUME WorkTyped, NEW th \in Threads, Done(th)
    PROVE  \A o \in Threads : work'[o].l \in {work[o].l, 0}
BY DoneMoves, RestType DEF Moved

LEMMA PendStep ==
    ASSUME Types, [Next]_vars
    PROVE  PendIsNew' /\ pend' \in 0..MaxLinks
<1> USE ThreadsExist, PlacesExist
<1>0. /\ TypeOK /\ WorkTyped /\ WireTyped /\ pend \in 0..MaxLinks
      /\ pend # 0 => up = 0
      /\ \A th \in Threads : work[th].at \in OnLink => work[th].l # 0
  BY TypeFields DEF Types, OneLinkToNode, WorkTyped
<1> DEFINE Goal == PendIsNew' /\ pend' \in 0..MaxLinks
           Names == \A o \in Threads : work'[o].l \in {work[o].l, 0, sync.link}
           Wire == toNode' = toNode \/ (toNode # <<>> /\ toNode' = Tail(toNode))
           Link == \/ sync'.link = sync.link \/ sync'.link = 0
                   \/ \E th \in Threads : sync'.link = work[th].l
<1>1. ASSUME pend' = 0 PROVE Goal
  BY <1>1, TimesFacts DEF PendIsNew
<1>2. ASSUME pend' = pend, pend # 0 => Names /\ Wire /\ Link PROVE Goal
  BY <1>0, <1>1, <1>2, NewKept
<1>3. ASSUME NEW th \in Threads, Done(th) PROVE Names
  BY <1>0, <1>3, DoneNames
<1>4. ASSUME NEW th \in Threads, NEW s \in Places, Goto(th, s) PROVE Names
  BY <1>0, <1>4, GotoNames
<1>5. ASSUME SameCourse \/ sync' = sync PROVE Link
  BY <1>5 DEF SameCourse
<1>6. ASSUME toNode' = toNode PROVE Wire
  BY <1>6
<1>7. ASSUME UNCHANGED work PROVE Names
  BY <1>7
<1> HIDE DEF Goal, Names, Wire, Link
<1>8. ASSUME NEW th \in Threads, AnyThread(th) PROVE Goal
  <2>1. CASE Finish(th)
    <3>1. Names
      BY <1>0, <2>1, FinishMoves DEF Moved, Names
    <3>2. Link  BY <1>0, <2>1, FinishType, TypeFields DEF Link
    <3> QED BY <1>2, <1>6, <2>1, <3>1, <3>2 DEF Finish, link, node
  <2>2. CASE DropOutLink(th)
    BY <1>2, <1>3, <1>5, <1>6, <2>2 DEF DropOutLink
  <2>3. CASE IdentifyAndList(th)
    <3>1. Link  BY <2>3, CourseChanges DEF Link
    <3>2. Goto(th, "send") /\ UNCHANGED <<pend, toNode>>
      BY <2>3 DEF IdentifyAndList, link, node
    <3> QED BY <1>2, <1>4, <1>6, <3>1, <3>2
  <2>4. CASE SendList(th)
    <3>1. pend # 0 => toNode' = toNode
      BY <1>0, <2>4, SendOnDead DEF SendList, At
    <3> QED BY <1>2, <1>3, <1>5, <1>6, <2>4, <3>1 DEF SendList, link
  <2> QED BY <1>8, <2>1, <2>2, <2>3, <2>4 DEF AnyThread
<1>9. ASSUME Retry \/ AskLink PROVE Goal
  <2>1. sync' = sync /\ toNode' = toNode
    BY <1>9 DEF Retry, AskLink, node
  <2>2. CASE NewLink /\ Done("sync")
    BY <1>0, <2>1, <2>2, DoneNames, NewLinkIsNew DEF Goal
  <2>3. CASE pend' = pend
    <3>1. Names
      BY <1>3, <1>4, <1>9 DEF Retry, AskLink, SendLinkRequest
    <3> QED BY <1>2, <1>5, <1>6, <2>1, <2>3, <3>1
  <2> QED BY <1>9, <2>2, <2>3 DEF Retry, AskLink, SendLinkRequest
<1>10. ASSUME SyncStep, ~Retry, ~AskLink PROVE Goal
  <2>1. pend' = pend /\ toNode' = toNode
    BY <1>10 DEF SyncStep, Wake, WakeStalled, WakeLinking, WakeRequested, WakeAuto,
        ExpirePath, StartSync, BeginLinking, Lookup, UseLink, link, node
  <2>2. Link
    <3>1. CASE BeginLinking
      BY <1>0, <3>1, BeginType, TypeFields DEF Link
    <3>2. CASE UseLink
      BY <3>2, CourseChanges DEF Link
    <3> QED BY <1>5, <1>10, <3>1, <3>2, SyncThreadCourse
  <2>3. ASSUME pend # 0 PROVE Names
    <3>1. CASE BeginLinking
      BY <1>0, <3>1, BeginMoves DEF Names
    <3>2. CASE Lookup
      BY <1>0, <1>4, <2>3, <3>2 DEF Lookup
    <3>3. CASE Wake
      <4>1. CASE WakeStalled
        <5> DEFINE s == IF sync.phase = "Linking" THEN "expire" ELSE "finish"
        <5>1. s \in Places /\ Goto("sync", s)  BY <4>1 DEF WakeStalled
        <5> QED BY <1>4, <5>1
      <4> QED BY <1>3, <1>4, <3>3, <4>1 DEF Wake, WakeLinking, WakeRequested, WakeAuto
    <3>4. CASE ExpirePath \/ StartSync \/ UseLink
      BY <1>3, <1>4, <3>4 DEF ExpirePath, StartSync, UseLink
    <3> QED BY <1>10, <3>1, <3>2, <3>3, <3>4 DEF SyncStep
  <2> QED BY <1>2, <1>6, <2>1, <2>2, <2>3
<1>11. ASSUME NEW r \in Readers, ReaderStep(r) PROVE Goal
  <2>1. pend' = pend
    BY <1>11 DEF ReaderStep, OnLinkUp, Advertised, AssembleAnswer, VerifyAnswer,
        ClearReceiver, HandleResponse, SendGet, GetRequested, DeliverSynced, Confirm, link
  <2>2. Link
    <3>1. CASE OnLinkUp(r) \/ Advertised(r) \/ ClearReceiver(r) \/ GetRequested(r)
      BY <3>1, CourseChanges DEF Link
    <3> QED BY <1>5, <1>11, <3>1 DEF ReaderStep, AssembleAnswer, VerifyAnswer,
               HandleResponse, SendGet, DeliverSynced, Confirm
  <2>3. Names
    <3>1. CASE VerifyAnswer(r)
      <4>1. CASE Step(r, [work[r] EXCEPT !.at = "clear", !.ans = sync.receiver])
        BY <1>0, <4>1, VerifyMoves DEF Moved, Names
      <4> QED BY <1>3, <1>4, <3>1, <4>1 DEF VerifyAnswer
    <3>2. CASE DeliverSynced(r)
      <4> DEFINE s == IF work[r].ans.ids = {} THEN "finish" ELSE "confirm"
      <4>1. s \in Places /\ Goto(r, s)  BY <3>2 DEF DeliverSynced
      <4> QED BY <1>4, <4>1
    <3>3. CASE OnLinkUp(r) \/ Advertised(r) \/ AssembleAnswer(r) \/ ClearReceiver(r)
      BY <1>3, <1>4, <3>3 DEF OnLinkUp, Advertised, AssembleAnswer, ClearReceiver
    <3>4. CASE HandleResponse(r) \/ SendGet(r) \/ GetRequested(r) \/ Confirm(r)
      BY <1>3, <1>4, <3>4 DEF HandleResponse, SendGet, GetRequested, Confirm
    <3> QED BY <1>11, <3>1, <3>2, <3>3, <3>4 DEF ReaderStep
  <2>4. ASSUME pend # 0 PROVE toNode' = toNode
    <3>1. CASE Advertised(r) \/ SendGet(r) \/ Confirm(r)
      <4>1. work[r].l # 0 /\ up = 0
        BY <1>0, <2>4, <3>1 DEF Advertised, SendGet, Confirm, At
      <4>2. toNode' = toNode \/ \E req, ids : Send(work[r].l, req, ids)
        BY <3>1 DEF Advertised, SendGet, Confirm
      <4> QED BY <4>1, <4>2, SendOnDead
    <3> QED BY <1>11, <3>1 DEF ReaderStep, OnLinkUp, AssembleAnswer, VerifyAnswer,
               ClearReceiver, HandleResponse, GetRequested, DeliverSynced, node
  <2> QED BY <1>2, <1>6, <2>1, <2>2, <2>3, <2>4
<1>12. ASSUME NEW r \in Readers, LinkProof(r) \/ Receive(r) \/ OutLinkClosed(r) PROVE Goal
  <2>1. CASE LinkProof(r)
    BY <1>1, <2>1 DEF LinkProof
  <2>2. CASE Receive(r) \/ OutLinkClosed(r)
    <3>1. up # 0 /\ pend' = pend
      BY <1>0, <2>2, HeadAnswer DEF Receive, OutLinkClosed, link
    <3> QED BY <1>0, <1>2, <3>1
  <2> QED BY <1>12, <2>1, <2>2
<1>13. ASSUME ConnectionLost PROVE Goal
  BY <1>1, <1>13 DEF ConnectionLost
<1>14. ASSUME EndSync PROVE Goal
  BY <1>2, <1>3, <1>4, <1>5, <1>6, <1>14 DEF EndSync, link, node
<1>15. ASSUME OutboxAsks PROVE Goal
  BY <1>0, <1>15, NewLinkIsNew DEF OutboxAsks, node, Goal
<1>16. ASSUME Connect \/ request_sync \/ Announce \/ UNCHANGED vars PROVE Goal
  <2>1. UNCHANGED <<pend, work, toNode>>
    BY <1>16 DEF Connect, request_sync, Announce, vars, link, node
  <2>2. SameCourse \/ sync' = sync
    BY <1>16, RequestCourse DEF Connect, Announce, vars
  <2> QED BY <1>2, <1>5, <1>6, <1>7, <2>1, <2>2
<1>17. ASSUME Lose \/ NodeServes PROVE Goal
  <2>1. UNCHANGED <<work, sync>> /\ (pend' = pend \/ pend' = 0)
    BY <1>17 DEF Lose, LoseLink, NodeServes, link
  <2>2. Wire
    BY <1>17 DEF Lose, LoseLink, NodeServes, Wire
  <2> QED BY <1>1, <1>2, <1>5, <1>7, <2>1, <2>2
<1> QED BY <1>8, <1>9, <1>10, <1>11, <1>12, <1>13, <1>14, <1>15, <1>16, <1>17
        DEF Next, Goal

\* Nobody moves another thread.
LEMMA OtherStays ==
    ASSUME WorkTyped, NEW th \in Threads, NEW w, Step(th, w), NEW o \in Threads, o # th
    PROVE  work'[o] = work[o]
BY DEF WorkTyped, Step

LEMMA ReadersOnly ==
    ASSUME Types,
           \/ \E r \in Readers : \/ ReaderStep(r) \/ AnyThread(r)
                                 \/ LinkProof(r) \/ Receive(r) \/ OutLinkClosed(r)
           \/ ConnectionLost \/ EndSync \/ Connect \/ request_sync
           \/ Announce \/ OutboxAsks \/ Lose \/ NodeServes \/ UNCHANGED vars
    PROVE  work'["sync"] = work["sync"]
<1> USE ThreadsExist, SyncThreads
<1>0. WorkTyped  BY DEF Types
<1>1. ASSUME NEW r \in Readers, NEW w, Step(r, w) PROVE work'["sync"] = work["sync"]
  BY <1>0, <1>1, OtherStays
<1>2. ASSUME NEW r \in Readers, ReaderStep(r) PROVE work'["sync"] = work["sync"]
  <2>1. \E w : Step(r, w)
    BY <1>2 DEF ReaderStep, OnLinkUp, Advertised, AssembleAnswer, VerifyAnswer,
        ClearReceiver, HandleResponse, SendGet, GetRequested, DeliverSynced, Confirm, Goto, Done
  <2> QED BY <1>1, <2>1
<1>3. ASSUME NEW r \in Readers, AnyThread(r) PROVE work'["sync"] = work["sync"]
  <2>1. \E w : Step(r, w)
    BY <1>3 DEF AnyThread, Finish, DropOutLink, IdentifyAndList, SendList, Goto, Done
  <2> QED BY <1>1, <2>1
<1>4. ASSUME NEW r \in Readers, LinkProof(r) \/ Receive(r) \/ OutLinkClosed(r)
      PROVE  work'["sync"] = work["sync"]
  <2>1. \E w : Step(r, w)
    BY <1>4 DEF LinkProof, Receive, OutLinkClosed, Goto, Done
  <2> QED BY <1>1, <2>1
<1>5. ASSUME ConnectionLost \/ EndSync PROVE work'["sync"] = work["sync"]
  <2>1. \E w : Step(Hub, w)
    BY <1>5 DEF ConnectionLost, EndSync, Goto, Done
  <2> QED BY <1>1, <2>1
<1>6. ASSUME \/ Connect \/ request_sync \/ Announce \/ OutboxAsks \/ Lose
             \/ NodeServes \/ UNCHANGED vars
      PROVE  UNCHANGED work
  BY <1>6 DEF Connect, request_sync, Announce, OutboxAsks, Lose, NodeServes, vars
<1> QED BY <1>2, <1>3, <1>4, <1>5, <1>6

\* start_sync counts its tries; the end of a sync and a new link reset them.
LEMMA TriesStep ==
    ASSUME Types, [Next]_vars
    PROVE  TriesCounted'
<1> USE ThreadsExist
<1>0. /\ TypeOK /\ WorkTyped /\ TriesCounted /\ sync \in SyncStates
      /\ Later \in SyncStates /\ Later.route_tries = sync.route_tries
  <2>1. TypeOK /\ WorkTyped /\ TriesCounted /\ sync \in SyncStates
    BY TypeFields DEF Types
  <2>2. Later.route_tries = sync.route_tries
    BY <2>1 DEF Later, SyncStates
  <2> QED BY <2>1, <2>2, LaterType
<1>1. ASSUME sync'.route_tries = 0 PROVE TriesCounted'
  BY <1>1, TimesFacts DEF TriesCounted
<1>2. ASSUME sync'.route_tries = sync.route_tries, work["sync"].at # "finish" PROVE TriesCounted'
  BY <1>0, <1>2 DEF TriesCounted
<1>3. ASSUME sync'.route_tries = sync.route_tries, work'["sync"] = work["sync"]
      PROVE  TriesCounted'
  BY <1>0, <1>3 DEF TriesCounted
<1>4. ASSUME NEW th \in Threads, Finish(th) PROVE TriesCounted'
  <2>1. sync'.route_tries = 0
    BY <1>0, <1>4 DEF Finish, SyncStates
  <2> QED BY <1>1, <2>1
<1>5. ASSUME NEW th \in Threads, AnyThread(th), ~Finish(th) PROVE TriesCounted'
  <2>1. sync'.route_tries = sync.route_tries /\ work[th].at # "finish"
    BY <1>0, <1>5 DEF AnyThread, DropOutLink, IdentifyAndList, SendList, At, SyncStates
  <2>2. CASE th = "sync"
    BY <1>2, <2>1, <2>2
  <2>3. CASE th # "sync"
    <3>1. th \in Readers  BY <2>3 DEF Threads
    <3> QED BY <1>3, <1>5, <2>1, <3>1, ReadersOnly
  <2> QED BY <2>2, <2>3
<1>6. ASSUME BeginLinking PROVE TriesCounted'
  <2>1. sync'.route_tries = 0
    BY <1>0, <1>6 DEF BeginLinking, SyncStates
  <2> QED BY <1>1, <2>1
<1>7. ASSUME StartSync PROVE TriesCounted'
  <2> DEFINE t == Tries
             s1 == [sync EXCEPT !.route_tries = t]
  <2>0. sync.route_tries \in 0..SYNC_ROUTE_TRIES + 1 /\ t \in Int
    BY <1>0 DEF SyncStates, Tries
  <2>1. CASE sync' = sync
    BY <1>2, <1>7, <2>1 DEF StartSync, At
  <2>2. CASE sync' = s1 /\ Goto("sync", "finish")
    <3>1. work'["sync"].at = "finish"
      BY <1>0, <2>2, GotoMoves, PlacesExist DEF Moved
    <3> QED BY <3>1 DEF TriesCounted
  <2>3. CASE /\ sync' = [sync EXCEPT !.route_tries = Tries, !.requested = TRUE,
                                     !.wait = SYNC_ROUTE_RETRY_SECS]
             /\ ~(Tries > SYNC_ROUTE_TRIES)
    <3>1. sync'.route_tries = Tries
      BY <1>0, <2>3 DEF SyncStates
    <3> QED BY <2>3, <3>1 DEF TriesCounted
  <2> QED BY <1>7, <2>1, <2>2, <2>3 DEF StartSync
<1>8. ASSUME SyncStep, ~BeginLinking, ~StartSync PROVE TriesCounted'
  <2>1. work["sync"].at # "finish"
    BY <1>8 DEF SyncStep, Wake, WakeStalled, WakeLinking, WakeRequested, WakeAuto,
        ExpirePath, Retry, Lookup, UseLink, AskLink, At
  <2>2. \/ sync' = sync \/ sync' = Later
        \/ sync' = [Later EXCEPT !.requested = FALSE]
        \/ sync' = [Later EXCEPT !.auto_done = TRUE]
        \/ sync' = [Later EXCEPT !.probe = PN_PROBE_RETRY_SECS]
        \/ sync' = [sync EXCEPT !.link = work["sync"].l]
    BY <1>8 DEF SyncStep, Wake, WakeStalled, WakeLinking, WakeRequested, WakeAuto,
        ExpirePath, Retry, Lookup, UseLink, AskLink
  <2>3. sync'.route_tries = sync.route_tries
    BY <1>0, <2>2 DEF SyncStates
  <2> QED BY <1>2, <2>1, <2>3
<1>9. ASSUME NEW r \in Readers, ReaderStep(r) PROVE TriesCounted'
  <2>1. sync'.route_tries = sync.route_tries
    BY <1>0, <1>9 DEF ReaderStep, OnLinkUp, Advertised, AssembleAnswer, VerifyAnswer,
        ClearReceiver, HandleResponse, SendGet, GetRequested, DeliverSynced, Confirm, SyncStates
  <2> QED BY <1>3, <1>9, <2>1, ReadersOnly
<1>10. ASSUME \/ \E r \in Readers : LinkProof(r) \/ Receive(r) \/ OutLinkClosed(r)
              \/ ConnectionLost \/ EndSync \/ Connect \/ request_sync
              \/ Announce \/ OutboxAsks \/ Lose \/ NodeServes \/ UNCHANGED vars
       PROVE  TriesCounted'
  <2>1. sync'.route_tries = sync.route_tries
    BY <1>0, <1>10 DEF LinkProof, Receive, OutLinkClosed, ConnectionLost, EndSync, Connect,
        request_sync, Announce, OutboxAsks, Lose, NodeServes, vars, SyncStates
  <2> QED BY <1>3, <1>10, <2>1, ReadersOnly
<1> QED BY <1>4, <1>5, <1>6, <1>7, <1>8, <1>9, <1>10 DEF Next

\* The rest of the type invariant.
LEMMA TypeStep ==
    ASSUME Types, [Next]_vars
    PROVE  TypeOK'
<1> USE ThreadsExist
<1>0. /\ TypeOK /\ WorkTyped /\ WireTyped /\ pend \in 0..MaxLinks /\ up \in 0..MaxLinks
      /\ store \subseteq Msgs /\ got \subseteq Msgs /\ 0 \in 0..MaxLinks
  BY TypeFields, TimesFacts DEF Types, TypeOK
<1>1. up' \in 0..MaxLinks
  <2>1. up' \in {up, pend, 0}
    <3>1. ASSUME NEW th \in Threads, AnyThread(th) PROVE up' \in {up, pend, 0}
      BY <3>1 DEF AnyThread, Finish, DropOutLink, IdentifyAndList, SendList, link
    <3>2. ASSUME SyncStep PROVE up' \in {up, pend, 0}
      BY <3>2 DEF SyncStep, Wake, WakeStalled, WakeLinking, WakeRequested, WakeAuto,
          ExpirePath, Retry, StartSync, BeginLinking, Lookup, UseLink, AskLink, link
    <3>3. ASSUME NEW r \in Readers, ReaderStep(r) PROVE up' \in {up, pend, 0}
      BY <3>3 DEF ReaderStep, OnLinkUp, Advertised, AssembleAnswer, VerifyAnswer,
          ClearReceiver, HandleResponse, SendGet, GetRequested, DeliverSynced, Confirm, link
    <3>4. ASSUME \/ \E r \in Readers : LinkProof(r) \/ Receive(r) \/ OutLinkClosed(r)
                 \/ ConnectionLost \/ EndSync \/ Connect \/ request_sync
                 \/ Announce \/ OutboxAsks \/ Lose \/ NodeServes \/ UNCHANGED vars
          PROVE  up' \in {up, pend, 0}
      BY <3>4 DEF LinkProof, Receive, OutLinkClosed, ConnectionLost, EndSync, Connect,
          request_sync, Announce, OutboxAsks, Lose, LoseLink, NodeServes, vars, link
    <3> QED BY <3>1, <3>2, <3>3, <3>4 DEF Next
  <2> QED BY <1>0, <2>1
<1>2. store' \subseteq Msgs
  <2>1. store' = store \/ \E S : store' = store \ S
    <3>1. ASSUME NEW th \in Threads, AnyThread(th) PROVE store' = store
      BY <3>1 DEF AnyThread, Finish, DropOutLink, IdentifyAndList, SendList, node
    <3>2. ASSUME SyncStep PROVE store' = store
      BY <3>2 DEF SyncStep, Wake, WakeStalled, WakeLinking, WakeRequested, WakeAuto,
          ExpirePath, Retry, StartSync, BeginLinking, Lookup, UseLink, AskLink, node
    <3>3. ASSUME NEW r \in Readers, ReaderStep(r) PROVE store' = store
      BY <3>3 DEF ReaderStep, OnLinkUp, Advertised, AssembleAnswer, VerifyAnswer,
          ClearReceiver, HandleResponse, SendGet, GetRequested, DeliverSynced, Confirm, node
    <3>4. ASSUME \/ \E r \in Readers : LinkProof(r) \/ Receive(r) \/ OutLinkClosed(r)
                 \/ ConnectionLost \/ EndSync \/ Connect \/ request_sync
                 \/ Announce \/ OutboxAsks \/ Lose \/ UNCHANGED vars
          PROVE  store' = store
      BY <3>4 DEF LinkProof, Receive, OutLinkClosed, ConnectionLost, EndSync, Connect,
          request_sync, Announce, OutboxAsks, Lose, vars, node
    <3>5. ASSUME NodeServes PROVE store' = store \/ \E S : store' = store \ S
      BY <3>5 DEF NodeServes
    <3> QED BY <3>1, <3>2, <3>3, <3>4, <3>5 DEF Next
  <2> QED BY <1>0, <2>1
<1>3. got' \subseteq Msgs
  <2>1. ASSUME NEW r \in Readers, DeliverSynced(r) PROVE got' \subseteq Msgs
    <3>1. work[r].ans.ids \in SUBSET Msgs  BY <1>0, ReaderAns
    <3> QED BY <1>0, <2>1, <3>1 DEF DeliverSynced
  <2>2. ASSUME NEW th \in Threads, AnyThread(th) PROVE got' = got
    BY <2>2 DEF AnyThread, Finish, DropOutLink, IdentifyAndList, SendList
  <2>3. ASSUME SyncStep PROVE got' = got
    BY <2>3 DEF SyncStep, Wake, WakeStalled, WakeLinking, WakeRequested, WakeAuto,
        ExpirePath, Retry, StartSync, BeginLinking, Lookup, UseLink, AskLink
  <2>4. ASSUME NEW r \in Readers, ReaderStep(r), ~DeliverSynced(r) PROVE got' = got
    BY <2>4 DEF ReaderStep, OnLinkUp, Advertised, AssembleAnswer, VerifyAnswer,
        ClearReceiver, HandleResponse, SendGet, GetRequested, Confirm
  <2>5. ASSUME \/ \E r \in Readers : LinkProof(r) \/ Receive(r) \/ OutLinkClosed(r)
               \/ ConnectionLost \/ EndSync \/ Connect \/ request_sync
               \/ Announce \/ OutboxAsks \/ Lose \/ NodeServes \/ UNCHANGED vars
        PROVE  got' = got
    BY <2>5 DEF LinkProof, Receive, OutLinkClosed, ConnectionLost, EndSync, Connect,
        request_sync, Announce, OutboxAsks, Lose, NodeServes, vars
  <2> QED BY <1>0, <2>1, <2>2, <2>3, <2>4, <2>5 DEF Next
<1>4. sync' \in SyncStates /\ pend' \in 0..MaxLinks
  BY SyncTypeStep, PendStep
<1> QED BY <1>1, <1>2, <1>3, <1>4 DEF TypeOK, SyncStates

LEMMA TypesStep == Types /\ [Next]_vars => Types'
BY TypeStep, WorkTypedStep, WireTypedStep, PendStep, TriesStep, LinkStep DEF Types

LEMMA TypesInit == Init => Types
<1> SUFFICES ASSUME Init PROVE Types
  OBVIOUS
<1> DEFINE s == [phase |-> "Idle", link |-> 0, receiver |-> NoAns, left |-> 0,
                 auto_done |-> FALSE, requested |-> FALSE, wait |-> 0,
                 route_tries |-> 0, probe |-> 0]
<1>1. sync = s /\ s \in SyncStates
  BY TimesFacts DEF Init, SyncStates, Phases
<1>2. TypeOK
  BY <1>1, TimesFacts DEF Init, TypeOK, SyncStates
<1>3. WorkTyped
  BY RestType DEF Init, WorkTyped
<1>4. WireTyped /\ PendIsNew /\ OneLinkToNode
  BY DEF Init, WireTyped, PendIsNew, OneLinkToNode
<1>5. TriesCounted
  BY <1>1, TimesFacts DEF TriesCounted
<1> QED BY <1>2, <1>3, <1>4, <1>5 DEF Types

(* The sync state keeps its type: `left` never passes below the deadline's  *)
(* end, and route_tries never exceeds SYNC_ROUTE_TRIES by more than the one *)
(* try that start_sync gives up on.                                        *)
THEOREM TypeCorrect == Spec => []TypeOK
<1>1. Types => TypeOK
  BY DEF Types
<1> QED BY <1>1, TypesInit, TypesStep, PTL DEF Spec

-----------------------------------------------------------------------------
(* The link of a sync that waits for one.  While a link is up, a thread is  *)
(* on its way to tell the sync: the reader that got the proof, or the sync  *)
(* thread that finds the link itself.                                      *)

Telling == {"linkup", "lookup", "have", "list"}
Told ==
    sync.phase = "Linking" /\ up # 0 => \E th \in Threads : work[th].at \in Telling

\* A thread that is not telling moves, or one that goes on telling.
LEMMA ToldKept ==
    ASSUME WorkTyped, Told, sync'.phase = "Linking" => sync.phase = "Linking",
           up' # 0 => up # 0, NEW th \in Threads, NEW w \in Works, Moved(th, w),
           work[th].at \in Telling /\ sync.phase = "Linking" /\ up # 0
               => w.at \in Telling \/ sync'.phase # "Linking"
    PROVE  Told'
BY DEF Told, Moved

LEMMA ToldStep ==
    ASSUME Types, Told, [Next]_vars
    PROVE  Told'
<1> USE ThreadsExist
<1>0. TypeOK /\ WorkTyped /\ WireTyped /\ sync \in SyncStates
  BY TypeFields DEF Types
<1> DEFINE Known == (sync'.phase = "Linking" => sync.phase = "Linking") /\ (up' # 0 => up # 0)
<1>1. ASSUME NEW th \in Threads, Done(th), Known,
             work[th].at \notin Telling \/ sync.phase # "Linking"
      PROVE  Told'
  BY <1>0, <1>1, DoneMoves, RestType, ToldKept
<1>2. ASSUME NEW th \in Threads, NEW s \in Places, Goto(th, s), Known,
             \/ work[th].at \notin Telling \/ s \in Telling
             \/ sync'.phase # "Linking" \/ up = 0
      PROVE  Told'
  <2>1. PICK w \in Works : /\ Moved(th, w)
                           /\ w.at = s /\ w.l = work[th].l /\ w.ans = work[th].ans
    BY <1>0, <1>2, GotoMoves
  <2> QED BY <1>0, <1>2, <2>1, ToldKept
<1>3. ASSUME sync'.phase # "Linking" PROVE Told'
  BY <1>3 DEF Told
<1>4. ASSUME NEW th \in Threads, AnyThread(th) PROVE Told'
  <2>1. CASE Finish(th)
    BY <1>0, <1>3, <2>1, FinishType
  <2>2. CASE DropOutLink(th) \/ SendList(th)
    BY <1>1, <2>2 DEF DropOutLink, SendList, At, Telling, link
  <2>3. CASE IdentifyAndList(th)
    <3>1. sync'.phase = "ListRequested"  BY <2>3, CourseChanges
    <3> QED BY <1>3, <3>1
  <2> QED BY <1>4, <2>1, <2>2, <2>3 DEF AnyThread
<1>5. ASSUME SyncStep, ~BeginLinking, ~UseLink PROVE Told'
  <2>1. sync'.phase = sync.phase /\ up' = up
    <3>1. sync'.phase = sync.phase  BY <1>5, SyncThreadCourse DEF SameCourse
    <3>2. up' = up
      BY <1>5 DEF SyncStep, Wake, WakeStalled, WakeLinking, WakeRequested, WakeAuto,
          ExpirePath, Retry, StartSync, Lookup, AskLink, link
    <3> QED BY <3>1, <3>2
  <2>2. CASE WakeStalled
    <3> DEFINE s == IF sync.phase = "Linking" THEN "expire" ELSE "finish"
    <3>1. s \in Places /\ Goto("sync", s) /\ At("sync", "rest")
      BY <2>2, PlacesExist DEF WakeStalled
    <3> HIDE DEF s
    <3> QED BY <1>2, <2>1, <3>1 DEF At, Telling
  <2>3. CASE WakeLinking \/ WakeRequested \/ WakeAuto
    BY <1>1, <1>2, <2>1, <2>3, PlacesExist DEF WakeLinking, WakeRequested, WakeAuto, At, Telling
  <2>4. CASE ExpirePath \/ StartSync
    BY <1>1, <1>2, <2>1, <2>4, PlacesExist DEF ExpirePath, StartSync, At, Telling
  <2>5. CASE Retry \/ AskLink
    <3>1. Done("sync") \/ Goto("sync", "finish")
      BY <2>5 DEF Retry, AskLink, SendLinkRequest
    <3>2. work["sync"].at \notin Telling
      BY <2>5 DEF Retry, AskLink, At, Telling
    <3> QED BY <1>1, <1>2, <2>1, <3>1, <3>2, PlacesExist
  <2>6. CASE Lookup
    <3>1. CASE up # 0
      <4>1. PICK w \in Works : Moved("sync", w) /\ w.at = "have" /\ w.l = up
        BY <1>0, <2>6, <3>1, LookupMoves
      <4> QED BY <1>0, <2>1, <4>1, ToldKept DEF Telling
    <3>2. CASE up = 0
      BY <2>1, <3>2 DEF Told
    <3> QED BY <3>1, <3>2
  <2> QED BY <1>5, <2>2, <2>3, <2>4, <2>5, <2>6 DEF SyncStep, Wake
<1>6. ASSUME BeginLinking PROVE Told'
  BY <1>0, <1>6, BeginMoves DEF Told, Telling
<1>7. ASSUME UseLink PROVE Told'
  <2>1. sync'.phase = sync.phase /\ up' = up /\ Goto("sync", "list")
    BY <1>7, CourseChanges DEF UseLink, link
  <2> QED BY <1>2, <2>1, PlacesExist DEF Telling
<1>8. ASSUME NEW r \in Readers, ReaderStep(r) PROVE Told'
  <2>1. up' = up
    BY <1>8 DEF ReaderStep, OnLinkUp, Advertised, AssembleAnswer, VerifyAnswer, ClearReceiver,
        HandleResponse, SendGet, GetRequested, DeliverSynced, Confirm, link
  <2>2. CASE GetRequested(r)
    <3>1. sync'.phase = "GetRequested"  BY <2>2, CourseChanges
    <3> QED BY <1>3, <3>1
  <2>3. CASE OnLinkUp(r)
    <3>1. sync'.phase = sync.phase  BY <2>3, CourseChanges
    <3>2. \/ sync.phase = "Linking" /\ Goto(r, "list")
          \/ sync.phase # "Linking"
      BY <2>3 DEF OnLinkUp
    <3> QED BY <1>2, <1>3, <2>1, <3>1, <3>2, PlacesExist DEF Telling
  <2>4. ASSUME ~GetRequested(r), ~OnLinkUp(r)
        PROVE  Told'
    <3>1. sync'.phase = sync.phase
      BY <1>8, <2>4, CourseChanges DEF ReaderStep, AssembleAnswer, VerifyAnswer,
          HandleResponse, SendGet, DeliverSynced, Confirm
    <3>2. work[r].at \notin Telling
      BY <1>8, <2>4 DEF ReaderStep, Advertised, AssembleAnswer, VerifyAnswer, ClearReceiver,
          HandleResponse, SendGet, DeliverSynced, Confirm, At, Telling
    <3>3. CASE VerifyAnswer(r)
      <4>1. CASE Step(r, [work[r] EXCEPT !.at = "clear", !.ans = sync.receiver])
        BY <1>0, <2>1, <3>1, <3>2, <4>1, VerifyMoves, ToldKept
      <4> QED BY <1>1, <1>2, <2>1, <3>1, <3>2, <3>3, <4>1, PlacesExist DEF VerifyAnswer
    <3>4. CASE DeliverSynced(r)
      <4> DEFINE s == IF work[r].ans.ids = {} THEN "finish" ELSE "confirm"
      <4>1. s \in Places /\ Goto(r, s)  BY <3>4, PlacesExist DEF DeliverSynced
      <4> HIDE DEF s
      <4> QED BY <1>2, <2>1, <3>1, <3>2, <4>1
    <3>5. CASE Advertised(r) \/ AssembleAnswer(r) \/ ClearReceiver(r)
      BY <1>1, <1>2, <2>1, <3>1, <3>2, <3>5, PlacesExist
         DEF Advertised, AssembleAnswer, ClearReceiver
    <3>6. CASE HandleResponse(r) \/ SendGet(r) \/ Confirm(r)
      BY <1>1, <1>2, <2>1, <3>1, <3>2, <3>6, PlacesExist DEF HandleResponse, SendGet, Confirm
    <3> QED BY <1>8, <2>4, <3>3, <3>4, <3>5, <3>6 DEF ReaderStep
  <2> QED BY <2>2, <2>3, <2>4
<1>9. ASSUME NEW r \in Readers, LinkProof(r) PROVE Told'
  BY <1>0, <1>9, LinkProofMoves DEF Told, Telling, Moved
<1>10. ASSUME NEW r \in Readers, Receive(r) PROVE Told'
  <2>1. UNCHANGED <<sync, up>> /\ work[r].at \notin Telling
    BY <1>10 DEF Receive, link, At, Telling
  <2> QED BY <1>0, <1>1, <1>10, <2>1, ReceiveMoves, ToldKept
<1>11. ASSUME up' = 0 PROVE Told'
  BY <1>11 DEF Told
<1>12. ASSUME EndSync PROVE Told'
  BY <1>1, <1>2, <1>12, PlacesExist DEF EndSync, At, Telling, link
<1>13. ASSUME Connect \/ request_sync \/ Announce \/ OutboxAsks \/ Lose \/ NodeServes
              \/ UNCHANGED vars
       PROVE  Told'
  <2>1. UNCHANGED work /\ up' \in {up, 0}
    BY <1>13 DEF Connect, request_sync, Announce, OutboxAsks, Lose, LoseLink, NodeServes,
        vars, link
  <2>2. sync'.phase = sync.phase
    BY <1>13, RequestCourse DEF Connect, SameCourse, Announce, OutboxAsks, Lose, NodeServes, vars
  <2> QED BY <2>1, <2>2 DEF Told
<1> QED BY <1>4, <1>5, <1>6, <1>7, <1>8, <1>9, <1>10, <1>11, <1>12, <1>13
        DEF Next, OutLinkClosed, ConnectionLost

(* No lost wakeup in sync_on_link_up and start_sync's look at the table of  *)
(* links: with every thread at rest, no sync waits for a link that is up.  *)
THEOREM NoLostLinkUpHolds == Spec => []NoLostLinkUp
<1>1. Types /\ Told => NoLostLinkUp
  BY DEF Told, NoLostLinkUp, At, Telling
<1>2. Init => Types /\ Told
  BY TypesInit DEF Init, Told
<1>3. Types /\ Told /\ [Next]_vars => (Types /\ Told)'
  BY TypesStep, ToldStep
<1> QED BY <1>1, <1>2, <1>3, PTL DEF Spec

-----------------------------------------------------------------------------
(* Which answer can be on its way.  Nothing in an answer says what it       *)
(* answers, so the argument is about the traffic on the link of a sync: at  *)
(* most one request or answer at a time, of the kind the phase expects, as  *)
(* long as threads take turns.  A sync that ends may leave an answer behind *)
(* on its link, which is why it drops the link.                            *)

Asking == sync.phase \in {"ListRequested", "GetRequested"}
Expected == IF sync.phase = "GetRequested" THEN "blobs" ELSE "list"
Verb(k) == IF k = "blobs" THEN "get" ELSE "list"
Nothing == sync.receiver = NoAns

\* Nothing is on its way on link u.
QuietOn(tn, fn, u) == fn = <<>> /\ \A i \in 1..Len(tn) : tn[i].l # u

\* At most one thing is, and it is what a sync that expects k may see: with no
\* receiver the request or its answer, with one the parts.
Allowed(a, k, nothing) ==
    \/ a.form \in {"close", "part"} \/ (a.form = "packet" /\ a.kind = "error")
    \/ nothing /\ a.form \in {"packet", "adv"} /\ a.kind = k
TrafficOn(tn, fn, u, k, nothing) ==
    /\ Len(fn) <= 1
    /\ \A i, j \in 1..Len(tn) : tn[i].l = u /\ tn[j].l = u => i = j
    /\ fn # <<>> => \A i \in 1..Len(tn) : tn[i].l # u
    /\ \A i \in 1..Len(tn) : tn[i].l = u =>
          tn[i].req = "parts" \/ (nothing /\ tn[i].req = Verb(k))
    /\ \A i \in 1..Len(fn) : Allowed(fn[i], k, nothing)

Quiet == QuietOn(toNode, fromNode, up)
Traffic == TrafficOn(toNode, fromNode, up, Expected, Nothing)

\* A thread at work is in step with the sync it works for.
OnTheSync(w) == w.l = sync.link /\ (w.l = up => Quiet)
InStep(w) ==
    /\ w.at = "begin" => sync.phase = "Idle"
    /\ w.at \in {"lookup", "have", "ask"} => sync.phase = "Linking"
    /\ w.at = "list" => sync.phase = "Linking" /\ w.l = sync.link
    /\ w.at = "send" => sync.phase = "ListRequested" /\ Nothing /\ OnTheSync(w)
    /\ w.at \in {"adv", "part", "verify", "clear", "packet", "listed", "blobs", "confirm"} =>
            Asking /\ OnTheSync(w)
    /\ w.at = "adv" => w.ans.kind = Expected /\ Nothing
    /\ w.at = "clear" => w.ans.kind = Expected
    /\ w.at = "packet" => w.ans.kind = "error" \/ (w.ans.kind = Expected /\ Nothing)
    /\ w.at = "listed" => sync.phase = "ListRequested" /\ w.ans.kind = "list" /\ Nothing
    /\ w.at = "blobs" => w.ans.kind = "blobs"
    /\ w.at = "getting" =>
            /\ sync.phase = "ListRequested" /\ Nothing /\ w.l = sync.link
            /\ w.l = up => TrafficOn(toNode, fromNode, up, "blobs", TRUE)

Received == ~Nothing => Asking /\ sync.receiver.kind = Expected
OurLink == Asking /\ sync.link = up

AskInv ==
    ~overlap =>
        /\ \A o, p \in Threads : o # p => work[o].at \in Sampling \/ work[p].at \in Sampling
        /\ \A th \in Threads : InStep(work[th])
        /\ Received
        /\ up # 0 /\ ~OurLink =>
              Quiet \/ \E th \in Threads : work[th].at = "drop" /\ work[th].l = up
        /\ up # 0 /\ OurLink =>
              Traffic \/ \E th \in Threads : work[th].at \in {"finish", "getting"}

\* What thread th may rely on when it moves and no other thread is at work.
Turn(th) ==
    /\ InStep(work[th]) /\ Received
    /\ up # 0 /\ ~OurLink => Quiet \/ (work[th].at = "drop" /\ work[th].l = up)
    /\ up # 0 /\ OurLink => Traffic \/ work[th].at \in {"finish", "getting"}

LEMMA MyTurn ==
    ASSUME AskInv, WorkTyped, NEW th \in Threads, NEW w \in Works, Moved(th, w), ~overlap',
           Busy(th) \/ w.at \notin Sampling
    PROVE  /\ Turn(th)
           /\ \A o \in Threads : o # th => /\ work[o].at \in Sampling
                                           /\ work[o].at = "begin" => sync.phase = "Idle"
<1>1. ~overlap /\ ~(w.at \notin Sampling /\ OthersBusy(th))
  BY DEF Moved, WorkTyped
<1>2. \A o \in Threads : o # th => work[o].at \in Sampling
  BY <1>1 DEF AskInv, Busy, OthersBusy
<1>3. \A o \in Threads : o # th => (work[o].at = "begin" => sync.phase = "Idle")
  BY <1>1 DEF AskInv, InStep
<1>4. \A o \in Threads : o # th => work[o].at \notin {"drop", "finish", "getting"}
  BY <1>2 DEF Sampling
<1>5. Turn(th)
  BY <1>1, <1>4 DEF AskInv, Turn
<1> QED BY <1>2, <1>3, <1>5

\* What it has to leave behind.
LEMMA TurnTaken ==
    ASSUME AskInv, WorkTyped, NEW th \in Threads, NEW w \in Works, Moved(th, w), ~overlap',
           Busy(th) \/ w.at \notin Sampling,
           sync'.phase = sync.phase \/ sync'.phase = "Idle" \/ sync.phase # "Idle",
           Turn(th)'
    PROVE  AskInv'
<1>1. \A o \in Threads : o # th => /\ work[o].at \in Sampling
                                   /\ work[o].at = "begin" => sync.phase = "Idle"
  BY MyTurn
<1>2. \A o \in Threads : o # th => work'[o] = work[o]
  BY DEF Moved
<1>3. \A o \in Threads : o # th => InStep(work[o])'
  BY <1>1, <1>2 DEF InStep, Sampling
<1> QED BY <1>1, <1>2, <1>3 DEF AskInv, Turn

\* A turn that changes neither the course of the sync nor the wire.
LEMMA PlainTurn ==
    ASSUME AskInv, WorkTyped, NEW th \in Threads, NEW w \in Works, Moved(th, w),
           Busy(th) \/ w.at \notin Sampling,
           SameCourse, UNCHANGED <<up, toNode, fromNode>>,
           work[th].at \notin {"drop", "finish", "getting"},
           Turn(th) => InStep(w)
    PROVE  AskInv'
<1> SUFFICES ASSUME ~overlap' PROVE AskInv'
  BY DEF AskInv
<1>1. Turn(th)  BY MyTurn
<1>2. /\ Quiet' = Quiet /\ Traffic' = Traffic /\ Received' = Received /\ OurLink' = OurLink
      /\ InStep(w)' = InStep(w) /\ work'[th] = w
  BY DEF SameCourse, Quiet, Traffic, Received, OurLink, InStep, OnTheSync, Asking, Expected,
         Nothing, Moved
<1>3. InStep(work[th])'
  BY <1>1, <1>2
<1>4. Turn(th)'
  BY <1>1, <1>2, <1>3 DEF Turn
<1> QED BY <1>4, TurnTaken DEF SameCourse

\* Quiet is traffic of any kind.
LEMMA QuietIsTraffic ==
    ASSUME NEW tn, NEW fn, NEW u, NEW k, NEW n, QuietOn(tn, fn, u)
    PROVE  TrafficOn(tn, fn, u, k, n)
<1>1. fn = <<>> /\ Len(fn) = 0  BY DEF QuietOn
<1> QED BY <1>1 DEF QuietOn, TrafficOn

\* Losing a request, or an answer.
LEMMA RequestGone ==
    ASSUME NEW tn \in Seq(Requests), tn # <<>>, NEW fn, NEW u
    PROVE  /\ QuietOn(tn, fn, u) => QuietOn(Tail(tn), fn, u)
           /\ \A k, n : TrafficOn(tn, fn, u, k, n) => TrafficOn(Tail(tn), fn, u, k, n)
<1> DEFINE t == Tail(tn)
<1>1. /\ Len(tn) \in Nat /\ Len(t) = Len(tn) - 1
      /\ \A i \in 1..Len(t) : i + 1 \in 1..Len(tn) /\ t[i] = tn[i + 1]
  BY HeadTailProperties
<1> HIDE DEF t
<1>2. QuietOn(tn, fn, u) => QuietOn(t, fn, u)
  BY <1>1 DEF QuietOn
<1>3. ASSUME NEW k, NEW n, TrafficOn(tn, fn, u, k, n) PROVE TrafficOn(t, fn, u, k, n)
  <2>1. \A i, j \in 1..Len(t) : t[i].l = u /\ t[j].l = u => i = j
    <3> SUFFICES ASSUME NEW i \in 1..Len(t), NEW j \in 1..Len(t), t[i].l = u, t[j].l = u
                 PROVE  i = j
      OBVIOUS
    <3>1. i + 1 = j + 1  BY <1>1, <1>3 DEF TrafficOn
    <3> QED BY <3>1, <1>1
  <2>2. \A i \in 1..Len(t) : t[i].l = u => t[i].req = "parts" \/ (n /\ t[i].req = Verb(k))
    BY <1>1, <1>3 DEF TrafficOn
  <2>3. fn # <<>> => \A i \in 1..Len(t) : t[i].l # u
    BY <1>1, <1>3 DEF TrafficOn
  <2> QED BY <1>3, <2>1, <2>2, <2>3 DEF TrafficOn
<1> QED BY <1>2, <1>3 DEF t

LEMMA AnswerGone ==
    ASSUME NEW tn, NEW fn \in Seq(Answers), fn # <<>>, NEW u
    PROVE  /\ QuietOn(tn, fn, u) => QuietOn(tn, Tail(fn), u)
           /\ \A k, n : TrafficOn(tn, fn, u, k, n) =>
                 QuietOn(tn, Tail(fn), u) /\ Allowed(Head(fn), k, n)
<1>1. Len(fn) \in Nat /\ Len(fn) # 0 /\ Tail(fn) \in Seq(Answers)
      /\ Len(Tail(fn)) = Len(fn) - 1 /\ Head(fn) = fn[1]
  BY HeadTailProperties, EmptySeq
<1>2. ASSUME NEW k, NEW n, TrafficOn(tn, fn, u, k, n)
      PROVE  QuietOn(tn, Tail(fn), u) /\ Allowed(Head(fn), k, n)
  <2>1. Len(fn) = 1  BY <1>1, <1>2 DEF TrafficOn
  <2>2. Len(Tail(fn)) = 0  BY <1>1, <2>1
  <2>4. Tail(fn) = <<>>  BY <1>1, <2>2, EmptySeq
  <2>3. 1 \in 1..Len(fn)  BY <2>1
  <2> QED BY <1>1, <1>2, <2>4, <2>3 DEF TrafficOn, QuietOn
<1> QED BY <1>2 DEF QuietOn

\* Asking on a quiet link.
LEMMA RequestOut ==
    ASSUME NEW tn \in Seq(Requests), NEW fn, NEW u, QuietOn(tn, fn, u),
           NEW q \in Requests, q.l = u, NEW k, NEW n,
           q.req = "parts" \/ (n /\ q.req = Verb(k))
    PROVE  TrafficOn(Append(tn, q), fn, u, k, n)
<1> DEFINE t == Append(tn, q)
<1>1. /\ Len(tn) \in Nat /\ Len(t) = Len(tn) + 1 /\ t[Len(tn) + 1] = q
      /\ \A i \in 1..Len(tn) : t[i] = tn[i]
  BY AppendProperties
<1> HIDE DEF t
<1>2. \A i \in 1..Len(t) : t[i].l = u => i = Len(tn) + 1
  BY <1>1 DEF QuietOn
<1>3. fn = <<>> /\ Len(fn) = 0  BY DEF QuietOn
<1>4. TrafficOn(t, fn, u, k, n)
  BY <1>1, <1>2, <1>3 DEF TrafficOn
<1> QED BY <1>4 DEF t

\* The node answers the oldest request.
LEMMA Answered ==
    ASSUME NEW tn \in Seq(Requests), tn # <<>>, NEW fn \in Seq(Answers), NEW u,
           Head(tn).l = u, NEW a \in Answers
    PROVE  /\ ~QuietOn(tn, fn, u)
           /\ \A k, n : TrafficOn(tn, fn, u, k, n) /\ Allowed(a, k, n)
                 => TrafficOn(Tail(tn), Append(fn, a), u, k, n)
           /\ \A k, n : TrafficOn(tn, fn, u, k, n) =>
                 Head(tn).req = "parts" \/ (n /\ Head(tn).req = Verb(k))
<1> DEFINE t == Tail(tn)
<1>1. /\ Len(tn) \in Nat /\ Len(tn) # 0 /\ Len(t) = Len(tn) - 1 /\ Head(tn) = tn[1]
      /\ \A i \in 1..Len(t) : i + 1 \in 1..Len(tn) /\ t[i] = tn[i + 1]
  BY HeadTailProperties, EmptySeq
<1> HIDE DEF t
<1>2. 1 \in 1..Len(tn) /\ tn[1].l = u  BY <1>1
<1>3. ASSUME NEW k, NEW n, TrafficOn(tn, fn, u, k, n), Allowed(a, k, n)
      PROVE  TrafficOn(t, Append(fn, a), u, k, n)
  <2>1. fn = <<>>  BY <1>2, <1>3 DEF TrafficOn
  <2>2. Len(Append(fn, a)) = 1 /\ Append(fn, a)[1] = a
    BY <2>1, AppendProperties
  <2>3. ASSUME NEW i \in 1..Len(t) PROVE t[i].l # u
    <3>1. i + 1 \in 1..Len(tn) /\ t[i] = tn[i + 1] /\ i + 1 # 1  BY <1>1
    <3> QED BY <1>2, <1>3, <3>1 DEF TrafficOn
  <2> QED BY <1>3, <2>2, <2>3 DEF TrafficOn
<1>4. ASSUME NEW k, NEW n, TrafficOn(tn, fn, u, k, n)
      PROVE  Head(tn).req = "parts" \/ (n /\ Head(tn).req = Verb(k))
  BY <1>1, <1>2, <1>4 DEF TrafficOn
<1> QED BY <1>2, <1>3, <1>4 DEF QuietOn, t

\* Nothing but the wire changes, and it keeps its order.
WireKept ==
    \/ up' = 0
    \/ /\ up' = up
       /\ QuietOn(toNode, fromNode, up) => QuietOn(toNode', fromNode', up)
       /\ \A k \in {"list", "blobs"}, n \in BOOLEAN :
             TrafficOn(toNode, fromNode, up, k, n) => TrafficOn(toNode', fromNode', up, k, n)

LEMMA NodeKeeps ==
    ASSUME Types, NodeServes
    PROVE  WireKept
<1>0. toNode \in Seq(Requests) /\ fromNode \in Seq(Answers) /\ WireTyped /\ store \subseteq Msgs
  BY DEF Types, WireTyped, TypeOK
<1> DEFINE q == Head(toNode)
<1>1. /\ toNode # <<>> /\ toNode' = Tail(toNode) /\ up' = up
      /\ q.ids \in SUBSET Msgs
  BY <1>0, HeadRequest DEF NodeServes, link
<1>2. PICK form \in {"packet", "adv", "part", "close"},
           kind \in {"list", "blobs", "error", "none"}, ids \in SUBSET Msgs :
              /\ Answer(q.l, form, kind, ids)
              /\ \/ q.req = "list" /\ form \in {"packet", "adv"} /\ kind = "list"
                 \/ q.req = "get" /\ form \in {"packet", "adv"} /\ kind = "blobs"
                 \/ q.req = "delete"
                 \/ form \in {"part", "close"}
                 \/ form = "packet" /\ kind = "error"
  <2>1. ASSUME NEW ids \in SUBSET (q.ids \cap store) PROVE ids \in SUBSET Msgs
    BY <1>0
  <2>2. store \in SUBSET Msgs /\ {} \in SUBSET Msgs  BY <1>0
  <2> QED BY <2>1, <2>2 DEF NodeServes
<1> DEFINE a == [form |-> form, kind |-> kind, ids |-> ids]
<1>3. a \in Answers /\ a.form = form /\ a.kind = kind  BY DEF Answers
<1>4. CASE q.l # up
  BY <1>0, <1>1, <1>2, <1>4, RequestGone DEF WireKept, Answer
<1>5. CASE q.l = up
  <2>1. fromNode' = Append(fromNode, a)
    BY <1>2, <1>5 DEF Answer
  <2> HIDE DEF a, q
  <2>2. ASSUME NEW k \in {"list", "blobs"}, NEW n, TrafficOn(toNode, fromNode, up, k, n)
        PROVE  Allowed(a, k, n)
    <3>1. q.req = "parts" \/ (n /\ q.req = Verb(k))
      BY <1>0, <1>1, <1>3, <1>5, <2>2, Answered DEF q
    <3> QED BY <1>2, <1>3, <3>1 DEF Allowed, Verb
  <2> QED BY <1>0, <1>1, <1>3, <1>5, <2>1, <2>2, Answered DEF WireKept, q
<1> QED BY <1>4, <1>5

\* Steps of the others, and of threads that have decided nothing.
LEMMA OthersTurn ==
    ASSUME AskInv, WorkTyped, SameCourse, WireKept, overlap' = overlap,
           \A o \in Threads : \/ work'[o] = work[o]
                              \/ /\ work[o].at \in Sampling /\ work'[o].at \in Sampling
                                 /\ work'[o].at = "begin" => sync.phase = "Idle"
    PROVE  AskInv'
<1> SUFFICES ASSUME ~overlap PROVE AskInv'
  BY DEF AskInv
<1>1. /\ Nothing' = Nothing /\ Asking' = Asking /\ Expected' = Expected /\ Received' = Received
      /\ sync'.phase = sync.phase /\ sync'.link = sync.link
  BY DEF SameCourse, Nothing, Asking, Expected, Received
<1>2. /\ \A o, p \in Threads : o # p => work[o].at \in Sampling \/ work[p].at \in Sampling
      /\ \A th \in Threads : InStep(work[th])
      /\ Received
      /\ up # 0 /\ ~OurLink =>
            Quiet \/ \E th \in Threads : work[th].at = "drop" /\ work[th].l = up
      /\ up # 0 /\ OurLink =>
            Traffic \/ \E th \in Threads : work[th].at \in {"finish", "getting"}
  BY DEF AskInv
<1>3. \A o \in Threads : work[o].at \notin Sampling => work'[o] = work[o]
  OBVIOUS
<1>4. \A o \in Threads : work[o].at \in {"drop", "finish", "getting"} => work'[o] = work[o]
  BY <1>3 DEF Sampling
<1>5. \A o, p \in Threads : o # p => work'[o].at \in Sampling \/ work'[p].at \in Sampling
  BY <1>2
<1>6. ASSUME NEW o \in Threads PROVE InStep(work[o])'
  <2>1. CASE work'[o].at \in Sampling
    BY <1>1, <1>2, <2>1 DEF InStep, Sampling
  <2>2. CASE work'[o].at \notin Sampling
    <3>1. work'[o] = work[o] /\ InStep(work[o]) /\ (work[o].at \in OnLink => work[o].l # 0)
      BY <1>2, <2>2 DEF WorkTyped
    <3>2. CASE up' = 0
      BY <1>1, <3>1, <3>2, PlacesExist DEF InStep, OnTheSync
    <3>3. CASE up' = up
      <4>1. /\ work[o].l = up /\ up # 0 => (Quiet => Quiet')
            /\ work[o].l = up /\ up # 0 => (TrafficOn(toNode, fromNode, up, "blobs", TRUE)
                  => TrafficOn(toNode, fromNode, up, "blobs", TRUE)')
        BY <3>3 DEF WireKept, Quiet
      <4> QED BY <1>1, <3>1, <3>3, <4>1, PlacesExist DEF InStep, OnTheSync
    <3> QED BY <3>2, <3>3 DEF WireKept
  <2> QED BY <2>1, <2>2
<1>7. ASSUME up' # 0
      PROVE  /\ ~OurLink' =>
                Quiet' \/ \E th \in Threads : work'[th].at = "drop" /\ work'[th].l = up'
             /\ OurLink' => Traffic' \/ \E th \in Threads : work'[th].at \in {"finish", "getting"}
  <2>1. up' = up /\ OurLink' = OurLink  BY <1>1, <1>7 DEF WireKept, OurLink
  <2>2. (Quiet => Quiet') /\ (Traffic => Traffic')
    BY <1>1, <1>7 DEF WireKept, Quiet, Traffic, Expected, Nothing
  <2> QED BY <1>2, <1>4, <1>7, <2>1, <2>2
<1> QED BY <1>1, <1>2, <1>5, <1>6, <1>7 DEF AskInv

LEMMA TurnLeft ==
    ASSUME AskInv, WorkTyped, NEW th \in Threads, NEW w \in Works, Moved(th, w), ~overlap',
           Busy(th) \/ w.at \notin Sampling,
           sync'.phase = sync.phase \/ sync'.phase = "Idle" \/ sync.phase # "Idle",
           InStep(w)', Received',
           up' # 0 /\ ~OurLink' => Quiet' \/ (w.at = "drop" /\ w.l = up'),
           up' # 0 /\ OurLink' => Traffic' \/ w.at \in {"finish", "getting"}
    PROVE  AskInv'
<1>1. work'[th] = w  BY DEF Moved
<1>2. Turn(th)'  BY <1>1 DEF Turn
<1> QED BY <1>2, TurnTaken

LEMMA SamplingTurn ==
    ASSUME AskInv, WorkTyped, NEW th \in Threads, NEW w \in Works, Moved(th, w),
           work[th].at \in Sampling, w.at \in Sampling, w.at = "begin" => sync.phase = "Idle",
           SameCourse, WireKept
    PROVE  AskInv'
<1>1. overlap' = overlap  BY DEF Moved, WorkTyped
<1> QED BY <1>1, OthersTurn DEF Moved

LEMMA SameWire ==
    ASSUME UNCHANGED <<up, toNode, fromNode>>
    PROVE  WireKept
BY DEF WireKept

\* The end of a sync: what its link still carries, it will drop.
LEMMA FinishAsks ==
    ASSUME Types, AskInv, NEW th \in Threads, Finish(th)
    PROVE  AskInv'
<1> SUFFICES ASSUME ~overlap' PROVE AskInv'
  BY DEF AskInv
<1>0. TypeOK /\ WorkTyped /\ sync \in SyncStates  BY TypeFields DEF Types
<1>1. PICK w \in Works : Moved(th, w) /\ w.at = "drop" /\ w.l = sync.link
  BY <1>0, FinishMoves
<1>2. sync'.phase = "Idle" /\ sync'.link = 0 /\ sync'.receiver = NoAns
  BY <1>0, FinishType
<1>3. UNCHANGED <<up, toNode, fromNode>> /\ work[th].at = "finish"
  BY DEF Finish, link, node, At
<1>4. Turn(th)
  BY <1>0, <1>1, <1>3, MyTurn, PlacesExist DEF Busy
<1>5. InStep(w)' /\ Received' /\ ~OurLink'
  BY <1>1, <1>2 DEF InStep, Received, Nothing, OurLink, Asking
<1>6. up' # 0 => Quiet' \/ w.l = up'
  BY <1>1, <1>3, <1>4 DEF Turn, OurLink, Quiet
<1> QED BY <1>0, <1>1, <1>2, <1>3, <1>5, <1>6, TurnLeft, PlacesExist DEF Busy

LEMMA DropAsks ==
    ASSUME Types, AskInv, NEW th \in Threads, DropOutLink(th)
    PROVE  AskInv'
<1> SUFFICES ASSUME ~overlap' PROVE AskInv'
  BY DEF AskInv
<1>0. TypeOK /\ WorkTyped  BY DEF Types
<1>1. Moved(th, Rest) /\ Rest \in Works /\ Rest.at = "rest" /\ Busy(th)
  BY <1>0, DoneMoves, RestType, PlacesExist DEF DropOutLink, At, Busy
<1>2. Turn(th) /\ work[th].at = "drop"
  BY <1>0, <1>1, MyTurn DEF DropOutLink, At
<1>3. /\ sync' = sync /\ toNode' = toNode
      /\ \/ up' = 0
         \/ up' = up /\ fromNode' = fromNode /\ ~(work[th].l # 0 /\ work[th].l = up)
  BY DEF DropOutLink
<1>4. InStep(Rest)' /\ Received'
  <2>1. Received'  BY <1>2, <1>3 DEF Turn, Received, Nothing, Asking, Expected
  <2> QED BY <2>1, <1>1 DEF InStep, Rest
<1>5. ASSUME up' # 0
      PROVE  (~OurLink' => Quiet') /\ (OurLink' => Traffic')
  <2>1. up' = up /\ fromNode' = fromNode /\ work[th].l # up  BY <1>3, <1>5
  <2>2. Quiet' = Quiet /\ Traffic' = Traffic /\ OurLink' = OurLink
    BY <1>3, <2>1 DEF Quiet, Traffic, OurLink, Asking, Expected, Nothing
  <2> QED BY <1>2, <1>5, <2>1, <2>2 DEF Turn
<1>6. sync'.phase = sync.phase  BY <1>3
<1> QED BY <1>0, <1>1, <1>4, <1>5, <1>6, TurnLeft

\* A link is used for a sync only when nothing is on it.
LEMMA IdentifyAsks ==
    ASSUME Types, AskInv, NEW th \in Threads, IdentifyAndList(th)
    PROVE  AskInv'
<1> SUFFICES ASSUME ~overlap' PROVE AskInv'
  BY DEF AskInv
<1>0. TypeOK /\ WorkTyped  BY DEF Types
<1>1. PICK w \in Works : /\ Moved(th, w)
                         /\ w.at = "send" /\ w.l = work[th].l /\ w.ans = work[th].ans
  BY <1>0, GotoMoves, PlacesExist DEF IdentifyAndList
<1>2. work[th].at = "list" /\ Busy(th) /\ work[th].l # 0
  BY <1>0, PlacesExist DEF IdentifyAndList, At, Busy, WorkTyped
<1>3. Turn(th)  BY <1>0, <1>1, <1>2, MyTurn
<1>4. /\ sync'.phase = "ListRequested" /\ sync'.link = sync.link
      /\ sync'.receiver = sync.receiver
  BY CourseChanges
<1>5. UNCHANGED <<up, toNode, fromNode>>  BY DEF IdentifyAndList, link, node
<1>6. sync.phase = "Linking" /\ w.l = sync.link /\ Nothing /\ ~Asking /\ (up # 0 => Quiet)
  BY <1>1, <1>2, <1>3 DEF Turn, InStep, Received, OurLink, Asking
<1>7. Quiet' = Quiet /\ Nothing' /\ (up' # 0 => Quiet')
  BY <1>4, <1>5, <1>6 DEF Quiet, Nothing
<1>8. InStep(w)' /\ Received'
  BY <1>1, <1>2, <1>4, <1>5, <1>6, <1>7 DEF InStep, OnTheSync, Received
<1>9. up' # 0 => Traffic'
  BY <1>7, QuietIsTraffic DEF Quiet, Traffic
<1> QED BY <1>0, <1>1, <1>2, <1>6, <1>7, <1>8, <1>9, TurnLeft

LEMMA SendListAsks ==
    ASSUME Types, AskInv, NEW th \in Threads, SendList(th)
    PROVE  AskInv'
<1> SUFFICES ASSUME ~overlap' PROVE AskInv'
  BY DEF AskInv
<1>0. TypeOK /\ WorkTyped /\ WireTyped /\ toNode \in Seq(Requests)
  BY DEF Types, WireTyped
<1>1. Moved(th, Rest) /\ Rest \in Works /\ Rest.at = "rest" /\ Busy(th)
  BY <1>0, DoneMoves, RestType, PlacesExist DEF SendList, At, Busy
<1>2. Turn(th) /\ work[th].at = "send"
  BY <1>0, <1>1, MyTurn DEF SendList, At
<1>3. UNCHANGED <<sync, up, fromNode>> /\ Send(work[th].l, "list", {})
  BY DEF SendList, link
<1>4. /\ sync.phase = "ListRequested" /\ Nothing /\ work[th].l = sync.link
      /\ work[th].l = up => Quiet
  BY <1>2 DEF Turn, InStep, OnTheSync
<1>5. InStep(Rest)' /\ Received'
  <2>1. Received'  BY <1>2, <1>3 DEF Turn, Received, Nothing, Asking, Expected
  <2> QED BY <2>1, <1>1 DEF InStep, Rest
<1>6. ASSUME up' # 0, ~OurLink' PROVE Quiet'
  <2>1. up # work[th].l /\ ~OurLink /\ up # 0
    BY <1>3, <1>4, <1>6 DEF OurLink, Asking
  <2>2. toNode' = toNode  BY <1>3, <2>1 DEF Send
  <2> QED BY <1>2, <1>3, <2>1, <2>2 DEF Turn, Quiet
<1>7. ASSUME up' # 0, OurLink' PROVE Traffic'
  <2> DEFINE q == [l |-> work[th].l, req |-> "list", ids |-> {}]
  <2>1. work[th].l = up /\ up # 0 /\ Quiet  BY <1>3, <1>4, <1>7 DEF OurLink
  <2>2. toNode' = Append(toNode, q)  BY <1>3, <2>1 DEF Send
  <2>3. q \in Requests /\ q.l = up /\ q.req = "list"
    BY <1>0, <2>1, TypeFields DEF Requests
  <2> HIDE DEF q
  <2>4. TrafficOn(Append(toNode, q), fromNode, up, "list", TRUE)
    BY <1>0, <2>1, <2>3, RequestOut DEF Quiet, Verb
  <2>5. Expected' = "list" /\ Nothing' = TRUE
    BY <1>3, <1>4 DEF Expected, Nothing
  <2> QED BY <1>3, <2>2, <2>4, <2>5 DEF Traffic
<1>8. sync'.phase = sync.phase  BY <1>3
<1> QED BY <1>0, <1>1, <1>5, <1>6, <1>7, <1>8, TurnLeft

\* Threads that move without touching the course of the sync or the wire.
LEMMA PlainGoto ==
    ASSUME Types, AskInv, NEW th \in Threads, NEW s \in Places, Goto(th, s),
           SameCourse, UNCHANGED <<up, toNode, fromNode>>,
           work[th].at \notin {"drop", "finish", "getting"},
           Busy(th) \/ s \notin Sampling,
           s \in {"finish", "expire", "ask", "verify", "listed", "blobs", "confirm"},
           s = "ask" => work[th].at = "lookup",
           s = "verify" => work[th].at = "part",
           s = "listed" => /\ work[th].at = "packet" /\ work[th].ans.kind # "error"
                           /\ sync.phase = "ListRequested",
           s = "blobs" => /\ work[th].at = "packet" /\ work[th].ans.kind # "error"
                          /\ sync.phase = "GetRequested",
           s = "confirm" => work[th].at = "blobs"
    PROVE  AskInv'
<1>0. WorkTyped  BY DEF Types
<1>1. PICK w \in Works : /\ Moved(th, w)
                         /\ w.at = s /\ w.l = work[th].l /\ w.ans = work[th].ans
  BY <1>0, GotoMoves
<1>2. ASSUME Turn(th) PROVE InStep(w)
  <2>1. InStep(work[th])  BY <1>2 DEF Turn
  <2>2. CASE s \in {"finish", "expire", "ask"}
    BY <1>1, <2>1, <2>2 DEF InStep
  <2>3. CASE s \in {"verify", "confirm"}
    BY <1>1, <2>1, <2>3 DEF InStep, OnTheSync
  <2>4. CASE s \in {"listed", "blobs"}
    BY <1>1, <2>1, <2>4 DEF InStep, OnTheSync, Expected
  <2> QED BY <2>2, <2>3, <2>4
<1> QED BY <1>0, <1>1, <1>2, PlainTurn

LEMMA PlainDone ==
    ASSUME Types, AskInv, NEW th \in Threads, Done(th), Busy(th),
           SameCourse, UNCHANGED <<up, toNode, fromNode>>,
           work[th].at \notin {"drop", "finish", "getting"}
    PROVE  AskInv'
<1>0. WorkTyped  BY DEF Types
<1>1. Moved(th, Rest) /\ Rest \in Works /\ Rest.at = "rest"
  BY <1>0, DoneMoves, RestType
<1>2. InStep(Rest)  BY <1>1 DEF InStep
<1> QED BY <1>0, <1>1, <1>2, PlainTurn

LEMMA SamplingGoto ==
    ASSUME Types, AskInv, NEW th \in Threads, NEW s \in Sampling, Goto(th, s),
           work[th].at \in Sampling, s = "begin" => sync.phase = "Idle",
           SameCourse, WireKept
    PROVE  AskInv'
<1>0. WorkTyped  BY DEF Types
<1>1. PICK w \in Works : /\ Moved(th, w)
                         /\ w.at = s /\ w.l = work[th].l /\ w.ans = work[th].ans
  BY <1>0, GotoMoves, PlacesExist
<1> QED BY <1>0, <1>1, SamplingTurn

LEMMA SamplingDone ==
    ASSUME Types, AskInv, NEW th \in Threads, Done(th), work[th].at \in Sampling,
           SameCourse, WireKept
    PROVE  AskInv'
<1>0. WorkTyped  BY DEF Types
<1>1. Moved(th, Rest) /\ Rest \in Works /\ Rest.at = "rest"
  BY <1>0, DoneMoves, RestType
<1> QED BY <1>0, <1>1, SamplingTurn, PlacesExist

\* The sync thread, but for the start of a sync and the use of its link.
LEMMA SyncThreadAsks ==
    ASSUME Types, AskInv, SyncStep, ~BeginLinking, ~UseLink
    PROVE  AskInv'
<1> USE ThreadsExist, PlacesExist
<1>0. SameCourse /\ UNCHANGED <<up, toNode, fromNode>> /\ WireKept
  <2>1. UNCHANGED <<up, toNode, fromNode>>
    BY DEF SyncStep, Wake, WakeStalled, WakeLinking, WakeRequested, WakeAuto,
        ExpirePath, Retry, StartSync, Lookup, AskLink, link, node
  <2> QED BY <2>1, SyncThreadCourse, SameWire
<1>1. CASE WakeStalled
  <2> DEFINE s == IF sync.phase = "Linking" THEN "expire" ELSE "finish"
  <2>1. s \in {"expire", "finish"} /\ Goto("sync", s) /\ work["sync"].at = "rest"
    BY <1>1 DEF WakeStalled, At
  <2> HIDE DEF s
  <2> QED BY <1>0, <2>1, PlainGoto
<1>2. CASE WakeLinking \/ WakeRequested \/ WakeAuto
  <2>1. /\ work["sync"].at = "rest"
        /\ Goto("sync", "retry") \/ Goto("sync", "start") \/ Done("sync")
    BY <1>2 DEF WakeLinking, WakeRequested, WakeAuto, At
  <2> QED BY <1>0, <2>1, SamplingGoto, SamplingDone
<1>3. CASE ExpirePath
  BY <1>0, <1>3, PlainGoto DEF ExpirePath, At, Busy
<1>4. CASE Retry
  <2>1. work["sync"].at = "retry" /\ (Done("sync") \/ Goto("sync", "finish"))
    BY <1>4 DEF Retry, SendLinkRequest, At
  <2> QED BY <1>0, <2>1, PlainGoto, SamplingDone
<1>5. CASE AskLink
  <2>1. work["sync"].at = "ask" /\ (Done("sync") \/ Goto("sync", "finish")) /\ Busy("sync")
    BY <1>5 DEF AskLink, SendLinkRequest, At, Busy
  <2> QED BY <1>0, <2>1, PlainGoto, PlainDone
<1>6. CASE StartSync
  <2>1. /\ work["sync"].at = "start"
        /\ \/ Done("sync") \/ Goto("sync", "finish")
           \/ Goto("sync", "begin") /\ sync.phase = "Idle"
    BY <1>6 DEF StartSync, At
  <2> QED BY <1>0, <2>1, PlainGoto, SamplingGoto, SamplingDone
<1>7. CASE Lookup
  <2>1. work["sync"].at = "lookup" /\ Busy("sync")  BY <1>7 DEF Lookup, At, Busy
  <2>2. CASE up = 0
    BY <1>0, <1>7, <2>1, <2>2, PlainGoto DEF Lookup
  <2>3. CASE up # 0
    <3>0. TypeOK /\ WorkTyped  BY DEF Types
    <3>1. PICK w \in Works : Moved("sync", w) /\ w.at = "have" /\ w.l = up
      BY <1>7, <2>3, <3>0, LookupMoves
    <3>2. Turn("sync") => InStep(w)
      BY <2>1, <3>1 DEF Turn, InStep
    <3> QED BY <1>0, <2>1, <3>0, <3>1, <3>2, PlainTurn
  <2> QED BY <2>2, <2>3
<1> QED BY <1>1, <1>2, <1>3, <1>4, <1>5, <1>6, <1>7 DEF SyncStep, Wake

\* Only the sync thread begins a sync.
OneBeginner == \A r \in Readers : work[r].at # "begin"

LEMMA BeginnerStep ==
    ASSUME Types, OneBeginner, [Next]_vars
    PROVE  OneBeginner'
<1> USE ThreadsExist, PlacesExist
<1>0. TypeOK /\ WorkTyped /\ WireTyped  BY DEF Types
<1>1. ASSUME NEW th \in Threads, NEW w \in Works, Moved(th, w), w.at # "begin"
      PROVE  OneBeginner'
  BY <1>1 DEF OneBeginner, Moved
<1>2. ASSUME NEW th \in Threads, Done(th) PROVE OneBeginner'
  BY <1>0, <1>1, <1>2, DoneMoves, RestType
<1>3. ASSUME NEW th \in Threads, NEW s \in Places, Goto(th, s), s # "begin" PROVE OneBeginner'
  BY <1>0, <1>1, <1>3, GotoMoves
<1>4. ASSUME NEW th \in Threads, AnyThread(th) PROVE OneBeginner'
  <2>1. CASE Finish(th)
    BY <1>0, <1>1, <2>1, FinishMoves
  <2> QED BY <1>2, <1>3, <1>4, <2>1 DEF AnyThread, DropOutLink, IdentifyAndList, SendList
<1>5. ASSUME SyncStep PROVE OneBeginner'
  <2>1. ASSUME NEW r \in Readers PROVE work'[r] = work[r]
    <3>1. CASE BeginLinking
      BY <3>1, SyncThreads DEF BeginLinking
    <3>2. CASE ~BeginLinking
      <4>1. \E w : Step("sync", w)
        BY <1>5, <3>2 DEF SyncStep, Wake, WakeStalled, WakeLinking, WakeRequested, WakeAuto,
            ExpirePath, Retry, StartSync, Lookup, UseLink, AskLink, SendLinkRequest, Goto, Done
      <4> QED BY <1>0, <4>1, OtherStays, SyncThreads
    <3> QED BY <3>1, <3>2
  <2> QED BY <2>1 DEF OneBeginner
<1>6. ASSUME NEW r \in Readers, ReaderStep(r) PROVE OneBeginner'
  <2>1. CASE VerifyAnswer(r)
    <3>1. CASE Step(r, [work[r] EXCEPT !.at = "clear", !.ans = sync.receiver])
      BY <1>0, <1>1, <3>1, VerifyMoves
    <3> QED BY <1>2, <1>3, <2>1, <3>1 DEF VerifyAnswer
  <2>2. CASE DeliverSynced(r)
    <3> DEFINE s == IF work[r].ans.ids = {} THEN "finish" ELSE "confirm"
    <3>1. s \in Places /\ s # "begin" /\ Goto(r, s)  BY <2>2 DEF DeliverSynced
    <3> QED BY <1>3, <3>1
  <2>3. CASE OnLinkUp(r) \/ Advertised(r) \/ AssembleAnswer(r) \/ ClearReceiver(r)
    BY <1>2, <1>3, <2>3 DEF OnLinkUp, Advertised, AssembleAnswer, ClearReceiver
  <2>4. CASE HandleResponse(r) \/ SendGet(r) \/ GetRequested(r) \/ Confirm(r)
    BY <1>2, <1>3, <2>4 DEF HandleResponse, SendGet, GetRequested, Confirm
  <2> QED BY <1>6, <2>1, <2>2, <2>3, <2>4 DEF ReaderStep
<1>7. ASSUME NEW r \in Readers, LinkProof(r) \/ Receive(r) \/ OutLinkClosed(r)
      PROVE  OneBeginner'
  <2>1. CASE LinkProof(r)
    BY <1>0, <1>1, <2>1, LinkProofMoves
  <2>2. CASE Receive(r)
    BY <1>0, <1>1, <1>2, <2>2, ReceiveMoves
  <2>3. CASE OutLinkClosed(r)
    BY <1>2, <1>3, <2>3 DEF OutLinkClosed
  <2> QED BY <1>7, <2>1, <2>2, <2>3
<1>8. ASSUME ConnectionLost \/ EndSync PROVE OneBeginner'
  BY <1>2, <1>3, <1>8 DEF ConnectionLost, EndSync
<1>9. ASSUME \/ Connect \/ request_sync \/ Announce \/ OutboxAsks \/ Lose
             \/ NodeServes \/ UNCHANGED vars
      PROVE  OneBeginner'
  <2>1. UNCHANGED work
    BY <1>9 DEF Connect, request_sync, Announce, OutboxAsks, Lose, NodeServes, vars
  <2> QED BY <2>1 DEF OneBeginner
<1> QED BY <1>4, <1>5, <1>6, <1>7, <1>8, <1>9 DEF Next

\* A new sync: on the link that is up, if there is one, nothing is left.
LEMMA BeginAsks ==
    ASSUME Types, OneBeginner, AskInv, BeginLinking
    PROVE  AskInv'
<1> USE ThreadsExist
<1> SUFFICES ASSUME ~overlap' PROVE AskInv'
  BY DEF AskInv
<1>0. TypeOK /\ WorkTyped /\ sync \in SyncStates  BY TypeFields DEF Types
<1>1. PICK w \in Works :
              /\ w.at = "lookup" /\ w.l = work["sync"].l
              /\ work' \in [Threads -> Works] /\ work'["sync"] = w
              /\ \A o \in Threads : o # "sync" => work'[o] = work[o]
              /\ overlap' = ((overlap /\ up # 0) \/ OthersBusy("sync"))
  BY <1>0, BeginMoves
<1>2. sync'.phase = "Linking" /\ sync'.link = 0 /\ sync'.receiver = NoAns
  BY <1>0, BeginType
<1>3. UNCHANGED <<up, toNode, fromNode>> /\ work["sync"].at = "begin"
  BY DEF BeginLinking, link, node, At
<1>4. ~(overlap /\ up # 0) /\ \A o \in Threads : o # "sync" => work[o].at \in Sampling
  BY <1>1 DEF OthersBusy
<1>5. \A o \in Threads : o # "sync" => work[o].at # "begin"
  BY DEF OneBeginner, Threads
<1>6. \A o \in Threads : InStep(work[o])'
  <2>1. InStep(w)'  BY <1>1, <1>2 DEF InStep
  <2>2. InStep(work["sync"])'  BY <1>1, <2>1
  <2>3. ASSUME NEW o \in Threads, o # "sync" PROVE InStep(work[o])'
    BY <1>1, <1>4, <1>5, <2>3 DEF InStep, Sampling
  <2> QED BY <2>2, <2>3
<1>7. Received' /\ ~OurLink'
  BY <1>2 DEF Received, Nothing, OurLink, Asking
<1>8. up' # 0 => Quiet'
  <2> SUFFICES ASSUME up # 0 PROVE Quiet
    BY <1>3 DEF Quiet
  <2>1. InStep(work["sync"])  BY <1>4 DEF AskInv
  <2>2. ~OurLink  BY <1>3, <2>1 DEF InStep, OurLink, Asking
  <2>3. \A o \in Threads : work[o].at # "drop"  BY <1>3, <1>4 DEF Sampling
  <2> QED BY <1>4, <2>2, <2>3 DEF AskInv
<1> QED BY <1>1, <1>4, <1>6, <1>7, <1>8 DEF AskInv

LEMMA UseLinkAsks ==
    ASSUME Types, AskInv, UseLink
    PROVE  AskInv'
<1> USE ThreadsExist, PlacesExist
<1> SUFFICES ASSUME ~overlap' PROVE AskInv'
  BY DEF AskInv
<1>0. TypeOK /\ WorkTyped  BY DEF Types
<1>1. PICK w \in Works : /\ Moved("sync", w)
                         /\ w.at = "list" /\ w.l = work["sync"].l /\ w.ans = work["sync"].ans
  BY <1>0, GotoMoves DEF UseLink
<1>2. work["sync"].at = "have" /\ Busy("sync")  BY DEF UseLink, At, Busy
<1>3. Turn("sync")  BY <1>0, <1>1, <1>2, MyTurn
<1>4. /\ sync'.phase = sync.phase /\ sync'.receiver = sync.receiver
      /\ sync'.link = work["sync"].l
  BY CourseChanges
<1>5. UNCHANGED <<up, toNode, fromNode>>  BY DEF UseLink, link, node
<1>6. sync.phase = "Linking" /\ ~Asking /\ (up # 0 => Quiet)
  BY <1>2, <1>3 DEF Turn, InStep, OurLink, Asking
<1>7. InStep(w)' /\ Received' /\ ~OurLink' /\ (up' # 0 => Quiet')
  BY <1>1, <1>3, <1>4, <1>5, <1>6
     DEF InStep, Turn, Received, Nothing, Asking, Expected, OurLink, Quiet
<1> QED BY <1>0, <1>1, <1>2, <1>4, <1>7, TurnLeft

\* A link proof: the new link is one that nothing was ever sent on.
LEMMA LinkProofAsks ==
    ASSUME Types, AskInv, NEW r \in Readers, LinkProof(r)
    PROVE  AskInv'
<1> USE ThreadsExist, PlacesExist
<1> SUFFICES ASSUME ~overlap' PROVE AskInv'
  BY DEF AskInv
<1>0. TypeOK /\ WorkTyped /\ PendIsNew  BY DEF Types
<1>1. PICK w \in Works : Moved(r, w) /\ w.at = "linkup" /\ w.l = pend
  BY <1>0, LinkProofMoves
<1>2. /\ UNCHANGED <<sync, toNode>> /\ up' = pend /\ pend # 0 /\ fromNode' = <<>>
      /\ work[r].at = "rest"
  BY DEF LinkProof, At
<1>3. Turn(r)  BY <1>0, <1>1, MyTurn
<1>4. ~OurLink' /\ Quiet'
  BY <1>0, <1>2 DEF PendIsNew, OurLink, Quiet, QuietOn
<1>5. InStep(w)' /\ Received'
  BY <1>1, <1>2, <1>3 DEF InStep, Turn, Received, Nothing, Asking, Expected
<1> QED BY <1>0, <1>1, <1>2, <1>4, <1>5, TurnLeft

LEMMA OnLinkUpAsks ==
    ASSUME Types, AskInv, NEW r \in Readers, OnLinkUp(r)
    PROVE  AskInv'
<1> USE ThreadsExist, PlacesExist
<1>0. TypeOK /\ WorkTyped  BY DEF Types
<1>1. work[r].at = "linkup" /\ Busy(r) /\ UNCHANGED <<up, toNode, fromNode>>
  BY DEF OnLinkUp, At, Busy, link, node
<1>2. CASE sync.phase # "Linking"
  BY <1>1, <1>2, PlainDone DEF OnLinkUp, SameCourse
<1>3. CASE sync.phase = "Linking"
  <2> SUFFICES ASSUME ~overlap' PROVE AskInv'
    BY DEF AskInv
  <2>1. PICK w \in Works : /\ Moved(r, w)
                           /\ w.at = "list" /\ w.l = work[r].l /\ w.ans = work[r].ans
    BY <1>0, <1>3, GotoMoves DEF OnLinkUp
  <2>2. Turn(r)  BY <1>0, <1>1, <2>1, MyTurn
  <2>3. /\ sync'.phase = sync.phase /\ sync'.receiver = sync.receiver
        /\ sync'.link = work[r].l
    BY <1>3, CourseChanges
  <2>4. ~Asking /\ (up # 0 => Quiet)
    BY <1>1, <1>3, <2>2 DEF Turn, OurLink, Asking
  <2>5. InStep(w)' /\ Received' /\ ~OurLink' /\ (up' # 0 => Quiet')
    BY <1>1, <1>3, <2>1, <2>2, <2>3, <2>4
       DEF InStep, Turn, Received, Nothing, Asking, Expected, OurLink, Quiet
  <2> QED BY <1>0, <1>1, <2>1, <2>3, <2>5, TurnLeft
<1> QED BY <1>2, <1>3

\* An answer: it is of the kind the sync expects, and the last on the link.
LEMMA ReceiveAsks ==
    ASSUME Types, AskInv, NEW r \in Readers, Receive(r)
    PROVE  AskInv'
<1> USE ThreadsExist, PlacesExist
<1>0. TypeOK /\ WorkTyped /\ WireTyped /\ fromNode \in Seq(Answers)
  BY DEF Types, WireTyped
<1>1. /\ UNCHANGED <<sync, up, toNode>> /\ fromNode # <<>> /\ fromNode' = Tail(fromNode)
      /\ work[r].at = "rest" /\ Head(fromNode).form # "close"
  BY DEF Receive, At, link
<1>2. CASE Done(r)
  <2>1. ASSUME NEW k, NEW n, TrafficOn(toNode, fromNode, up, k, n)
        PROVE  TrafficOn(toNode', fromNode', up, k, n)
    BY <1>0, <1>1, <2>1, AnswerGone, QuietIsTraffic
  <2>2. WireKept
    BY <1>0, <1>1, <2>1, AnswerGone DEF WireKept
  <2> QED BY <1>1, <1>2, <2>2, SamplingDone DEF SameCourse
<1>3. CASE ~Done(r)
  <2> SUFFICES ASSUME ~overlap' PROVE AskInv'
    BY DEF AskInv
  <2>1. PICK w \in Works :
              /\ Moved(r, w) /\ w.at = Head(fromNode).form /\ w.l = up /\ up # 0
              /\ w.ans = Head(fromNode) /\ w.at \in {"packet", "adv", "part"}
              /\ sync.link = up /\ sync.phase # "Idle"
              /\ w.at = "part" => sync.receiver # NoAns
    BY <1>0, <1>3, ReceiveMoves
  <2>2. w.at \notin Sampling  BY <2>1 DEF Sampling
  <2>3. Turn(r)  BY <1>0, <2>1, <2>2, MyTurn
  <2>4. OurLink /\ Traffic
    <3>1. ~Quiet  BY <1>1 DEF Quiet, QuietOn
    <3> QED BY <1>1, <2>1, <2>3, <3>1 DEF Turn
  <2>5. QuietOn(toNode, Tail(fromNode), up) /\ Allowed(Head(fromNode), Expected, Nothing)
    BY <1>0, <1>1, <2>4, AnswerGone DEF Traffic
  <2>6. /\ Quiet' /\ Traffic' /\ OurLink' /\ Asking' /\ Received'
        /\ Expected' = Expected /\ Nothing' = Nothing
    <3>1. Quiet'  BY <1>1, <2>5 DEF Quiet
    <3>2. Traffic'  BY <3>1, QuietIsTraffic DEF Quiet, Traffic
    <3> QED BY <1>1, <2>3, <2>4, <3>1, <3>2
            DEF Turn, OurLink, Asking, Received, Expected, Nothing
  <2>7. \/ w.at = "packet" /\ (w.ans.kind = "error" \/ (Nothing /\ w.ans.kind = Expected))
        \/ w.at = "adv" /\ Nothing /\ w.ans.kind = Expected
        \/ w.at = "part"
    BY <2>1, <2>5 DEF Allowed
  <2>8. InStep(w)'
    BY <1>1, <2>1, <2>6, <2>7 DEF InStep, OnTheSync
  <2> QED BY <1>0, <1>1, <2>1, <2>2, <2>6, <2>8, TurnLeft
<1> QED BY <1>2, <1>3

LEMMA ClosedAsks ==
    ASSUME Types, AskInv, NEW r \in Readers, OutLinkClosed(r)
    PROVE  AskInv'
<1> USE ThreadsExist, PlacesExist
<1>0. TypeOK /\ WorkTyped  BY DEF Types
<1>1. /\ UNCHANGED sync /\ up' = 0 /\ work[r].at = "rest"
      /\ Goto(r, "finish") \/ Done(r)
  BY DEF OutLinkClosed, At
<1>2. CASE Done(r)
  BY <1>1, <1>2, SamplingDone DEF SameCourse, WireKept
<1>3. CASE Goto(r, "finish")
  <2> SUFFICES ASSUME ~overlap' PROVE AskInv'
    BY DEF AskInv
  <2>1. PICK w \in Works : /\ Moved(r, w)
                           /\ w.at = "finish" /\ w.l = work[r].l /\ w.ans = work[r].ans
    BY <1>0, <1>3, GotoMoves
  <2>2. Turn(r)  BY <1>0, <2>1, MyTurn
  <2>3. InStep(w)' /\ Received'
    BY <1>1, <2>1, <2>2 DEF InStep, Turn, Received, Nothing, Asking, Expected
  <2> QED BY <1>0, <1>1, <2>1, <2>3, TurnLeft
<1> QED BY <1>1, <1>2, <1>3

\* The answer comes as a Resource: its parts are the next thing to come.
LEMMA AdvertisedAsks ==
    ASSUME Types, AskInv, NEW r \in Readers, Advertised(r)
    PROVE  AskInv'
<1> USE ThreadsExist, PlacesExist
<1>0. TypeOK /\ WorkTyped /\ WireTyped /\ toNode \in Seq(Requests) /\ sync \in SyncStates
  BY TypeFields DEF Types, WireTyped
<1>1. /\ work[r].at = "adv" /\ Busy(r) /\ UNCHANGED <<up, fromNode>>
  BY DEF Advertised, At, Busy, link
<1>2. CASE Goto(r, "finish") /\ UNCHANGED <<sync, toNode>>
  BY <1>1, <1>2, PlainGoto DEF SameCourse
<1>3. CASE /\ sync' = [sync EXCEPT !.receiver = work[r].ans]
           /\ Send(work[r].l, "parts", {}) /\ Done(r)
  <2> SUFFICES ASSUME ~overlap' PROVE AskInv'
    BY DEF AskInv
  <2>1. Moved(r, Rest) /\ Rest \in Works /\ Rest.at = "rest"
    BY <1>0, <1>3, DoneMoves, RestType
  <2>2. Turn(r)  BY <1>0, <1>1, <2>1, MyTurn
  <2>3. /\ sync'.phase = sync.phase /\ sync'.link = sync.link
        /\ sync'.receiver = work[r].ans
    BY <1>0, <1>3 DEF SyncStates
  <2>4. /\ Asking /\ work[r].l = sync.link /\ (work[r].l = up => Quiet)
        /\ work[r].ans.kind = Expected
    BY <1>1, <2>2 DEF Turn, InStep, OnTheSync
  <2>5. Asking' /\ Expected' = Expected /\ Received' /\ InStep(Rest)'
    BY <2>1, <2>3, <2>4 DEF Asking, Expected, Received, InStep, Rest
  <2>6. ASSUME up' # 0, ~OurLink' PROVE Quiet'
    <3>1. up # work[r].l /\ ~OurLink /\ up # 0
      BY <1>1, <2>3, <2>4, <2>5, <2>6 DEF OurLink
    <3>2. toNode' = toNode  BY <1>3, <3>1 DEF Send
    <3> QED BY <1>1, <2>2, <3>1, <3>2 DEF Turn, Quiet
  <2>7. ASSUME up' # 0, OurLink' PROVE Traffic'
    <3> DEFINE q == [l |-> work[r].l, req |-> "parts", ids |-> {}]
    <3>1. work[r].l = up /\ up # 0 /\ Quiet  BY <1>1, <2>3, <2>4, <2>7 DEF OurLink
    <3>2. toNode' = Append(toNode, q)  BY <1>3, <3>1 DEF Send
    <3>3. q \in Requests /\ q.l = up /\ q.req = "parts"
      BY <1>0, <3>1, TypeFields DEF Requests
    <3> HIDE DEF q
    <3>4. \A k, n : TrafficOn(Append(toNode, q), fromNode, up, k, n)
      BY <1>0, <3>1, <3>3, RequestOut DEF Quiet
    <3> QED BY <1>1, <3>2, <3>4 DEF Traffic
  <2> QED BY <1>0, <1>1, <2>1, <2>3, <2>5, <2>6, <2>7, TurnLeft
<1> QED BY <1>2, <1>3 DEF Advertised

LEMMA VerifyAsks ==
    ASSUME Types, AskInv, NEW r \in Readers, VerifyAnswer(r)
    PROVE  AskInv'
<1> USE ThreadsExist, PlacesExist
<1>0. TypeOK /\ WorkTyped  BY DEF Types
<1>1. /\ work[r].at = "verify" /\ Busy(r) /\ SameCourse /\ UNCHANGED <<up, toNode, fromNode>>
  BY DEF VerifyAnswer, At, Busy, link, node, SameCourse
<1>2. CASE Done(r) \/ Goto(r, "finish")
  BY <1>1, <1>2, PlainDone, PlainGoto
<1>3. CASE /\ sync.receiver # NoAns
           /\ Step(r, [work[r] EXCEPT !.at = "clear", !.ans = sync.receiver])
  <2>1. PICK w \in Works : /\ Moved(r, w)
                           /\ w.at = "clear" /\ w.l = work[r].l /\ w.ans = sync.receiver
    BY <1>0, <1>3, VerifyMoves
  <2>2. Turn(r) => InStep(w)
    BY <1>1, <1>3, <2>1 DEF Turn, InStep, OnTheSync, Received, Nothing
  <2> QED BY <1>0, <1>1, <2>1, <2>2, PlainTurn
<1> QED BY <1>2, <1>3 DEF VerifyAnswer

LEMMA ClearAsks ==
    ASSUME Types, AskInv, NEW r \in Readers, ClearReceiver(r)
    PROVE  AskInv'
<1> USE ThreadsExist, PlacesExist
<1> SUFFICES ASSUME ~overlap' PROVE AskInv'
  BY DEF AskInv
<1>0. TypeOK /\ WorkTyped  BY DEF Types
<1>1. PICK w \in Works : /\ Moved(r, w)
                         /\ w.at = "packet" /\ w.l = work[r].l /\ w.ans = work[r].ans
  BY <1>0, GotoMoves DEF ClearReceiver
<1>2. work[r].at = "clear" /\ Busy(r) /\ UNCHANGED <<up, toNode, fromNode>>
  BY DEF ClearReceiver, At, Busy, link, node
<1>3. Turn(r)  BY <1>0, <1>1, <1>2, MyTurn
<1>4. /\ sync'.phase = sync.phase /\ sync'.link = sync.link /\ sync'.receiver = NoAns
  BY CourseChanges
<1>5. /\ Asking /\ work[r].l = sync.link /\ (work[r].l = up => Quiet)
      /\ work[r].ans.kind = Expected
  BY <1>2, <1>3 DEF Turn, InStep, OnTheSync
<1>6. /\ Asking' /\ Expected' = Expected /\ Nothing' /\ Received' /\ Quiet' = Quiet
      /\ OurLink' = OurLink
  BY <1>2, <1>4, <1>5 DEF Asking, Expected, Nothing, Received, Quiet, OurLink
<1>7. InStep(w)'
  BY <1>1, <1>2, <1>4, <1>5, <1>6 DEF InStep, OnTheSync
<1>8. up' # 0 /\ ~OurLink' => Quiet'
  BY <1>2, <1>3, <1>6 DEF Turn
<1>9. up' # 0 /\ OurLink' => Traffic'
  <2>1. OurLink => Quiet  BY <1>5 DEF OurLink
  <2> QED BY <1>6, <2>1, QuietIsTraffic DEF Quiet, Traffic
<1> QED BY <1>0, <1>1, <1>2, <1>4, <1>6, <1>7, <1>8, <1>9, TurnLeft

\* The list is here and quiet is the link: the messages can be asked for.
LEMMA SendGetAsks ==
    ASSUME Types, AskInv, NEW r \in Readers, SendGet(r)
    PROVE  AskInv'
<1> USE ThreadsExist, PlacesExist
<1>0. TypeOK /\ WorkTyped /\ WireTyped /\ toNode \in Seq(Requests)
      /\ work[r].ans.ids \in SUBSET Msgs
  BY ReaderAns DEF Types, WireTyped
<1>1. /\ work[r].at = "listed" /\ Busy(r) /\ UNCHANGED <<sync, up, fromNode>>
  BY DEF SendGet, At, Busy, link
<1>2. CASE Goto(r, "finish") /\ UNCHANGED toNode
  BY <1>1, <1>2, PlainGoto DEF SameCourse
<1>3. ASSUME NEW ids \in SUBSET Msgs, Send(work[r].l, "get", ids), Goto(r, "getting")
      PROVE  AskInv'
  <2> SUFFICES ASSUME ~overlap' PROVE AskInv'
    BY DEF AskInv
  <2>1. PICK w \in Works : /\ Moved(r, w)
                           /\ w.at = "getting" /\ w.l = work[r].l /\ w.ans = work[r].ans
    BY <1>0, <1>3, GotoMoves
  <2>2. Turn(r)  BY <1>0, <1>1, <2>1, MyTurn
  <2>3. /\ sync.phase = "ListRequested" /\ Nothing /\ Asking
        /\ work[r].l = sync.link /\ (work[r].l = up => Quiet)
    BY <1>1, <2>2 DEF Turn, InStep, OnTheSync
  <2>4. /\ Asking' = Asking /\ Nothing' = Nothing /\ Received' /\ OurLink' = OurLink
    BY <1>1, <2>2 DEF Turn, Asking, Expected, Nothing, Received, OurLink
  <2>5. ASSUME up' # 0, ~OurLink' PROVE Quiet'
    <3>1. up # work[r].l /\ up # 0 /\ ~OurLink
      BY <1>1, <2>3, <2>4, <2>5 DEF OurLink
    <3>2. toNode' = toNode  BY <1>3, <3>1 DEF Send
    <3> QED BY <1>1, <2>2, <3>1, <3>2 DEF Turn, Quiet
  <2>6. w.l = up' => TrafficOn(toNode', fromNode', up', "blobs", TRUE)
    <3> SUFFICES ASSUME work[r].l = up
                 PROVE  TrafficOn(toNode', fromNode', up', "blobs", TRUE)
      BY <1>1, <2>1
    <3> DEFINE q == [l |-> work[r].l, req |-> "get", ids |-> ids]
    <3>2. toNode' = Append(toNode, q)  BY <1>3 DEF Send
    <3>3. q \in Requests /\ q.l = up /\ q.req = "get"
      <4>1. work[r].l \in 1..MaxLinks
        BY <1>0, <1>1, TypeFields DEF WorkTyped
      <4> QED BY <4>1 DEF Requests
    <3> HIDE DEF q
    <3>4. TrafficOn(Append(toNode, q), fromNode, up, "blobs", TRUE)
      BY <1>0, <2>3, <3>3, RequestOut DEF Quiet, Verb
    <3> QED BY <1>1, <3>2, <3>4
  <2>7. InStep(w)'
    BY <1>1, <2>1, <2>3, <2>4, <2>6 DEF InStep
  <2>8. sync'.phase = sync.phase  BY <1>1
  <2> QED BY <1>0, <1>1, <2>1, <2>4, <2>5, <2>7, <2>8, TurnLeft
<1>4. \/ Goto(r, "finish") /\ UNCHANGED toNode
      \/ \E ids \in SUBSET Msgs : Send(work[r].l, "get", ids) /\ Goto(r, "getting")
  BY <1>0 DEF SendGet
<1> QED BY <1>2, <1>3, <1>4

LEMMA GetRequestedAsks ==
    ASSUME Types, AskInv, NEW r \in Readers, GetRequested(r)
    PROVE  AskInv'
<1> USE ThreadsExist, PlacesExist
<1> SUFFICES ASSUME ~overlap' PROVE AskInv'
  BY DEF AskInv
<1>0. TypeOK /\ WorkTyped  BY DEF Types
<1>1. Moved(r, Rest) /\ Rest \in Works /\ Rest.at = "rest"
  BY <1>0, DoneMoves, RestType DEF GetRequested
<1>2. work[r].at = "getting" /\ Busy(r) /\ UNCHANGED <<up, toNode, fromNode>>
  BY DEF GetRequested, At, Busy, link, node
<1>3. Turn(r)  BY <1>0, <1>1, <1>2, MyTurn
<1>4. /\ sync'.phase = "GetRequested" /\ sync'.link = sync.link
      /\ sync'.receiver = sync.receiver
  BY CourseChanges
<1>5. /\ sync.phase = "ListRequested" /\ Nothing /\ work[r].l = sync.link
      /\ work[r].l = up => TrafficOn(toNode, fromNode, up, "blobs", TRUE)
  BY <1>2, <1>3 DEF Turn, InStep
<1>6. /\ Asking /\ Asking' /\ Expected' = "blobs" /\ Nothing' = TRUE /\ Received'
      /\ Quiet' = Quiet /\ OurLink' = OurLink
  BY <1>2, <1>4, <1>5 DEF Asking, Expected, Nothing, Received, Quiet, OurLink
<1>7. InStep(Rest)'  BY <1>1 DEF InStep, Rest
<1>8. up' # 0 /\ ~OurLink' => Quiet'
  BY <1>2, <1>3, <1>6 DEF Turn
<1>9. up' # 0 /\ OurLink' => Traffic'
  BY <1>2, <1>5, <1>6 DEF OurLink, Traffic
<1> QED BY <1>0, <1>1, <1>2, <1>5, <1>6, <1>7, <1>8, <1>9, TurnLeft

\* The confirmation ends the sync: whatever answers it is dropped with the link.
LEMMA ConfirmAsks ==
    ASSUME Types, AskInv, NEW r \in Readers, Confirm(r)
    PROVE  AskInv'
<1> USE ThreadsExist, PlacesExist
<1> SUFFICES ASSUME ~overlap' PROVE AskInv'
  BY DEF AskInv
<1>0. TypeOK /\ WorkTyped  BY DEF Types
<1>1. PICK w \in Works : /\ Moved(r, w)
                         /\ w.at = "finish" /\ w.l = work[r].l /\ w.ans = work[r].ans
  BY <1>0, GotoMoves DEF Confirm
<1>2. work[r].at = "confirm" /\ Busy(r) /\ UNCHANGED <<sync, up, fromNode>>
  BY DEF Confirm, At, Busy, link
<1>3. Turn(r)  BY <1>0, <1>1, <1>2, MyTurn
<1>4. Asking /\ work[r].l = sync.link
  BY <1>2, <1>3 DEF Turn, InStep, OnTheSync
<1>5. OurLink' = OurLink /\ Received' /\ InStep(w)'
  BY <1>1, <1>2, <1>3 DEF OurLink, Turn, Received, Nothing, Asking, Expected, InStep
<1>6. ASSUME up' # 0, ~OurLink' PROVE Quiet'
  <2>1. up # work[r].l /\ up # 0 /\ ~OurLink  BY <1>2, <1>4, <1>5, <1>6 DEF OurLink
  <2>2. toNode' = toNode  BY <2>1 DEF Confirm, Send
  <2> QED BY <1>2, <1>3, <2>1, <2>2 DEF Turn, Quiet
<1>7. sync'.phase = sync.phase  BY <1>2
<1> QED BY <1>0, <1>1, <1>2, <1>5, <1>6, <1>7, TurnLeft

LEMMA OtherReadersAsk ==
    ASSUME Types, AskInv, NEW r \in Readers,
           AssembleAnswer(r) \/ HandleResponse(r) \/ DeliverSynced(r)
    PROVE  AskInv'
<1> USE ThreadsExist, PlacesExist
<1>1. SameCourse /\ UNCHANGED <<up, toNode, fromNode>>
  BY DEF AssembleAnswer, HandleResponse, DeliverSynced, link, node, SameCourse
<1>2. CASE AssembleAnswer(r)
  <2>1. /\ work[r].at = "part" /\ Busy(r)
        /\ Done(r) \/ Goto(r, "finish") \/ Goto(r, "verify")
    BY <1>2 DEF AssembleAnswer, At, Busy
  <2> QED BY <1>1, <2>1, PlainDone, PlainGoto
<1>3. CASE HandleResponse(r)
  <2>1. work[r].at = "packet" /\ Busy(r)
    BY <1>3 DEF HandleResponse, At, Busy
  <2>2. \/ Done(r) \/ Goto(r, "finish")
        \/ Goto(r, "listed") /\ work[r].ans.kind # "error" /\ sync.phase = "ListRequested"
        \/ Goto(r, "blobs") /\ work[r].ans.kind # "error" /\ sync.phase = "GetRequested"
    BY <1>3 DEF HandleResponse
  <2> QED BY <1>1, <2>1, <2>2, PlainDone, PlainGoto
<1>4. CASE DeliverSynced(r)
  <2> DEFINE s == IF work[r].ans.ids = {} THEN "finish" ELSE "confirm"
  <2>1. s \in {"finish", "confirm"} /\ Goto(r, s) /\ work[r].at = "blobs" /\ Busy(r)
    BY <1>4 DEF DeliverSynced, At, Busy
  <2> HIDE DEF s
  <2> QED BY <1>1, <2>1, PlainGoto
<1> QED BY <1>2, <1>3, <1>4

\* The connection manager, the network, the node and the outbox.
LEMMA EnvironmentAsks ==
    ASSUME Types, AskInv,
           \/ ConnectionLost \/ EndSync \/ Connect \/ request_sync
           \/ Announce \/ OutboxAsks \/ Lose \/ NodeServes \/ UNCHANGED vars
    PROVE  AskInv'
<1> USE ThreadsExist, PlacesExist
<1>0. /\ WorkTyped /\ toNode \in Seq(Requests) /\ fromNode \in Seq(Answers)
  BY DEF Types, WireTyped
<1>1. ASSUME SameCourse, WireKept, UNCHANGED <<work, overlap>> PROVE AskInv'
  BY <1>0, <1>1, OthersTurn
<1>2. CASE ConnectionLost
  BY <1>2, SamplingGoto DEF ConnectionLost, At, SameCourse, WireKept
<1>3. CASE EndSync
  <2>1. /\ work[Hub].at = "lost" /\ SameCourse /\ UNCHANGED <<up, toNode, fromNode>>
        /\ Done(Hub) \/ Goto(Hub, "finish")
    BY <1>3 DEF EndSync, At, SameCourse, link, node
  <2> QED BY <2>1, SameWire, SamplingDone, PlainGoto
<1>4. CASE Connect \/ request_sync \/ Announce \/ OutboxAsks \/ UNCHANGED vars
  <2>1. UNCHANGED <<work, overlap, up, toNode, fromNode>>
    BY <1>4 DEF Connect, request_sync, Announce, OutboxAsks, vars, link, node
  <2>2. SameCourse
    BY <1>4, RequestCourse DEF Connect, Announce, OutboxAsks, vars, SameCourse
  <2> QED BY <1>1, <2>1, <2>2, SameWire
<1>5. CASE Lose
  <2>1. UNCHANGED <<sync, work, overlap>>  BY <1>5 DEF Lose
  <2>2. \/ up' = 0
        \/ UNCHANGED <<up, toNode, fromNode>>
        \/ toNode # <<>> /\ toNode' = Tail(toNode) /\ UNCHANGED <<up, fromNode>>
        \/ fromNode # <<>> /\ fromNode' = Tail(fromNode) /\ UNCHANGED <<up, toNode>>
    BY <1>5 DEF Lose, LoseLink
  <2>3. WireKept
    <3>1. CASE toNode # <<>> /\ toNode' = Tail(toNode) /\ UNCHANGED <<up, fromNode>>
      BY <1>0, <3>1, RequestGone DEF WireKept
    <3>2. CASE fromNode # <<>> /\ fromNode' = Tail(fromNode) /\ UNCHANGED <<up, toNode>>
      <4>1. ASSUME NEW k, NEW n, TrafficOn(toNode, fromNode, up, k, n)
            PROVE  TrafficOn(toNode', fromNode', up, k, n)
        BY <1>0, <3>2, <4>1, AnswerGone, QuietIsTraffic
      <4> QED BY <1>0, <3>2, <4>1, AnswerGone DEF WireKept
    <3> QED BY <2>2, <3>1, <3>2, SameWire DEF WireKept
  <2> QED BY <1>1, <2>1, <2>3 DEF SameCourse
<1>6. CASE NodeServes
  BY <1>1, <1>6, NodeKeeps DEF NodeServes, SameCourse
<1> QED BY <1>2, <1>3, <1>4, <1>5, <1>6

LEMMA AskStep ==
    ASSUME Types, OneBeginner, AskInv, [Next]_vars
    PROVE  AskInv'
<1>1. ASSUME NEW th \in Threads, AnyThread(th) PROVE AskInv'
  BY <1>1, FinishAsks, DropAsks, IdentifyAsks, SendListAsks DEF AnyThread
<1>2. ASSUME SyncStep PROVE AskInv'
  BY <1>2, BeginAsks, UseLinkAsks, SyncThreadAsks
<1>3. ASSUME NEW r \in Readers, ReaderStep(r) PROVE AskInv'
  BY <1>3, OnLinkUpAsks, AdvertisedAsks, VerifyAsks, ClearAsks, SendGetAsks,
     GetRequestedAsks, ConfirmAsks, OtherReadersAsk DEF ReaderStep
<1>4. ASSUME NEW r \in Readers, LinkProof(r) \/ Receive(r) \/ OutLinkClosed(r) PROVE AskInv'
  BY <1>4, LinkProofAsks, ReceiveAsks, ClosedAsks
<1> QED BY <1>1, <1>2, <1>3, <1>4, EnvironmentAsks DEF Next

(* handle_sync_response takes a list of ids for the list and messages for   *)
(* messages, though nothing in an answer says which request it is for, in   *)
(* every behaviour in which no two threads were at work at the same time on *)
(* the sync or on an earlier one over the same link.                       *)
THEOREM AnswerAsAskedHolds == Spec => []AnswerAsAsked
<1> DEFINE Asks == Types /\ OneBeginner /\ AskInv
<1>1. Init => Asks
  <2> SUFFICES ASSUME Init PROVE Asks
    OBVIOUS
  <2>1. Types  BY TypesInit
  <2>2. /\ sync.phase = "Idle" /\ sync.receiver = NoAns /\ up = 0
        /\ \A th \in Threads : work[th].at = "rest"
    BY RestType DEF Init
  <2>3. OneBeginner  BY <2>2, ThreadsExist DEF OneBeginner
  <2>4. AskInv
    BY <2>2 DEF AskInv, InStep, Received, Nothing, Sampling
  <2> QED BY <2>1, <2>3, <2>4
<1>2. Asks /\ [Next]_vars => Asks'
  BY TypesStep, BeginnerStep, AskStep
<1>3. Asks => AnswerAsAsked
  BY ThreadsExist DEF AskInv, InStep, AnswerAsAsked, At
<1> QED BY <1>1, <1>2, <1>3, PTL DEF Spec
=============================================================================
