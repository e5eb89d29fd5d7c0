------------------------------ MODULE Texts_proofs ------------------------------
(* Proofs about the conversation by text messages: its types, that a text is acted  *)
(* upon once, that an answer is about the question replied to, and that the service *)
(* tells no news twice.                                                             *)
EXTENDS Texts, SequenceTheorems, TLAPS

LEMMA Bounds == /\ MaxRequest \in Nat \ {0} /\ MaxReplies \in Nat /\ MaxOwn \in Nat
                /\ MaxTexts \in Nat /\ MaxFaults \in Nat
  BY BoundsAssumption

-----------------------------------------------------------------------------
(* The parts of the inductive invariant.                                       *)

ThreadType == [asked : 0..MaxRequest, open : BOOLEAN, replies : 0..MaxReplies]
TextType == [reply : Nat, named : Requests \cup {None}, written : Nat]
WorkerType == [step : {"idle", "reading", "responding", "awaiting", "queueing"},
               op : Requests \cup {None}, decided : Requests \cup {None}]
TelegramType == {"none", "given", "sent"}
UpdateType == {"none", "processing", "handled", "stale"}
HistoryType == [acted : [Texts -> Nat], dropped : SUBSET Texts]

\* What messages tell is ordered: by the question, then by the agent's replies.
KeyType == Requests \X (0..MaxReplies)
Before(a, b) == (a[1] < b[1]) \/ (a[1] = b[1] /\ a[2] <= b[2])

\* An operation knows of nothing T3 has not said, a question it has answered is not open,
\* and what the user was told of it last is not after what there is to tell.
Current(r, o, t) ==
    /\ o \in OperationType
    /\ o.status = "none" => o = Unknown
    /\ o.status # "none" => r \in o.asked /\ o.request <= t.asked
    /\ o.reply <= t.replies /\ o.baseline <= t.replies
    /\ o.submitted /\ t.open => o.request < t.asked
    /\ o.notice # <<>> => Before(o.notice, NoticeKey(o))

Operations(O, t) ==
    /\ t \in ThreadType /\ O \in [Requests -> OperationType]
    /\ \A r \in Requests : Current(r, O[r], t)

\* A message about an operation told what the operation remembers, or something earlier.
Told(O, B) ==
    \A i \in 1..Len(B) :
       B[i].op # None =>
          /\ O[B[i].op].status # "none" /\ O[B[i].op].notice # <<>>
          /\ B[i].notice # <<>> /\ Before(B[i].notice, O[B[i].op].notice)

Messages ==
    /\ outbox \in Seq(ItemType) /\ telegram \in Seq(TelegramType) /\ Len(telegram) = Len(outbox)
    /\ Told(ops, outbox) /\ OnlyNews

\* A text replies to a message there is and names an operation there is.
Referring ==
    /\ \A m \in 1..Len(texts) :
          /\ texts[m].reply <= Len(outbox)
          /\ texts[m].named # None => ops[texts[m].named].status # "none"
    /\ \A m \in Texts : updates[m] # "none" => m <= Len(texts)
    /\ \A i \in 1..Len(jobs) : jobs[i] <= Len(texts)

\* Where the worker is in a text, and whether it has acted.
Working ==
    /\ \A m \in Texts : history.acted[m] <= 1 /\ (history.acted[m] > 0 => updates[m] # "none")
    /\ worker.step # "idle" => jobs # <<>> /\ updates[Head(jobs)] = "processing"
    /\ worker.step \in {"reading", "responding"} => history.acted[Head(jobs)] = 0
    /\ worker.step \in {"idle", "reading", "responding"} => worker.decided = None
    /\ worker.step \in {"responding", "awaiting"} => worker.op # None
    /\ worker.op # None => worker.step # "idle" /\ ops[worker.op].status # "none"
    /\ worker.step = "awaiting" => ops[worker.op].submitted
    /\ worker.step = "responding" /\ Text.reply # None /\ Text.named = None =>
          ops[worker.op].request = outbox[Text.reply].request

Reading ==
    /\ texts \in Seq(TextType) /\ Len(texts) <= MaxTexts /\ jobs \in Seq(Texts)
    /\ updates \in [Texts -> UpdateType]
    /\ worker \in WorkerType /\ history \in HistoryType
    /\ Referring /\ Working /\ ReplyFits

IInv == Operations(ops, t3) /\ Messages /\ Reading

\* The parts imply what the runs check.
LEMMA TypesFollow == ASSUME IInv PROVE TypeOK /\ ActedOnce /\ ReplyFits /\ OnlyNews
<1>1. \A i \in DOMAIN outbox : outbox[i] \in ItemType
  BY ElementOfSeq DEF IInv, Messages
<1>2. TypeOK
  BY <1>1 DEF IInv, Operations, Messages, Reading, Working, HistoryType, UpdateType, TypeOK
<1> QED BY <1>2 DEF IInv, Messages, Reading, Working, ActedOnce, HistoryType

-----------------------------------------------------------------------------
(* Lemmas about what messages tell and about operations.                       *)

LEMMA BeforeOrders ==
  ASSUME NEW a \in KeyType, NEW b \in KeyType, NEW c \in KeyType
  PROVE  /\ Before(a, a)
         /\ Before(a, b) /\ Before(b, c) => Before(a, c)
         /\ Before(a, b) /\ Before(b, a) => a = b
<1>1. PICK a1, b1, c1 \in Requests, a2, b2, c2 \in 0..MaxReplies :
         a = <<a1, a2>> /\ b = <<b1, b2>> /\ c = <<c1, c2>>
  BY DEF KeyType
<1>2. {a1, b1, c1, a2, b2, c2} \subseteq Int
  BY Bounds DEF Requests
<1> QED BY <1>1, <1>2 DEF Before

LEMMA UnknownIsTyped == Unknown \in OperationType /\ Unknown.status = "none" /\ ~Unknown.submitted
                        /\ Unknown.notice = <<>> /\ Unknown.reply = 0 /\ Unknown.baseline = 0
  BY Bounds DEF Unknown, OperationType, Requests

LEMMA KeyIsTyped == ASSUME NEW o \in OperationType PROVE NoticeKey(o) \in KeyType
  BY DEF NoticeKey, KeyType, OperationType

\* An operation that follows another: news may have come, the user knows what it knew.
Follows(o, n) == n.notice = o.notice /\ (o.status # "none" => n.status # "none")
                 /\ o.asked \subseteq n.asked

\* Observing keeps an operation current.  The answered question is not the open one, so
\* what was told of it is before what there is to tell of the next.
LEMMA ObserveFacts ==
  ASSUME t3 \in ThreadType, NEW r \in Requests, NEW o, Current(r, o, t3),
         o.status # "none", o.submitted
  PROVE  Current(r, Observe(o), t3) /\ Follows(o, Observe(o))
<1> DEFINE news == t3.replies > o.baseline
           heard == [o EXCEPT !.reply = IF news THEN t3.replies ELSE @, !.report = @ \/ news]
<1>1. heard \in OperationType /\ heard.status = o.status /\ heard.request = o.request
      /\ heard.asked = o.asked /\ heard.notice = o.notice /\ heard.submitted = o.submitted
      /\ heard.baseline = o.baseline /\ o.reply <= heard.reply /\ heard.reply <= t3.replies
  <2> DEFINE reply == IF news THEN t3.replies ELSE o.reply
             report == o.report \/ news
  <2>1. o \in OperationType
    BY DEF Current
  <2>2. reply \in 0..MaxReplies /\ o.reply <= reply /\ reply <= t3.replies
    <3>1. o.reply \in 0..MaxReplies /\ o.baseline \in 0..MaxReplies /\ t3.replies \in 0..MaxReplies
      BY <2>1 DEF OperationType, ThreadType
    <3>2. o.reply <= t3.replies
      BY DEF Current
    <3> QED BY <3>1, <3>2, Bounds
  <2>3. report \in BOOLEAN
    BY DEF OperationType, Current
  <2>4. heard = [o EXCEPT !.reply = reply, !.report = report]
    BY DEF OperationType, Current
  <2> HIDE DEF reply, report, news, heard
  <2> QED BY <2>1, <2>2, <2>3, <2>4 DEF OperationType
<1>2. o.notice # <<>> => o.notice \in KeyType
  BY DEF Current, OperationType, KeyType
<1>3. CASE ~t3.open
  <2>1. Observe(o) = heard
    BY <1>3 DEF Observe
  <2>2. o.notice # <<>> => Before(o.notice, NoticeKey(heard))
    <3> HIDE DEF heard
    <3>1. o.reply \in Int /\ heard.reply \in Int
      <4>1. o \in OperationType /\ heard \in OperationType
        BY <1>1 DEF Current
      <4>2. o.reply \in 0..MaxReplies /\ heard.reply \in 0..MaxReplies
        BY <4>1 DEF OperationType
      <4> QED BY <4>2, Bounds
    <3> QED BY <1>1, <1>2, <3>1, Bounds DEF Current, Before, NoticeKey, KeyType
  <2> HIDE DEF heard
  <2> QED BY <1>1, <1>3, <2>1, <2>2 DEF Current, Follows
<1>4. CASE t3.open
  <2> DEFINE n == [heard EXCEPT !.request = t3.asked, !.asked = @ \cup {t3.asked},
                                !.submitted = FALSE, !.completed = FALSE, !.report = TRUE,
                                !.reply = IF news THEN t3.replies ELSE 0]
  <2>1. Observe(o) = n
    BY <1>4 DEF Observe
  <2>2. o.request < t3.asked
    BY <1>4 DEF Current
  <2>3. t3.asked \in Requests /\ t3.replies \in 0..MaxReplies
    BY <2>2, Bounds DEF ThreadType, Requests, Current, OperationType
  <2> HIDE DEF heard
  <2>4. /\ n.request = t3.asked /\ n.asked = heard.asked \cup {t3.asked} /\ ~n.submitted
        /\ n.notice = heard.notice /\ n.baseline = heard.baseline
        /\ n.reply = IF news THEN t3.replies ELSE 0
        /\ n.status = heard.status
        /\ n \in OperationType
    <3> DEFINE reply == IF news THEN t3.replies ELSE 0
               asked == heard.asked \cup {t3.asked}
    <3>1. reply \in 0..MaxReplies
      BY <2>3, Bounds
    <3>2. asked \in SUBSET Requests
      BY <1>1, <2>3 DEF OperationType
    <3>3. n = [heard EXCEPT !.request = t3.asked, !.asked = asked, !.submitted = FALSE,
                            !.completed = FALSE, !.report = TRUE, !.reply = reply]
      BY <1>1 DEF OperationType
    <3> HIDE DEF news, reply, asked, n
    <3>4. n.request = t3.asked /\ n.asked = asked /\ ~n.submitted /\ n.notice = heard.notice
          /\ n.baseline = heard.baseline /\ n.reply = reply /\ n.status = heard.status
      BY <1>1, <3>3 DEF OperationType
    <3>5. n \in OperationType
      BY <1>1, <2>3, <3>1, <3>2, <3>3 DEF OperationType
    <3> QED BY <3>4, <3>5 DEF reply, asked
  <2> HIDE DEF n
  <2>5. o.notice # <<>> => Before(o.notice, NoticeKey(n))
    <3>1. SUFFICES ASSUME o.notice # <<>> PROVE o.notice[1] < n.request
      BY DEF Before, NoticeKey
    <3>2. o.notice[1] <= o.request
      BY <1>2, <3>1, Bounds DEF Current, Before, NoticeKey, KeyType, Requests, OperationType
    <3> QED BY <1>2, <3>1, <3>2, <2>2, <2>4, <2>3, Bounds DEF KeyType, Requests, Current, OperationType
  <2>6. n.reply <= t3.replies /\ n.baseline <= t3.replies
    BY <1>1, <2>3, <2>4, Bounds DEF Current
  <2> QED BY <1>1, <2>1, <2>3, <2>4, <2>5, <2>6, Bounds DEF Current, Follows, Requests
<1> QED BY <1>3, <1>4

\* Of what makes an operation current the status is no part.
LEMMA StatusFacts ==
  ASSUME NEW r \in Requests, NEW o, Current(r, o, t3), o.status # "none",
         NEW status \in {"open", "deferred", "completed", "stale"}
  PROVE  LET n == [o EXCEPT !.status = status] IN Current(r, n, t3) /\ Follows(o, n)
<1> DEFINE n == [o EXCEPT !.status = status]
<1>1. n \in OperationType /\ n.status = status /\ n.request = o.request /\ n.asked = o.asked
      /\ n.submitted = o.submitted /\ n.baseline = o.baseline /\ n.reply = o.reply
      /\ n.notice = o.notice
  BY DEF OperationType, Current
<1> HIDE DEF n
<1>2. Current(r, n, t3) /\ Follows(o, n)
  BY <1>1 DEF Current, Follows, NoticeKey
<1> QED BY <1>2 DEF n

LEMMA RefreshFacts ==
  ASSUME t3 \in ThreadType, NEW r \in Requests, NEW o, Current(r, o, t3), o.status # "none"
  PROVE  Current(r, Refresh(o), t3) /\ Follows(o, Refresh(o))
<1> DEFINE d == IF o.submitted THEN Observe(o) ELSE o
           status == IF d.completed THEN "completed"
                     ELSE IF d.deferred THEN "deferred"
                     ELSE IF ~o.submitted /\ ~Pending(o.request) THEN "stale"
                     ELSE IF d.status = "completed" THEN "open" ELSE d.status
           n == [d EXCEPT !.status = status]
<1>1. CASE o.status = "completed" /\ o.completed
  BY <1>1 DEF Refresh, Follows
<1>2. CASE ~(o.status = "completed" /\ o.completed)
  <2>1. Current(r, d, t3) /\ Follows(o, d)
    <3>1. CASE o.submitted
      BY <3>1, ObserveFacts
    <3>2. CASE ~o.submitted
      BY <3>2 DEF Follows
    <3> QED BY <3>1, <3>2
  <2>2. d.status # "none" /\ d \in OperationType
    BY <2>1 DEF Follows, Current
  <2>3. Refresh(o) = n
    BY <1>2, <2>2 DEF Refresh, OperationType
  <2> HIDE DEF d
  <2>4. status \in {"open", "deferred", "completed", "stale"}
    BY <2>2 DEF OperationType
  <2> HIDE DEF status
  <2>5. Current(r, n, t3) /\ Follows(d, n)
    BY <2>1, <2>2, <2>4, StatusFacts
  <2> QED BY <2>1, <2>2, <2>3, <2>5 DEF Follows
<1> QED BY <1>1, <1>2

\* A set of operations that follows another.
Advances(O, N) == Operations(N, t3) /\ \A r \in Requests : Follows(O[r], N[r])

LEMMA OpenOperationsFacts ==
  ASSUME NEW O, Operations(O, t3)
  PROVE  Advances(O, OpenOperations(O))
<1> DEFINE N == OpenOperations(O)
<1>1. ASSUME NEW r \in Requests PROVE Current(r, N[r], t3) /\ Follows(O[r], N[r])
  <2>1. CASE O[r].status \in Contactable
    <3>1. O[r].status # "none"
      BY <2>1 DEF Contactable
    <3>2. N[r] = Refresh(O[r])
      BY <2>1 DEF OpenOperations
    <3> QED BY <3>1, <3>2, RefreshFacts DEF Operations
  <2>2. CASE O[r].status \notin Contactable
    BY <2>2 DEF OpenOperations, Operations, Follows
  <2> QED BY <2>1, <2>2
<1>2. N \in [Requests -> OperationType]
  <2>1. N = [r \in Requests |-> N[r]]
    BY DEF OpenOperations
  <2> HIDE DEF N
  <2> QED BY <1>1, <2>1 DEF Current
<1> HIDE DEF N
<1>3. t3 \in ThreadType
  BY DEF Operations
<1>4. Advances(O, N)
  BY <1>1, <1>2, <1>3 DEF Advances, Operations
<1> QED BY <1>4 DEF N

\* A question is made an operation only when no operation was ever asked it, its own
\* among them, which is therefore the unknown one.
LEMMA DiscoverFacts ==
  ASSUME Operations(ops, t3), NEW due \in BOOLEAN
  PROVE  Advances(ops, Discover(ops, due))
<1> DEFINE R == IF t3.open
                THEN [r \in Requests |-> IF ops[r].status \in Contactable /\ ops[r].submitted
                                         THEN Refresh(ops[r]) ELSE ops[r]]
                ELSE ops
           new(r) == due /\ Pending(r) /\ \A q \in Requests : r \notin R[q].asked
           fresh(r) == [Unknown EXCEPT !.status = "open", !.request = r, !.asked = {r},
                                       !.baseline = t3.replies]
           N == [r \in Requests |-> IF new(r) THEN fresh(r) ELSE R[r]]
<1>1. Discover(ops, due) = OpenOperations(N)
  BY DEF Discover
<1>2. ASSUME NEW r \in Requests PROVE Current(r, R[r], t3) /\ Follows(ops[r], R[r])
  <2>1. CASE t3.open /\ ops[r].status \in Contactable /\ ops[r].submitted
    <3>1. ops[r].status # "none"
      BY <2>1 DEF Contactable
    <3>2. R[r] = Refresh(ops[r])
      BY <2>1
    <3> HIDE DEF R
    <3> QED BY <3>1, <3>2, RefreshFacts DEF Operations
  <2>2. CASE ~(t3.open /\ ops[r].status \in Contactable /\ ops[r].submitted)
    <3>1. R[r] = ops[r]
      BY <2>2
    <3> HIDE DEF R
    <3> QED BY <3>1 DEF Operations, Follows
  <2> QED BY <2>1, <2>2
<1> HIDE DEF R
<1>3. ASSUME NEW r \in Requests, new(r) PROVE Current(r, fresh(r), t3) /\ Follows(ops[r], fresh(r))
  <2>1. r \notin ops[r].asked
    BY <1>2, <1>3 DEF Follows
  <2>2. ops[r].status = "none"
    BY <2>1 DEF Operations, Current
  <2>3. ops[r] = Unknown
    BY <2>2 DEF Operations, Current
  <2>4. t3.asked = r /\ t3.replies \in 0..MaxReplies
    BY <1>3 DEF Pending, Operations, ThreadType
  <2>5. /\ fresh(r) \in OperationType /\ fresh(r).status = "open" /\ fresh(r).request = r
        /\ fresh(r).asked = {r} /\ ~fresh(r).submitted /\ fresh(r).reply = 0
        /\ fresh(r).baseline = t3.replies /\ fresh(r).notice = <<>>
    BY <2>4, UnknownIsTyped DEF OperationType, Unknown
  <2> HIDE DEF fresh
  <2>6. Unknown.asked = {}
    BY DEF Unknown
  <2> QED BY <2>2, <2>3, <2>4, <2>5, <2>6, UnknownIsTyped, Bounds DEF Current, Follows, Requests
<1>4. ASSUME NEW r \in Requests PROVE Current(r, N[r], t3) /\ Follows(ops[r], N[r])
  <2>1. CASE new(r)
    <3>1. N[r] = fresh(r)
      BY <2>1
    <3> HIDE DEF N, fresh, new
    <3> QED BY <1>3, <2>1, <3>1
  <2>2. CASE ~new(r)
    <3>1. N[r] = R[r]
      BY <2>2
    <3> HIDE DEF N, fresh, new
    <3> QED BY <1>2, <3>1
  <2> QED BY <2>1, <2>2
<1>5. N \in [Requests -> OperationType]
  <2>1. N = [r \in Requests |-> N[r]]
    OBVIOUS
  <2> HIDE DEF N
  <2> QED BY <1>4, <2>1 DEF Current
<1> HIDE DEF N
<1>6. Operations(N, t3)
  BY <1>4, <1>5 DEF Operations
<1>7. Advances(N, OpenOperations(N))
  BY <1>6, OpenOperationsFacts
<1> QED BY <1>1, <1>4, <1>7 DEF Advances, Follows

-----------------------------------------------------------------------------
(* Lemmas about the messages and about the texts that are read.                *)

SeqOf(s, S) == s \in Seq(S) /\ DOMAIN s = 1..Len(s) /\ \A i \in 1..Len(s) : s[i] \in S

LEMMA SeqFacts == ASSUME NEW S, NEW s \in Seq(S) PROVE SeqOf(s, S) /\ Len(s) \in Nat
<1>1. DOMAIN s = 1..Len(s) /\ Len(s) \in Nat
  BY LenProperties
<1>2. \A i \in 1..Len(s) : s[i] \in S
  BY ElementOfSeq
<1> QED BY <1>1, <1>2 DEF SeqOf

LEMMA AppendFacts ==
  ASSUME NEW S, NEW s \in Seq(S), NEW x \in S
  PROVE  /\ Append(s, x) \in Seq(S) /\ Len(Append(s, x)) = Len(s) + 1
         /\ Append(s, x)[Len(s) + 1] = x /\ \A i \in 1..Len(s) : Append(s, x)[i] = s[i]
  BY AppendProperties

\* A message that is queued is the latest about its operation; one about news differs from
\* every earlier one.
LEMMA QueueTextFacts ==
  ASSUME Messages, NEW O, Advances(ops, O), NEW r \in Requests \cup {None}, NEW to \in Texts \cup {None},
         NEW purpose \in {"reply", "first", "source_reply"}, QueueText(O, r, purpose, to),
         r # None => O[r].status # "none",
         purpose = "source_reply" => r # None /\ O[r].notice # NoticeKey(O[r])
  PROVE  /\ Messages' /\ Operations(ops', t3)
         /\ \A q \in Requests : O[q].status # "none" => ops'[q].status # "none"
         /\ Len(outbox') = Len(outbox) + 1 /\ \A i \in 1..Len(outbox) : outbox'[i] = outbox[i]
<1> DEFINE item == [op |-> r, request |-> IF r = None THEN None ELSE O[r].request,
                    purpose |-> purpose, status |-> "reserved", to |-> to,
                    notice |-> IF r = None THEN <<>> ELSE NoticeKey(O[r])]
           n == Len(outbox) + 1
<1>1. O \in [Requests -> OperationType] /\ \A q \in Requests : Current(q, O[q], t3)
  BY DEF Advances, Operations
<1>2. outbox' = Append(outbox, item) /\ telegram' = Append(telegram, "none")
      /\ ops' = IF r = None THEN O
                ELSE [O EXCEPT ![r].notice = NoticeKey(O[r]), ![r].silenced = @ \/ purpose = "first"]
  BY DEF QueueText
<1>3. r # None => r \in Requests /\ O[r] \in OperationType /\ NoticeKey(O[r]) \in KeyType
  BY <1>1, KeyIsTyped
<1>4. item \in ItemType
  BY <1>3 DEF ItemType, OperationType, KeyType
<1>5. item.op = r /\ item.purpose = purpose /\ item.notice = IF r = None THEN <<>> ELSE NoticeKey(O[r])
  OBVIOUS
<1> HIDE DEF item
<1>6. /\ outbox' \in Seq(ItemType) /\ Len(outbox') = n /\ outbox'[n] = item
      /\ \A i \in 1..Len(outbox) : outbox'[i] = outbox[i]
  BY <1>2, <1>4, AppendFacts DEF Messages
<1>7. telegram' \in Seq(TelegramType) /\ Len(telegram') = Len(telegram) + 1
  <2>1. telegram \in Seq(TelegramType) /\ "none" \in TelegramType
    BY DEF Messages, TelegramType
  <2> QED BY <1>2, <2>1, AppendFacts
<1>8. Len(outbox) \in Nat /\ \A i \in 1..Len(outbox) : outbox[i] \in ItemType
  BY SeqFacts DEF Messages, SeqOf
<1>9. r # None => /\ ops'[r] \in OperationType /\ ops'[r].notice = NoticeKey(O[r])
                  /\ ops'[r].status = O[r].status /\ ops'[r].asked = O[r].asked
                  /\ ops'[r].request = O[r].request /\ ops'[r].reply = O[r].reply
                  /\ ops'[r].baseline = O[r].baseline /\ ops'[r].submitted = O[r].submitted
  <2>1. SUFFICES ASSUME r # None
        PROVE /\ ops'[r] \in OperationType /\ ops'[r].notice = NoticeKey(O[r])
              /\ ops'[r].status = O[r].status /\ ops'[r].asked = O[r].asked
              /\ ops'[r].request = O[r].request /\ ops'[r].reply = O[r].reply
              /\ ops'[r].baseline = O[r].baseline /\ ops'[r].submitted = O[r].submitted
    OBVIOUS
  <2> DEFINE key == NoticeKey(O[r])
             silenced == O[r].silenced \/ purpose = "first"
  <2>2. silenced \in BOOLEAN /\ key \in KeyType
    BY <1>3, <2>1 DEF OperationType
  <2>3. ops'[r] = [O[r] EXCEPT !.notice = key, !.silenced = silenced]
    BY <1>1, <1>2, <1>3, <2>1
  <2> HIDE DEF key, silenced
  <2>4. ops'[r] \in OperationType /\ ops'[r].notice = key
        /\ ops'[r].status = O[r].status /\ ops'[r].asked = O[r].asked
        /\ ops'[r].request = O[r].request /\ ops'[r].reply = O[r].reply
        /\ ops'[r].baseline = O[r].baseline /\ ops'[r].submitted = O[r].submitted
    BY <1>3, <2>1, <2>2, <2>3 DEF OperationType, KeyType
  <2> QED BY <2>4 DEF key
<1>10. \A q \in Requests : q # r => ops'[q] = O[q]
  BY <1>1, <1>2
<1>11. r # None => Before(NoticeKey(O[r]), NoticeKey(O[r]))
  BY <1>3, BeforeOrders
<1>12. ASSUME NEW q \in Requests PROVE Current(q, ops'[q], t3) /\ (O[q].status # "none" => ops'[q].status # "none")
  <2>1. CASE q # r
    BY <1>1, <1>10, <2>1
  <2>2. CASE q = r
    <3>1. r # None
      BY <2>2, Bounds DEF Requests, None
    <3>2. NoticeKey(ops'[r]) = NoticeKey(O[r])
      BY <1>9, <3>1 DEF NoticeKey
    <3> QED BY <1>1, <1>9, <1>11, <2>2, <3>1, <3>2 DEF Current
  <2> QED BY <2>1, <2>2
<1>13. ops' \in [Requests -> OperationType]
  <2>1. CASE r = None
    BY <1>1, <1>2, <2>1
  <2>2. CASE r # None
    <3>1. ops' = [O EXCEPT ![r] = ops'[r]]
      BY <1>1, <1>2, <1>3, <2>2
    <3> QED BY <1>1, <1>3, <1>9, <2>2, <3>1
  <2> QED BY <2>1, <2>2
<1>14. \* Earlier messages about the operation told at most what there is to tell now.
       ASSUME NEW i \in 1..Len(outbox), outbox[i].op # None
       PROVE  /\ outbox[i].op \in Requests /\ ops'[outbox[i].op].status # "none"
              /\ outbox[i].notice \in KeyType /\ outbox[i].notice # <<>>
              /\ ops'[outbox[i].op].notice # <<>>
              /\ Before(outbox[i].notice, ops'[outbox[i].op].notice)
              /\ Before(outbox[i].notice, O[outbox[i].op].notice)
              /\ O[outbox[i].op].notice \in KeyType
  <2> DEFINE q == outbox[i].op
  <2>1. q \in Requests /\ outbox[i].notice \in KeyType \cup {<<>>}
    BY <1>8, <1>14 DEF ItemType, KeyType
  <2>2. ops[q].status # "none" /\ ops[q].notice # <<>> /\ outbox[i].notice # <<>>
        /\ Before(outbox[i].notice, ops[q].notice)
    BY <1>14 DEF Messages, Told
  <2>3. O[q].status # "none" /\ O[q].notice = ops[q].notice
    BY <2>1, <2>2 DEF Advances, Follows
  <2>4. O[q].notice \in KeyType /\ NoticeKey(O[q]) \in KeyType /\ Before(O[q].notice, NoticeKey(O[q]))
    BY <1>1, <2>1, <2>2, <2>3, KeyIsTyped DEF Current, OperationType, KeyType
  <2>5. Before(outbox[i].notice, NoticeKey(O[q]))
    BY <2>1, <2>2, <2>3, <2>4, BeforeOrders
  <2>6. CASE q = r
    <3>1. ops'[q].notice = NoticeKey(O[q])
      BY <1>9, <1>14, <2>6
    <3>2. ops'[q].notice # <<>>
      BY <3>1 DEF NoticeKey
    <3> QED BY <1>12, <2>1, <2>2, <2>3, <2>4, <2>5, <3>1, <3>2
  <2>7. CASE q # r
    <3>1. ops'[q] = O[q]
      BY <1>10, <2>1, <2>7
    <3> QED BY <2>1, <2>2, <2>3, <2>4, <3>1
  <2> QED BY <2>6, <2>7
<1>15. Told(ops, outbox)'
  <2>1. SUFFICES ASSUME NEW i \in 1..n, outbox'[i].op # None
        PROVE  /\ ops'[outbox'[i].op].status # "none" /\ ops'[outbox'[i].op].notice # <<>>
               /\ outbox'[i].notice # <<>> /\ Before(outbox'[i].notice, ops'[outbox'[i].op].notice)
    BY <1>6 DEF Told
  <2>2. CASE i = n
    <3>1. outbox'[i] = item /\ r # None
      BY <1>5, <1>6, <2>1, <2>2
    <3>2. NoticeKey(O[r]) # <<>>
      BY DEF NoticeKey
    <3> QED BY <1>3, <1>5, <1>9, <1>11, <3>1, <3>2
  <2>3. CASE i # n
    <3>1. i \in 1..Len(outbox)
      BY <1>8, <2>1, <2>3
    <3> QED BY <1>6, <1>14, <2>1, <3>1
  <2> QED BY <2>2, <2>3
<1>16. OnlyNews'
  <2>1. DOMAIN outbox' = 1..n /\ DOMAIN outbox = 1..Len(outbox)
    BY <1>6, SeqFacts DEF SeqOf, Messages
  <2>2. SUFFICES ASSUME NEW i \in 1..n, NEW j \in 1..n, i < j, outbox'[j].purpose = "source_reply",
                        outbox'[i].op = outbox'[j].op
                 PROVE  outbox'[i].notice # outbox'[j].notice
    BY <2>1 DEF OnlyNews
  <2>3. i \in 1..Len(outbox)
    BY <1>8, <2>2
  <2>4. CASE j # n
    <3>1. j \in 1..Len(outbox)
      BY <1>8, <2>2, <2>4
    <3>2. outbox'[i] = outbox[i] /\ outbox'[j] = outbox[j]
      BY <1>6, <2>3, <3>1
    <3> QED BY <2>1, <2>2, <2>3, <3>1, <3>2 DEF Messages, OnlyNews
  <2>5. CASE j = n
    <3>1. outbox'[j] = item /\ outbox'[i] = outbox[i]
      BY <1>6, <2>3, <2>5
    <3>2. purpose = "source_reply" /\ r # None /\ outbox[i].op = r
      BY <1>5, <2>2, <3>1
    <3>3. item.notice = NoticeKey(O[r]) /\ O[r].notice # NoticeKey(O[r])
      BY <1>5, <3>2
    <3>4. outbox[i].notice \in KeyType /\ O[r].notice \in KeyType /\ NoticeKey(O[r]) \in KeyType
          /\ Before(outbox[i].notice, O[r].notice)
      BY <1>3, <1>14, <2>3, <3>2
    <3>5. Before(O[r].notice, NoticeKey(O[r]))
      <4>0. PICK a \in Requests, b \in 0..MaxReplies : O[r].notice = <<a, b>>
        BY <3>4 DEF KeyType
      <4>1. O[r].notice # <<>>
        BY <4>0
      <4> QED BY <1>1, <1>3, <3>2, <4>1 DEF Current
    <3> QED BY <3>1, <3>3, <3>4, <3>5, BeforeOrders
  <2> QED BY <2>4, <2>5
<1>17. Operations(ops', t3)
  BY <1>12, <1>13 DEF Advances, Operations
<1>18. Messages'
  BY <1>6, <1>7, <1>15, <1>16 DEF Messages
<1> QED BY <1>6, <1>12, <1>17, <1>18

\* What is known of the texts and of the worker is not disturbed by what leaves them alone,
\* when no operation is forgotten, and none changes while a text is read.
LEMMA Undisturbed ==
  ASSUME Reading, UNCHANGED <<texts, jobs, updates, worker, history>>,
         ops \in [Requests -> OperationType], ops' \in [Requests -> OperationType],
         \A r \in Requests : ops[r].status # "none" => ops'[r].status # "none",
         Len(outbox) \in Nat, Len(outbox') \in Nat, Len(outbox) <= Len(outbox'),
         \A i \in 1..Len(outbox) : outbox'[i].request = outbox[i].request,
         jobs = <<>> \/ UNCHANGED ops
  PROVE  Reading'
<1>1. Len(jobs) \in Nat /\ (\A i \in 1..Len(jobs) : jobs[i] \in Texts) /\ Len(texts) \in Nat
      /\ \A m \in 1..Len(texts) : texts[m] \in TextType
  BY SeqFacts DEF Reading, SeqOf
<1>2. Referring'
  <2>1. \A m \in 1..Len(texts) : /\ texts[m].reply <= Len(outbox')
                                 /\ texts[m].named # None => ops'[texts[m].named].status # "none"
    <3>1. TAKE m \in 1..Len(texts)
    <3>2. texts[m].reply \in Nat /\ texts[m].named \in Requests \cup {None}
      BY <1>1, <3>1 DEF TextType
    <3>3. texts[m].reply <= Len(outbox) /\ (texts[m].named # None => ops[texts[m].named].status # "none")
      BY <3>1 DEF Reading, Referring
    <3> QED BY <3>2, <3>3
  <2> QED BY <2>1 DEF Reading, Referring
<1>3. CASE jobs = <<>>
  <2>1. worker.step = "idle" /\ worker.decided = None /\ worker.op = None
    BY <1>3 DEF Reading, Working, WorkerType
  <2>2. Working'
    BY <1>3, <2>1 DEF Reading, Working
  <2>3. ReplyFits'
    BY <2>1 DEF ReplyFits
  <2> QED BY <1>2, <2>2, <2>3 DEF Reading
<1>4. CASE jobs # <<>> /\ UNCHANGED ops
  <2>1. Head(jobs) \in 1..Len(texts)
    <3>1. 1 \in 1..Len(jobs) /\ Head(jobs) = jobs[1]
      BY <1>1, <1>4 DEF Reading
    <3>2. jobs[1] <= Len(texts) /\ jobs[1] \in Texts
      BY <1>1, <3>1 DEF Reading, Referring
    <3> QED BY <1>1, <3>1, <3>2, Bounds DEF Texts
  <2>2. Text.reply # None => outbox'[Text.reply].request = outbox[Text.reply].request
    <3>1. Text \in TextType /\ Text.reply <= Len(outbox)
      BY <1>1, <2>1 DEF Reading, Referring, Text
    <3>2. Text.reply \in Nat
      BY <3>1 DEF TextType
    <3> QED BY <3>1, <3>2 DEF None
  <2>3. UNCHANGED Text
    BY DEF Text
  <2>4. Working'
    BY <1>4, <2>2, <2>3 DEF Reading, Working
  <2>5. ReplyFits'
    BY <1>4, <2>2, <2>3 DEF Reading, ReplyFits
  <2> QED BY <1>2, <2>4, <2>5 DEF Reading
<1> QED BY <1>3, <1>4

\* The text that is read exists, and so does what it replies to.
LEMMA CurrentText ==
  ASSUME Reading, Messages, jobs # <<>>
  PROVE  /\ Head(jobs) \in Texts /\ Head(jobs) <= Len(texts) /\ Text \in TextType
         /\ Tail(jobs) \in Seq(Texts) /\ \A i \in 1..Len(Tail(jobs)) : Tail(jobs)[i] <= Len(texts)
         /\ Text.reply # None => Text.reply \in 1..Len(outbox)
         /\ Text.named # None => Text.named \in Requests /\ ops[Text.named].status # "none"
<1>1. Len(jobs) \in Nat /\ (\A i \in 1..Len(jobs) : jobs[i] \in Texts) /\ Len(texts) \in Nat
      /\ (\A m \in 1..Len(texts) : texts[m] \in TextType) /\ Len(outbox) \in Nat
  BY SeqFacts DEF Reading, Messages, SeqOf
<1>2. 1 \in 1..Len(jobs) /\ Head(jobs) = jobs[1]
  BY <1>1 DEF Reading
<1>3. Head(jobs) \in Texts /\ Head(jobs) <= Len(texts)
  BY <1>1, <1>2 DEF Reading, Referring
<1>4. Head(jobs) \in 1..Len(texts)
  BY <1>1, <1>3, Bounds DEF Texts
<1>5. Text \in TextType /\ Text.reply <= Len(outbox) /\ (Text.named # None => ops[Text.named].status # "none")
  BY <1>1, <1>4 DEF Text, Reading, Referring
<1>6. Text.reply \in Nat /\ Text.named \in Requests \cup {None}
  BY <1>5 DEF TextType
<1>7. Tail(jobs) \in Seq(Texts) /\ Len(Tail(jobs)) = Len(jobs) - 1
      /\ \A i \in 1..Len(Tail(jobs)) : Tail(jobs)[i] = jobs[i + 1]
  BY HeadTailProperties DEF Reading
<1>8. \A i \in 1..Len(Tail(jobs)) : Tail(jobs)[i] <= Len(texts)
  <2>1. TAKE i \in 1..Len(Tail(jobs))
  <2>2. i + 1 \in 1..Len(jobs)
    BY <1>1, <1>7, <2>1
  <2> QED BY <1>7, <2>1, <2>2 DEF Reading, Referring
<1> QED BY <1>1, <1>3, <1>5, <1>6, <1>7, <1>8 DEF None

-----------------------------------------------------------------------------
(* The initial state and the steps of the user, of T3 and of Telegram.         *)

LEMMA Initially == Init => IInv
<1> SUFFICES ASSUME Init PROVE IInv
  OBVIOUS
<1>1. Operations(ops, t3)
  <2>1. t3 \in ThreadType
    BY Bounds DEF Init, ThreadType
  <2>2. ops \in [Requests -> OperationType]
    BY UnknownIsTyped DEF Init
  <2>3. ASSUME NEW r \in Requests PROVE Current(r, ops[r], t3)
    BY UnknownIsTyped DEF Init, Current
  <2> QED BY <2>1, <2>2, <2>3 DEF Operations
<1>2. Messages
  BY DEF Init, Messages, Told, OnlyNews
<1>3. Reading
  <2>1. history \in HistoryType /\ worker \in WorkerType /\ updates \in [Texts -> UpdateType]
    BY DEF Init, HistoryType, WorkerType, UpdateType, Idle
  <2>2. Referring
    BY DEF Init, Referring
  <2>3. Working /\ ReplyFits
    BY DEF Init, Working, Idle, ReplyFits, None
  <2>4. texts \in Seq(TextType) /\ Len(texts) <= MaxTexts /\ jobs \in Seq(Texts)
    BY Bounds DEF Init
  <2> QED BY <2>1, <2>2, <2>3, <2>4 DEF Reading
<1> QED BY <1>1, <1>2, <1>3 DEF IInv

\* A step of T3 leaves every operation current: a new question is not one that has been
\* answered.
LEMMA ThreadSteps == ASSUME IInv, Asks \/ Closes \/ Replies PROVE IInv'
<1>1. UNCHANGED <<durable, telegram, texts, jobs, worker, history>>
  BY DEF Asks, Closes, Replies
<1>2. /\ t3' \in ThreadType /\ t3.asked <= t3'.asked /\ t3.replies <= t3'.replies
      /\ t3'.open => t3.asked < t3'.asked
      /\ t3.asked \in Nat /\ t3.replies \in Nat /\ t3'.asked \in Nat /\ t3'.replies \in Nat
  <2>1. t3 \in ThreadType /\ t3.asked \in 0..MaxRequest /\ t3.replies \in 0..MaxReplies
    BY DEF IInv, Operations, ThreadType
  <2>2. CASE Asks
    <3> DEFINE asked == t3.asked + 1
    <3>1. asked \in 0..MaxRequest /\ t3.asked < asked /\ t3.asked \in Nat
      BY <2>1, <2>2, Bounds DEF Asks, ThreadType
    <3>2. t3' = [t3 EXCEPT !.asked = asked, !.open = TRUE]
      BY <2>2 DEF Asks
    <3> HIDE DEF asked
    <3>3. t3' \in ThreadType /\ t3'.asked = asked /\ t3'.replies = t3.replies
      BY <2>1, <3>1, <3>2 DEF ThreadType
    <3> QED BY <2>1, <3>1, <3>3, Bounds
  <2>3. CASE Closes
    <3>1. t3' \in ThreadType /\ t3'.asked = t3.asked /\ t3'.replies = t3.replies /\ ~t3'.open
      BY <2>1, <2>3 DEF Closes, ThreadType
    <3> QED BY <2>1, <3>1, Bounds
  <2>4. CASE Replies
    <3> DEFINE replies == t3.replies + 1
    <3>1. replies \in 0..MaxReplies /\ t3.replies < replies /\ t3.replies \in Nat /\ ~t3.open
      BY <2>1, <2>4, Bounds DEF Replies, ThreadType
    <3>2. t3' = [t3 EXCEPT !.replies = replies]
      BY <2>4 DEF Replies
    <3> HIDE DEF replies
    <3> QED BY <2>1, <3>1, <3>2, Bounds DEF ThreadType
  <2> QED BY <2>2, <2>3, <2>4
<1>3. ASSUME NEW r \in Requests PROVE Current(r, ops[r], t3')
  <2>1. Current(r, ops[r], t3) /\ ops[r] \in OperationType
    BY DEF IInv, Operations
  <2>2. ops[r].request \in Nat /\ ops[r].reply \in Nat /\ ops[r].baseline \in Nat
    <3>1. ops[r].request \in 1..MaxRequest /\ ops[r].reply \in 0..MaxReplies
          /\ ops[r].baseline \in 0..MaxReplies
      BY <2>1 DEF OperationType, Requests
    <3> QED BY <3>1, Bounds
  <2>3. ops[r].submitted => ops[r].status # "none"
    BY <2>1, UnknownIsTyped DEF Current
  <2> QED BY <1>2, <2>1, <2>2, <2>3 DEF Current
<1>4. Operations(ops', t3')
  BY <1>1, <1>2, <1>3 DEF IInv, Operations, durable
<1>5. Messages'
  BY <1>1 DEF IInv, Messages, Told, OnlyNews, durable
<1>6. Reading'
  BY <1>1 DEF IInv, Reading, Referring, Working, ReplyFits, Text, durable
<1> QED BY <1>4, <1>5, <1>6 DEF IInv

LEMMA WriteTextStep ==
  ASSUME IInv, NEW reply \in Shown \cup {None}, NEW named \in Names, WriteText(reply, named)
  PROVE  IInv'
<1> DEFINE text == [reply |-> reply, named |-> named, written |-> t3.asked]
           n == Len(texts) + 1
<1>0. UNCHANGED <<t3, durable, telegram, worker, history>>
  BY DEF WriteText
<1>1. Len(outbox) \in Nat /\ DOMAIN telegram = 1..Len(outbox) /\ (\A i \in 1..Len(outbox) : outbox[i] \in ItemType)
      /\ Len(texts) \in Nat /\ Len(jobs) \in Nat /\ t3.asked \in Nat
  <2>1. outbox \in Seq(ItemType) /\ telegram \in Seq(TelegramType) /\ Len(telegram) = Len(outbox)
        /\ texts \in Seq(TextType) /\ jobs \in Seq(Texts) /\ t3 \in ThreadType
    BY DEF IInv, Messages, Reading, Operations
  <2>2. t3.asked \in 0..MaxRequest
    BY <2>1 DEF ThreadType
  <2> QED BY <2>1, <2>2, SeqFacts, Bounds DEF SeqOf
<1>2. reply \in Nat /\ reply <= Len(outbox)
  BY <1>1 DEF Shown, None
<1>3. named \in Requests \cup {None} /\ (named # None => ops[named].status # "none")
  <2>1. CASE named = None
    BY <2>1
  <2>2. CASE named # None
    <3>1. PICK i \in 1..Len(outbox) : named = outbox[i].op
      BY <1>1, <2>2 DEF Names, Shown
    <3>2. ops[outbox[i].op].status # "none"
      BY <2>2, <3>1 DEF IInv, Messages, Told
    <3> QED BY <1>1, <3>1, <3>2 DEF ItemType
  <2> QED BY <2>1, <2>2
<1>4. text \in TextType
  BY <1>1, <1>2, <1>3 DEF TextType
<1>5. texts' = Append(texts, text) /\ jobs' = Append(jobs, n) /\ Len(texts) < MaxTexts
  <2>1. texts' = Append(texts, text) /\ jobs' = Append(jobs, Len(texts')) /\ Len(texts) < MaxTexts
    BY DEF WriteText
  <2>2. Len(texts') = n
    BY <1>4, <2>1, AppendFacts DEF IInv, Reading
  <2> QED BY <2>1, <2>2
<1>6. text.reply = reply /\ text.named = named
  OBVIOUS
<1> HIDE DEF text
<1>7. texts' \in Seq(TextType) /\ Len(texts') = n /\ texts'[n] = text
      /\ \A i \in 1..Len(texts) : texts'[i] = texts[i]
  BY <1>4, <1>5, AppendFacts DEF IInv, Reading
<1>8. n \in Texts
  BY <1>1, <1>5, Bounds DEF Texts
<1>9. jobs' \in Seq(Texts) /\ Len(jobs') = Len(jobs) + 1 /\ jobs'[Len(jobs) + 1] = n
      /\ \A i \in 1..Len(jobs) : jobs'[i] = jobs[i]
  BY <1>5, <1>8, AppendFacts DEF IInv, Reading
<1>10. Operations(ops', t3') /\ Messages'
  BY <1>0 DEF IInv, Messages, Told, OnlyNews, durable
<1>11. Referring'
  <2>1. \A m \in 1..n : /\ texts'[m].reply <= Len(outbox)
                        /\ texts'[m].named # None => ops[texts'[m].named].status # "none"
    <3>1. TAKE m \in 1..n
    <3>2. CASE m = n
      BY <1>2, <1>3, <1>6, <1>7, <3>2
    <3>3. CASE m # n
      <4>1. m \in 1..Len(texts)
        BY <1>1, <3>1, <3>3
      <4> QED BY <1>7, <4>1 DEF IInv, Reading, Referring
    <3> QED BY <3>2, <3>3
  <2>2. \A m \in Texts : updates[m] # "none" => m <= n
    BY <1>1, Bounds DEF IInv, Reading, Referring, Texts
  <2>3. \A i \in 1..Len(jobs) + 1 : jobs'[i] <= n
    <3>1. TAKE i \in 1..Len(jobs) + 1
    <3>2. CASE i = Len(jobs) + 1
      BY <1>1, <1>9, <3>2
    <3>3. CASE i # Len(jobs) + 1
      <4>1. i \in 1..Len(jobs)
        BY <1>1, <3>1, <3>3
      <4>2. jobs[i] <= Len(texts) /\ jobs[i] \in Texts
        BY <4>1, SeqFacts DEF IInv, Reading, Referring, SeqOf
      <4> QED BY <1>1, <1>9, <4>1, <4>2, Bounds DEF Texts
    <3> QED BY <3>2, <3>3
  <2> QED BY <1>0, <1>7, <1>9, <2>1, <2>2, <2>3 DEF Referring, durable
<1>12. jobs' # <<>>
  BY <1>1, <1>9
<1>13. jobs # <<>> => Head(jobs') = Head(jobs) /\ texts'[Head(jobs)] = texts[Head(jobs)]
  <2>1. SUFFICES ASSUME jobs # <<>> PROVE Head(jobs') = Head(jobs) /\ texts'[Head(jobs)] = texts[Head(jobs)]
    OBVIOUS
  <2>2. 1 \in 1..Len(jobs) /\ Head(jobs) = jobs[1] /\ Head(jobs') = jobs'[1]
    BY <1>1, <1>9, <1>12, <2>1 DEF IInv, Reading
  <2>3. Head(jobs) \in Texts /\ Head(jobs) <= Len(texts)
    BY <2>1, CurrentText DEF IInv
  <2>4. Head(jobs) \in 1..Len(texts)
    BY <1>1, <2>3, Bounds DEF Texts
  <2> QED BY <1>7, <1>9, <2>2, <2>4
<1>14. worker.step # "idle" => jobs # <<>>
  BY DEF IInv, Reading, Working
<1>15. Working'
  <2>1. jobs # <<>> => Text' = Text
    BY <1>13 DEF Text
  <2> QED BY <1>0, <1>12, <1>13, <1>14, <2>1 DEF IInv, Reading, Working, durable
<1>16. ReplyFits'
  <2>1. worker.decided # None => jobs # <<>>
    BY <1>14 DEF IInv, Reading, Working, WorkerType
  <2>2. jobs # <<>> => Text' = Text
    BY <1>13 DEF Text
  <2> QED BY <1>0, <2>1, <2>2 DEF IInv, Reading, ReplyFits, durable
<1>17. Reading'
  <2>1. Len(texts') <= MaxTexts
    BY <1>1, <1>5, <1>7, Bounds
  <2> QED BY <1>0, <1>7, <1>9, <1>11, <1>15, <1>16, <2>1 DEF IInv, Reading, durable
<1> QED BY <1>10, <1>17 DEF IInv

\* What Telegram made of the messages does not change what they say.
LEMMA SendsStep == ASSUME IInv, NEW i \in DOMAIN telegram, Sends(i) PROVE IInv'
<1>1. UNCHANGED <<t3, ops, updates, jobs, worker, texts, history>>
      /\ telegram' = [telegram EXCEPT ![i] = "sent"] /\ outbox' = [outbox EXCEPT ![i].status = "sent"]
  BY DEF Sends
<1>2. outbox \in Seq(ItemType) /\ telegram \in Seq(TelegramType) /\ Len(telegram) = Len(outbox)
  BY DEF IInv, Messages
<1>3. Len(outbox) \in Nat /\ DOMAIN outbox = 1..Len(outbox) /\ DOMAIN telegram = 1..Len(outbox)
      /\ \A k \in 1..Len(outbox) : outbox[k] \in ItemType
  BY <1>2, SeqFacts DEF SeqOf
<1>4. telegram' \in Seq(TelegramType) /\ Len(telegram') = Len(telegram)
  BY <1>1, <1>2, ExceptSeq DEF TelegramType
<1>5. outbox' \in Seq(ItemType) /\ Len(outbox') = Len(outbox)
  <2> DEFINE item == [outbox[i] EXCEPT !.status = "sent"]
  <2>1. item \in ItemType
    BY <1>3 DEF ItemType
  <2>2. outbox' = [outbox EXCEPT ![i] = item]
    BY <1>1
  <2> HIDE DEF item
  <2> QED BY <1>2, <1>3, <2>1, <2>2, ExceptSeq
<1>6. \A k \in 1..Len(outbox) : outbox'[k].op = outbox[k].op /\ outbox'[k].request = outbox[k].request
         /\ outbox'[k].purpose = outbox[k].purpose /\ outbox'[k].notice = outbox[k].notice
  BY <1>1, <1>3 DEF ItemType
<1>7. DOMAIN outbox' = 1..Len(outbox)
  BY <1>5, SeqFacts DEF SeqOf
<1>8. Messages'
  <2>1. Told(ops, outbox)'
    BY <1>1, <1>5, <1>6 DEF IInv, Messages, Told
  <2>2. OnlyNews'
    BY <1>3, <1>6, <1>7 DEF IInv, Messages, OnlyNews
  <2> QED BY <1>2, <1>4, <1>5, <2>1, <2>2 DEF Messages
<1>9. Operations(ops', t3')
  BY <1>1 DEF IInv
<1>10. Reading'
  BY <1>1, <1>3, <1>5, <1>6, <1>9, Undisturbed DEF IInv, Operations
<1> QED BY <1>8, <1>9, <1>10 DEF IInv

-----------------------------------------------------------------------------
(* The steps of the worker.                                                    *)

\* An action in the worker's text: what every such step needs of the state before it.
LEMMA AtFacts ==
  ASSUME IInv, NEW step, At(step)
  PROVE  /\ Head(jobs) \in Texts /\ Head(jobs) <= Len(texts) /\ jobs # <<>> /\ worker.step = step
         /\ worker.op \in Requests \cup {None} /\ worker.decided \in Requests \cup {None}
         /\ (worker.op # None => worker.op \in Requests /\ ops[worker.op].status # "none")
         /\ history.acted[Head(jobs)] \in Nat /\ updates[Head(jobs)] \in UpdateType
         /\ (step # "idle" => updates[Head(jobs)] = "processing")
  BY CurrentText DEF IInv, Reading, Working, At, WorkerType, HistoryType

\* The worker goes on in its text: operations advance, the text may have been acted upon.
LEMMA WorkerGoes ==
  ASSUME IInv, UNCHANGED <<jobs, texts>>, jobs # <<>>, worker' \in WorkerType, worker'.step # "idle",
         updates' \in [Texts -> UpdateType], updates'[Head(jobs)] = "processing",
         \A m \in Texts : m # Head(jobs) => updates'[m] = updates[m],
         history' \in HistoryType,
         \A m \in Texts : m # Head(jobs) => history'.acted[m] = history.acted[m],
         history'.acted[Head(jobs)] <= 1,
         worker'.step \in {"reading", "responding"} => history'.acted[Head(jobs)] = 0,
         worker'.step \in {"reading", "responding"} => worker'.decided = None,
         worker'.step \in {"responding", "awaiting"} => worker'.op # None,
         worker'.op # None => ops'[worker'.op].status # "none",
         worker'.step = "awaiting" => ops'[worker'.op].submitted,
         UNCHANGED outbox, ops' \in [Requests -> OperationType],
         \A r \in Requests : ops[r].status # "none" => ops'[r].status # "none",
         (worker'.step = "responding" /\ Text.reply # None /\ Text.named = None)
            => ops'[worker'.op].request = outbox[Text.reply].request,
         (worker'.decided # None /\ Text.reply # None /\ Text.named = None)
            => worker'.decided = outbox[Text.reply].request
  PROVE  Reading'
<1>1. Head(jobs) \in Texts /\ Head(jobs) <= Len(texts)
  BY CurrentText DEF IInv
<1>2. Text' = Text
  BY DEF Text
<1>3. Referring'
  <2>1. \A m \in 1..Len(texts) : texts[m].named # None => ops'[texts[m].named].status # "none"
    <3>1. TAKE m \in 1..Len(texts)
    <3>2. texts[m] \in TextType
      BY <3>1, SeqFacts DEF SeqOf, IInv, Reading
    <3>3. texts[m].named \in Requests \cup {None}
      BY <3>2 DEF TextType
    <3> QED BY <3>3 DEF IInv, Reading, Referring
  <2>2. \A m \in Texts : updates'[m] # "none" => m <= Len(texts)
    BY <1>1 DEF IInv, Reading, Referring
  <2> QED BY <2>1, <2>2 DEF IInv, Reading, Referring
<1>4. Working'
  <2>1. \A m \in Texts : history'.acted[m] <= 1 /\ (history'.acted[m] > 0 => updates'[m] # "none")
    BY DEF IInv, Reading, Working
  <2> QED BY <1>2, <2>1 DEF IInv, Reading, Working
<1>5. ReplyFits'
  BY <1>2 DEF ReplyFits
<1> QED BY <1>3, <1>4, <1>5 DEF IInv, Reading

\* The worker is done with its text.
LEMMA WorkerEnds ==
  ASSUME IInv, jobs # <<>>, jobs' \in {Tail(jobs), <<>>} \cup {<<m>> : m \in {n \in Texts : Waiting(n)}},
         worker' = Idle, UNCHANGED texts,
         updates' \in [Texts -> UpdateType], \A m \in Texts : m # Head(jobs) => updates'[m] = updates[m],
         updates[Head(jobs)] # "none" => updates'[Head(jobs)] # "none",
         history' \in HistoryType, history'.acted = history.acted,
         ops' \in [Requests -> OperationType],
         \A r \in Requests : ops[r].status # "none" => ops'[r].status # "none",
         Len(outbox') \in Nat, Len(outbox) <= Len(outbox')
  PROVE  Reading'
<1>1. Head(jobs) \in Texts /\ Head(jobs) <= Len(texts) /\ Tail(jobs) \in Seq(Texts)
      /\ \A i \in 1..Len(Tail(jobs)) : Tail(jobs)[i] <= Len(texts)
  BY CurrentText DEF IInv
<1>2. jobs' \in Seq(Texts) /\ \A i \in 1..Len(jobs') : jobs'[i] <= Len(texts)
  <2>1. ASSUME NEW m \in Texts, Waiting(m) PROVE m <= Len(texts)
    <3>1. CASE updates[m] = "processing"
      BY <3>1 DEF IInv, Reading, Referring
    <3>2. CASE \E i \in DOMAIN jobs : jobs[i] = m
      BY <3>2, SeqFacts DEF IInv, Reading, Referring, SeqOf
    <3> QED BY <2>1, <3>1, <3>2 DEF Waiting
  <2>2. CASE \E m \in Texts : Waiting(m) /\ jobs' = <<m>>
    BY <2>1, <2>2
  <2>3. CASE jobs' = Tail(jobs)
    BY <1>1, <2>3
  <2>4. CASE jobs' = <<>>
    BY <2>4
  <2> QED BY <2>2, <2>3, <2>4
<1>3. Referring'
  <2>1. \A m \in 1..Len(texts) : /\ texts[m].reply <= Len(outbox')
                                 /\ texts[m].named # None => ops'[texts[m].named].status # "none"
    <3>1. TAKE m \in 1..Len(texts)
    <3>0. texts[m] \in TextType /\ Len(outbox) \in Nat
      BY <3>1, SeqFacts DEF SeqOf, IInv, Reading, Messages
    <3>2. texts[m].reply \in Nat /\ texts[m].named \in Requests \cup {None} /\ Len(outbox) \in Nat
      BY <3>0 DEF TextType
    <3>3. texts[m].reply <= Len(outbox) /\ (texts[m].named # None => ops[texts[m].named].status # "none")
      BY DEF IInv, Reading, Referring
    <3> QED BY <3>2, <3>3
  <2>2. \A m \in Texts : updates'[m] # "none" => m <= Len(texts)
    BY <1>1 DEF IInv, Reading, Referring
  <2> QED BY <1>2, <2>1, <2>2 DEF Referring
<1>4. Idle \in WorkerType /\ Idle.step = "idle" /\ Idle.op = None /\ Idle.decided = None
  BY DEF Idle, WorkerType
<1>5. Working'
  <2>1. \A m \in Texts : history'.acted[m] <= 1 /\ (history'.acted[m] > 0 => updates'[m] # "none")
    BY DEF IInv, Reading, Working
  <2> QED BY <1>4, <2>1 DEF Working
<1>6. ReplyFits'
  BY <1>4 DEF ReplyFits
<1> QED BY <1>2, <1>3, <1>4, <1>5, <1>6 DEF IInv, Reading

LEMMA GotoFacts ==
  ASSUME NEW step \in {"reading", "responding", "queueing"}, NEW r \in Requests \cup {None}, Goto(step, r)
  PROVE  worker' \in WorkerType /\ worker'.step = step /\ worker'.op = r /\ worker'.decided = None
         /\ UNCHANGED jobs
  BY DEF Goto, Idle, WorkerType

LEMMA ActedFacts ==
  ASSUME IInv, jobs # <<>>, history.acted[Head(jobs)] = 0, Acted
  PROVE  /\ history' \in HistoryType /\ history'.acted[Head(jobs)] = 1
         /\ \A m \in Texts : m # Head(jobs) => history'.acted[m] = history.acted[m]
<1>1. Head(jobs) \in Texts /\ history \in HistoryType
  BY CurrentText DEF IInv, Reading
<1> DEFINE acted == [history.acted EXCEPT ![Head(jobs)] = 1]
<1>2. history' = [history EXCEPT !.acted = acted]
  BY <1>1 DEF Acted, HistoryType
<1>3. acted \in [Texts -> Nat] /\ acted[Head(jobs)] = 1
      /\ \A m \in Texts : m # Head(jobs) => acted[m] = history.acted[m]
  BY <1>1 DEF HistoryType
<1> HIDE DEF acted
<1> QED BY <1>1, <1>2, <1>3 DEF HistoryType

LEMMA TakeTextStep == ASSUME IInv, TakeText PROVE IInv'
<1>1. /\ UNCHANGED <<t3, texts, ops, outbox, telegram, history>>
      /\ jobs # <<>> /\ worker.step = "idle" /\ Head(jobs) \in Texts
  BY AtFacts DEF TakeText, world
<1>2. Operations(ops', t3') /\ Messages'
  BY <1>1 DEF IInv, Messages, Told, OnlyNews
<1>3. ops \in [Requests -> OperationType] /\ Len(outbox) \in Nat /\ history \in HistoryType
      /\ updates \in [Texts -> UpdateType]
  BY SeqFacts DEF IInv, Operations, Messages, Reading
<1>4. CASE updates[Head(jobs)] # "none"
  <2>1. jobs' = Tail(jobs) /\ worker' = Idle /\ UNCHANGED updates
    BY <1>4 DEF TakeText, Done
  <2> QED BY <1>1, <1>2, <1>3, <2>1, WorkerEnds DEF IInv
<1>5. CASE updates[Head(jobs)] = "none"
  <2>1. worker' \in WorkerType /\ worker'.step = "reading" /\ worker'.op = None /\ worker'.decided = None
        /\ UNCHANGED jobs /\ updates' = [updates EXCEPT ![Head(jobs)] = "processing"]
    BY <1>5, GotoFacts DEF TakeText
  <2>2. history.acted[Head(jobs)] = 0
    <3>1. history.acted[Head(jobs)] \in Nat
      BY <1>1, <1>3 DEF HistoryType
    <3>2. ~(history.acted[Head(jobs)] > 0)
      BY <1>1, <1>5 DEF IInv, Reading, Working
    <3> QED BY <3>1, <3>2
  <2>3. updates' \in [Texts -> UpdateType] /\ updates'[Head(jobs)] = "processing"
        /\ \A m \in Texts : m # Head(jobs) => updates'[m] = updates[m]
    BY <1>1, <1>3, <2>1 DEF UpdateType
  <2> QED BY <1>1, <1>2, <1>3, <2>1, <2>2, <2>3, WorkerGoes DEF IInv
<1> QED BY <1>4, <1>5

\* A scan, and whatever else lets the operations advance, disturbs no message.
LEMMA MessagesAdvance ==
  ASSUME IInv, UNCHANGED <<outbox, telegram>>,
         \A r \in Requests : ops[r].status # "none" => ops'[r].status # "none" /\ ops'[r].notice = ops[r].notice
  PROVE  Messages'
<1>1. \A i \in 1..Len(outbox) : outbox[i].op \in Requests \cup {None}
  <2>1. \A i \in 1..Len(outbox) : outbox[i] \in ItemType
    BY SeqFacts DEF IInv, Messages, SeqOf
  <2> QED BY <2>1 DEF ItemType
<1>2. Told(ops, outbox)'
  <2>1. SUFFICES ASSUME NEW i \in 1..Len(outbox), outbox[i].op # None
        PROVE  /\ ops'[outbox[i].op].status # "none" /\ ops'[outbox[i].op].notice # <<>>
               /\ outbox[i].notice # <<>> /\ Before(outbox[i].notice, ops'[outbox[i].op].notice)
    BY DEF Told
  <2>2. ops[outbox[i].op].status # "none" /\ ops[outbox[i].op].notice # <<>>
        /\ outbox[i].notice # <<>> /\ Before(outbox[i].notice, ops[outbox[i].op].notice)
    BY <2>1 DEF IInv, Messages, Told
  <2> QED BY <1>1, <2>1, <2>2
<1> QED BY <1>2 DEF IInv, Messages, OnlyNews

LEMMA ReadOtherStep == ASSUME IInv, ReadOther PROVE IInv'
<1>1. /\ UNCHANGED <<t3, texts, updates, outbox, telegram>> /\ Acted
      /\ ops' = ops \/ ops' = Discover(ops, TRUE)
      /\ jobs # <<>> /\ worker.step = "reading" /\ Head(jobs) \in Texts /\ updates[Head(jobs)] = "processing"
  <2>1. At("reading") /\ UNCHANGED <<t3, texts, updates, outbox, telegram>> /\ Acted
    BY DEF ReadOther, world
  <2>2. ops' = ops \/ ops' = Discover(ops, TRUE)
    BY DEF ReadOther
  <2>3. jobs # <<>> /\ worker.step = "reading" /\ Head(jobs) \in Texts /\ updates[Head(jobs)] = "processing"
    BY <2>1, AtFacts
  <2> QED BY <2>1, <2>2, <2>3
<1>2. Advances(ops, ops')
  <2>1. CASE ops' = ops
    BY <2>1 DEF Advances, Follows, IInv
  <2>2. CASE ops' = Discover(ops, TRUE)
    BY <2>2, DiscoverFacts DEF IInv
  <2> QED BY <1>1, <2>1, <2>2
<1>3. Operations(ops', t3') /\ \A r \in Requests : ops[r].status # "none" => ops'[r].status # "none" /\ ops'[r].notice = ops[r].notice
  BY <1>1, <1>2 DEF Advances, Follows
<1>4. Messages'
  BY <1>1, <1>3, MessagesAdvance
<1>5. worker' \in WorkerType /\ worker'.step = "queueing" /\ worker'.op = None /\ worker'.decided = None
      /\ UNCHANGED jobs
  BY GotoFacts DEF ReadOther
<1>6. history.acted[Head(jobs)] = 0
  BY <1>1 DEF IInv, Reading, Working
<1>7. history' \in HistoryType /\ history'.acted[Head(jobs)] = 1
      /\ \A m \in Texts : m # Head(jobs) => history'.acted[m] = history.acted[m]
  BY <1>1, <1>6, ActedFacts
<1>8. Reading'
  <2>1. updates \in [Texts -> UpdateType] /\ ops' \in [Requests -> OperationType]
    BY <1>3 DEF IInv, Reading, Operations
  <2> QED BY <1>1, <1>3, <1>5, <1>7, <2>1, WorkerGoes
<1> QED BY <1>3, <1>4, <1>8 DEF IInv

\* The one operation that a text is about exists, and is that of the message replied to
\* when the text names none.
LEMMA SelectFacts ==
  ASSUME IInv, jobs # <<>>, NEW O, Advances(ops, O), NEW r \in Select(O)
  PROVE  /\ r \in Requests /\ O[r].status # "none"
         /\ (Text.reply # None /\ Text.named = None) => Linked = {r}
<1> DEFINE candidates == ({Text.named} \ {None}) \cup Linked
           available == {q \in Requests : O[q].status \in Contactable}
<1>1. /\ Text.reply # None => Text.reply \in 1..Len(outbox)
      /\ Text.named # None => Text.named \in Requests /\ ops[Text.named].status # "none"
  BY CurrentText DEF IInv
<1>2. ASSUME NEW q \in Linked PROVE q \in Requests /\ ops[q].status # "none"
  <2>1. Text.reply # None /\ q = outbox[Text.reply].op /\ q # None
    BY <1>2 DEF Linked
  <2>2. outbox[Text.reply] \in ItemType
    BY <1>1, <2>1, SeqFacts DEF IInv, Messages, SeqOf
  <2>3. ops[q].status # "none"
    BY <1>1, <2>1 DEF IInv, Messages, Told
  <2> QED BY <2>1, <2>2, <2>3 DEF ItemType
<1>3. \A q \in Requests : ops[q].status # "none" => O[q].status # "none"
  BY DEF Advances, Follows
<1>4. CASE Cardinality(candidates) = 1 /\ r \in candidates
  <2>1. r \in Requests /\ O[r].status # "none"
    BY <1>1, <1>2, <1>3, <1>4
  <2>2. (Text.reply # None /\ Text.named = None) => Linked = {r}
    <3>1. SUFFICES ASSUME Text.reply # None, Text.named = None PROVE Linked = {r}
      OBVIOUS
    <3>2. candidates = Linked
      BY <3>1
    <3>3. Linked \subseteq {outbox[Text.reply].op}
      BY DEF Linked
    <3> QED BY <1>4, <3>2, <3>3
  <2> QED BY <2>1, <2>2
<1>5. CASE candidates = {} /\ Text.reply = None /\ r \in available
  BY <1>5 DEF Contactable
<1> QED BY <1>4, <1>5 DEF Select

\* What a text does to the operations keeps what messages told of them.
LEMMA OperationsAdvance ==
  ASSUME IInv, UNCHANGED <<outbox, telegram>>, NEW O, Advances(ops, O), NEW r \in Requests, NEW n,
         Current(r, n, t3'), n.notice = O[r].notice, n.status # "none", ops' = [O EXCEPT ![r] = n],
         t3' \in ThreadType, \A q \in Requests : Current(q, O[q], t3) => Current(q, O[q], t3')
  PROVE  /\ Operations(ops', t3') /\ Messages' /\ ops' \in [Requests -> OperationType] /\ ops'[r] = n
         /\ \A q \in Requests : ops[q].status # "none" => ops'[q].status # "none"
<1>1. O \in [Requests -> OperationType] /\ \A q \in Requests : Current(q, O[q], t3) /\ Follows(ops[q], O[q])
  BY DEF Advances, Operations
<1>2. n \in OperationType
  BY DEF Current
<1>3. ops' \in [Requests -> OperationType] /\ ops'[r] = n /\ \A q \in Requests : q # r => ops'[q] = O[q]
  BY <1>1, <1>2
<1>4. \A q \in Requests : Current(q, ops'[q], t3')
  BY <1>1, <1>3
<1>5. \A q \in Requests : ops[q].status # "none" => ops'[q].status # "none" /\ ops'[q].notice = ops[q].notice
  BY <1>1, <1>3 DEF Follows
<1>6. Messages'
  BY <1>5, MessagesAdvance
<1> QED BY <1>3, <1>4, <1>5, <1>6 DEF Operations

LEMMA ReadTextStep == ASSUME IInv, ReadText PROVE IInv'
<1> DEFINE found == Discover(ops, TRUE)
<1>1. At("reading") /\ UNCHANGED <<t3, texts, outbox, telegram>>
  BY DEF ReadText, world
<1>2. Head(jobs) \in Texts /\ jobs # <<>> /\ worker.step = "reading" /\ updates[Head(jobs)] = "processing"
      /\ updates \in [Texts -> UpdateType] /\ history \in HistoryType /\ history.acted[Head(jobs)] = 0
      /\ Len(outbox) \in Nat
  BY <1>1, AtFacts, SeqFacts DEF IInv, Reading, Working, Messages
<1>3. Advances(ops, found)
  BY DiscoverFacts DEF IInv
<1>4. (Select(found) = {} /\ ops' = found /\ Goto("queueing", None) /\ Acted /\ UNCHANGED updates)
      \/ \E r \in Select(found) :
            IF Text.written < r
            THEN /\ ops' = found /\ Done
                 /\ updates' = [updates EXCEPT ![Head(jobs)] = "stale"] /\ UNCHANGED history
            ELSE IF IsOlder(found[r])
            THEN ops' = found /\ Goto("queueing", r) /\ Acted /\ UNCHANGED updates
            ELSE /\ \E attempt \in BOOLEAN :
                      ops' = [found EXCEPT ![r].silenced = @ \/ attempt]
                 /\ Goto("responding", r) /\ UNCHANGED <<updates, history>>
  BY DEF ReadText
<1> HIDE DEF found
<1>5. Acted => /\ history' \in HistoryType /\ history'.acted[Head(jobs)] = 1
               /\ \A m \in Texts : m # Head(jobs) => history'.acted[m] = history.acted[m]
  BY <1>2, ActedFacts
<1>6. ops' = found => /\ Operations(ops', t3') /\ Messages' /\ ops' \in [Requests -> OperationType]
                      /\ \A r \in Requests : ops[r].status # "none" => ops'[r].status # "none"
  <2>1. SUFFICES ASSUME ops' = found
        PROVE  /\ Operations(ops', t3') /\ Messages' /\ ops' \in [Requests -> OperationType]
               /\ \A r \in Requests : ops[r].status # "none" => ops'[r].status # "none"
    OBVIOUS
  <2>2. Operations(ops', t3')
        /\ \A r \in Requests : ops[r].status # "none" => ops'[r].status # "none" /\ ops'[r].notice = ops[r].notice
    BY <1>1, <1>3, <2>1 DEF Advances, Follows
  <2>3. Messages'
    BY <1>1, <2>2, MessagesAdvance
  <2> QED BY <2>2, <2>3 DEF Operations
<1>7. CASE Select(found) = {} /\ ops' = found /\ Goto("queueing", None) /\ Acted /\ UNCHANGED updates
  <2>1. worker' \in WorkerType /\ worker'.step = "queueing" /\ worker'.op = None /\ worker'.decided = None
        /\ UNCHANGED jobs
    BY <1>7, GotoFacts
  <2>2. Reading'
    BY <1>1, <1>2, <1>5, <1>6, <1>7, <2>1, WorkerGoes
  <2> QED BY <1>6, <1>7, <2>2 DEF IInv
<1>8. CASE \E r \in Select(found) :
            IF Text.written < r
            THEN /\ ops' = found /\ Done
                 /\ updates' = [updates EXCEPT ![Head(jobs)] = "stale"] /\ UNCHANGED history
            ELSE IF IsOlder(found[r])
            THEN ops' = found /\ Goto("queueing", r) /\ Acted /\ UNCHANGED updates
            ELSE /\ \E attempt \in BOOLEAN :
                      ops' = [found EXCEPT ![r].silenced = @ \/ attempt]
                 /\ Goto("responding", r) /\ UNCHANGED <<updates, history>>
  <2>1. PICK r \in Select(found) :
            \/ /\ ops' = found /\ Done
               /\ updates' = [updates EXCEPT ![Head(jobs)] = "stale"] /\ UNCHANGED history
            \/ ops' = found /\ Goto("queueing", r) /\ Acted /\ UNCHANGED updates
            \/ /\ ~IsOlder(found[r])
               /\ \E attempt \in BOOLEAN : ops' = [found EXCEPT ![r].silenced = @ \/ attempt]
               /\ Goto("responding", r) /\ UNCHANGED <<updates, history>>
    BY <1>8
  <2>2. /\ r \in Requests /\ found[r].status # "none"
        /\ (Text.reply # None /\ Text.named = None) => Linked = {r}
    BY <1>2, <1>3, SelectFacts
  <2>3. CASE ops' = found /\ Done /\ updates' = [updates EXCEPT ![Head(jobs)] = "stale"] /\ UNCHANGED history
    <3>1. jobs' = Tail(jobs) /\ worker' = Idle
      BY <2>3 DEF Done
    <3>2. updates' \in [Texts -> UpdateType] /\ updates'[Head(jobs)] # "none"
          /\ \A m \in Texts : m # Head(jobs) => updates'[m] = updates[m]
      BY <1>2, <2>3 DEF UpdateType
    <3>3. Reading'
      BY <1>1, <1>2, <1>6, <2>3, <3>1, <3>2, WorkerEnds
    <3> QED BY <1>6, <2>3, <3>3 DEF IInv
  <2>4. CASE ops' = found /\ Goto("queueing", r) /\ Acted /\ UNCHANGED updates
    <3>1. worker' \in WorkerType /\ worker'.step = "queueing" /\ worker'.op = r /\ worker'.decided = None
          /\ UNCHANGED jobs
      BY <2>2, <2>4, GotoFacts
    <3>2. Reading'
      BY <1>1, <1>2, <1>5, <1>6, <2>2, <2>4, <3>1, WorkerGoes
    <3> QED BY <1>6, <2>4, <3>2 DEF IInv
  <2>5. CASE /\ ~IsOlder(found[r])
             /\ \E attempt \in BOOLEAN : ops' = [found EXCEPT ![r].silenced = @ \/ attempt]
             /\ Goto("responding", r) /\ UNCHANGED <<updates, history>>
    <3>1. PICK attempt \in BOOLEAN : ops' = [found EXCEPT ![r].silenced = @ \/ attempt]
      BY <2>5
    <3> DEFINE silenced == found[r].silenced \/ attempt
               n == [found[r] EXCEPT !.silenced = silenced]
    <3>2. Current(r, found[r], t3) /\ found \in [Requests -> OperationType] /\ found[r] \in OperationType
      BY <1>3, <2>2 DEF Advances, Operations
    <3>3. ops' = [found EXCEPT ![r] = n]
      BY <2>2, <3>1, <3>2
    <3>4. silenced \in BOOLEAN
      BY <3>2 DEF OperationType
    <3> HIDE DEF silenced
    <3>5. n \in OperationType /\ n.status = found[r].status /\ n.request = found[r].request
          /\ n.asked = found[r].asked /\ n.submitted = found[r].submitted /\ n.notice = found[r].notice
          /\ n.reply = found[r].reply /\ n.baseline = found[r].baseline
      BY <3>2, <3>4 DEF OperationType
    <3> HIDE DEF n
    <3>6. Current(r, n, t3)
      BY <2>2, <3>2, <3>5 DEF Current, NoticeKey
    <3>7. /\ Operations(ops', t3') /\ Messages' /\ ops' \in [Requests -> OperationType] /\ ops'[r] = n
          /\ \A q \in Requests : ops[q].status # "none" => ops'[q].status # "none"
      <4>1. t3' = t3 /\ t3 \in ThreadType
        BY <1>1 DEF IInv, Operations
      <4>2. n.status # "none"
        BY <2>2, <3>5
      <4> QED BY <1>1, <1>3, <2>2, <3>3, <3>5, <3>6, <4>1, <4>2, OperationsAdvance
    <3>8. worker' \in WorkerType /\ worker'.step = "responding" /\ worker'.op = r /\ worker'.decided = None
          /\ UNCHANGED jobs
      BY <2>2, <2>5, GotoFacts
    <3>9. (Text.reply # None /\ Text.named = None) => ops'[r].request = outbox[Text.reply].request
      BY <2>2, <2>5, <3>5, <3>7 DEF IsOlder
    <3>10. r # None
      BY <2>2, Bounds DEF Requests, None
    <3>11. ops'[r].status # "none"
      BY <2>2, <3>5, <3>7
    <3>12. Reading'
      BY <1>1, <1>2, <2>2, <2>5, <3>7, <3>8, <3>9, <3>10, <3>11, WorkerGoes
    <3> QED BY <3>7, <3>12 DEF IInv
  <2> QED BY <2>1, <2>3, <2>4, <2>5
<1> QED BY <1>4, <1>7, <1>8

\* Closing the question keeps every operation current.
LEMMA ClosedThread ==
  ASSUME t3 \in ThreadType, NEW t \in {t3, [t3 EXCEPT !.open = FALSE]}
  PROVE  /\ t \in ThreadType /\ t.asked = t3.asked /\ t.replies = t3.replies
         /\ \A r, o : Current(r, o, t3) => Current(r, o, t)
<1>1. t \in ThreadType /\ t.asked = t3.asked /\ t.replies = t3.replies /\ (t.open => t3.open)
  BY DEF ThreadType
<1> QED BY <1>1 DEF Current

\* An answer changes the status of an operation, what was submitted and when.
Amends(o, n, t) ==
    /\ n \in OperationType /\ n.status \in {"open", "deferred", "completed"}
    /\ n.request = o.request /\ n.asked = o.asked /\ n.reply = o.reply /\ n.notice = o.notice
    /\ n.baseline \in {o.baseline, t.replies}
    /\ n.submitted => (o.submitted \/ ~t.open)

LEMMA AmendedIsCurrent ==
  ASSUME t3 \in ThreadType, NEW t \in {t3, [t3 EXCEPT !.open = FALSE]}, NEW r \in Requests, NEW o, NEW n,
         Current(r, o, t3), o.status # "none", Amends(o, n, t)
  PROVE  Current(r, n, t)
<1>1. Current(r, o, t) /\ t.replies \in 0..MaxReplies
  BY ClosedThread DEF ThreadType
<1>2. n.baseline <= t.replies
  <2>1. n.baseline \in {o.baseline, t.replies} /\ o.baseline <= t.replies
    BY <1>1 DEF Amends, Current
  <2> QED BY <1>1, <2>1, Bounds
<1>3. n \in OperationType /\ n.status # "none" /\ n.request = o.request /\ n.asked = o.asked
      /\ n.reply = o.reply /\ n.notice = o.notice /\ (n.submitted => (o.submitted \/ ~t.open))
  BY DEF Amends
<1> QED BY <1>1, <1>2, <1>3 DEF Current, NoticeKey

\* An answer is decided about the question the text was read for: respond refreshes the
\* operation and stops when its question has moved on.
LEMMA RespondStep == ASSUME IInv, Respond PROVE IInv'
<1> DEFINE r == worker.op
           o == ops[r]
           seen == Refresh(o)
           fresh == [seen EXCEPT !.status = "open", !.completed = FALSE, !.deferred = FALSE]
           moved == seen.status = "stale" \/ seen.request # o.request
           closed == seen.status = "completed" /\ t3.open
           ready == /\ ~moved /\ ~closed /\ ~seen.uncertain
                    /\ seen.submitted \/ Pending(seen.request)
           closedThread == [t3 EXCEPT !.open = FALSE]
           Spoken == /\ ops' = [ops EXCEPT ![r] = IF moved \/ closed THEN seen ELSE fresh]
                     /\ Goto("queueing", r) /\ Acted /\ UNCHANGED t3
           Deferred == /\ \E p \in {seen} \cup {q \in {fresh} : ~closed} :
                            ops' = [ops EXCEPT ![r] = [p EXCEPT !.status = "deferred", !.deferred = TRUE]]
                       /\ Goto("queueing", r) /\ Acted /\ UNCHANGED t3
           Sent == /\ ready
                   /\ \E decision \in BOOLEAN :
                        ops' = [ops EXCEPT ![r] = [fresh EXCEPT !.completed = decision,
                                                                !.submitted = TRUE,
                                                                !.baseline = t3.replies]]
                   /\ t3' = closedThread
                   /\ Decides("awaiting", seen) /\ Acted
           Unsure == /\ ready
                     /\ ops' = [ops EXCEPT ![r] = [fresh EXCEPT !.uncertain = TRUE]]
                     /\ t3' \in {t3, closedThread}
                     /\ Decides("queueing", seen) /\ Acted
<1>1. At("responding") /\ UNCHANGED <<texts, updates, outbox, telegram>>
  BY DEF Respond
<1>2. Head(jobs) \in Texts /\ jobs # <<>> /\ worker.step = "responding" /\ updates[Head(jobs)] = "processing"
      /\ updates \in [Texts -> UpdateType] /\ history.acted[Head(jobs)] = 0
      /\ r \in Requests /\ o.status # "none"
      /\ ((Text.reply # None /\ Text.named = None) => o.request = outbox[Text.reply].request)
  BY <1>1, AtFacts DEF IInv, Reading, Working
<1>3. Spoken \/ Deferred \/ Sent \/ Unsure
  BY DEF Respond
<1>4. Acted
  BY <1>3
<1>5. history' \in HistoryType /\ history'.acted[Head(jobs)] = 1
      /\ \A m \in Texts : m # Head(jobs) => history'.acted[m] = history.acted[m]
  BY <1>2, <1>4, ActedFacts
<1>6. Current(r, seen, t3) /\ seen.notice = o.notice /\ seen.status # "none" /\ t3 \in ThreadType
      /\ ops \in [Requests -> OperationType]
  BY <1>2, RefreshFacts DEF IInv, Operations, Follows
<1>7. /\ seen \in OperationType
      /\ seen.baseline \in {seen.baseline, t3.replies} /\ t3.replies \in {seen.baseline, t3.replies}
      /\ seen.uncertain \in BOOLEAN /\ seen.submitted \in BOOLEAN /\ seen.silenced \in BOOLEAN
      /\ seen.request \in Requests
  BY <1>6 DEF Current, OperationType
<1>8. closedThread \in {t3, closedThread} /\ ~closedThread.open /\ t3 \in {t3, closedThread}
  BY <1>6 DEF ThreadType
<1> HIDE DEF seen
<1>9. ASSUME NEW n, Current(r, n, t3'), n.notice = o.notice, n.status # "none",
             ops' = [ops EXCEPT ![r] = n], t3' \in {t3, closedThread},
             UNCHANGED jobs, worker' \in WorkerType, worker'.op = r,
             worker'.step \in {"queueing", "awaiting"},
             worker'.step = "awaiting" => n.submitted,
             worker'.decided # None => worker'.decided = o.request
      PROVE  IInv'
  <2>1. Advances(ops, ops)
    BY DEF Advances, Follows, IInv
  <2>2. t3' \in ThreadType /\ \A q \in Requests : Current(q, ops[q], t3) => Current(q, ops[q], t3')
    BY <1>6, <1>9, ClosedThread
  <2>3. /\ Operations(ops', t3') /\ Messages' /\ ops' \in [Requests -> OperationType] /\ ops'[r] = n
        /\ \A q \in Requests : ops[q].status # "none" => ops'[q].status # "none"
    BY <1>1, <1>2, <1>9, <2>1, <2>2, OperationsAdvance
  <2>4. r # None
    BY <1>2, Bounds DEF Requests, None
  <2>5. Reading'
    BY <1>1, <1>2, <1>5, <1>9, <2>3, <2>4, WorkerGoes
  <2> QED BY <2>3, <2>5 DEF IInv
<1>10. ASSUME NEW n, Amends(seen, n, t3'), ops' = [ops EXCEPT ![r] = n], t3' \in {t3, closedThread},
              UNCHANGED jobs, worker' \in WorkerType, worker'.op = r,
              worker'.step \in {"queueing", "awaiting"},
              worker'.step = "awaiting" => n.submitted,
              worker'.decided # None => worker'.decided = o.request
       PROVE  IInv'
  <2>1. Current(r, n, t3')
    BY <1>2, <1>6, <1>10, AmendedIsCurrent
  <2>2. n.notice = o.notice /\ n.status # "none"
    BY <1>6, <1>10 DEF Amends
  <2> QED BY <1>9, <1>10, <2>1, <2>2
<1>11. ASSUME Goto("queueing", r)
       PROVE  UNCHANGED jobs /\ worker' \in WorkerType /\ worker'.op = r /\ worker'.step = "queueing"
              /\ worker'.decided = None
  BY <1>2, <1>11, GotoFacts
<1>12. ASSUME NEW step \in {"queueing", "awaiting"}, Decides(step, seen)
       PROVE  UNCHANGED jobs /\ worker' \in WorkerType /\ worker'.op = r /\ worker'.step = step
              /\ worker'.decided = seen.request
  BY <1>2, <1>7, <1>12 DEF Decides, WorkerType
<1>13. /\ fresh \in OperationType /\ fresh.status = "open" /\ fresh.request = seen.request
       /\ fresh.asked = seen.asked /\ fresh.reply = seen.reply /\ fresh.notice = seen.notice
       /\ fresh.baseline = seen.baseline /\ fresh.submitted = seen.submitted
  BY <1>7 DEF OperationType
<1> HIDE DEF fresh
<1>14. CASE Spoken
  <2>1. CASE moved \/ closed
    <3>1. ops' = [ops EXCEPT ![r] = seen]
      BY <1>14, <2>1
    <3> QED BY <1>6, <1>8, <1>9, <1>11, <1>14, <3>1
  <2>2. CASE ~(moved \/ closed)
    <3>1. ops' = [ops EXCEPT ![r] = fresh]
      BY <1>14, <2>2
    <3>2. Amends(seen, fresh, t3')
      BY <1>13 DEF Amends
    <3> QED BY <1>8, <1>10, <1>11, <1>14, <3>1, <3>2
  <2> QED BY <2>1, <2>2
<1>15. CASE Deferred
  <2>1. PICK p \in {seen, fresh} :
             ops' = [ops EXCEPT ![r] = [p EXCEPT !.status = "deferred", !.deferred = TRUE]]
    BY <1>15
  <2> DEFINE n == [p EXCEPT !.status = "deferred", !.deferred = TRUE]
  <2>2. ops' = [ops EXCEPT ![r] = n]
    BY <2>1
  <2>3. /\ p \in OperationType /\ p.request = seen.request /\ p.asked = seen.asked
        /\ p.reply = seen.reply /\ p.notice = seen.notice /\ p.baseline = seen.baseline
        /\ p.submitted = seen.submitted
    BY <1>7, <1>13
  <2>4. Amends(seen, n, t3')
    BY <2>3 DEF Amends, OperationType
  <2> HIDE DEF n
  <2> QED BY <1>8, <1>10, <1>11, <1>15, <2>2, <2>4
<1>16. CASE Sent
  <2>1. PICK decision \in BOOLEAN :
             ops' = [ops EXCEPT ![r] = [fresh EXCEPT !.completed = decision, !.submitted = TRUE,
                                                     !.baseline = t3.replies]]
    BY <1>16
  <2> DEFINE n == [fresh EXCEPT !.completed = decision, !.submitted = TRUE, !.baseline = t3.replies]
  <2>2. Decides("awaiting", seen) /\ t3' = closedThread /\ seen.request = o.request
    BY <1>16
  <2>3. n.submitted = TRUE
    BY <1>13 DEF OperationType
  <2>4. Amends(seen, n, t3')
    <3>1. t3'.replies = t3.replies /\ ~t3'.open /\ t3.replies \in 0..MaxReplies
      BY <1>6, <2>2 DEF ThreadType
    <3>2. n \in OperationType /\ n.status = "open" /\ n.request = fresh.request /\ n.asked = fresh.asked
          /\ n.reply = fresh.reply /\ n.notice = fresh.notice /\ n.baseline = t3.replies
      BY <1>13, <3>1 DEF OperationType
    <3> HIDE DEF n
    <3> QED BY <1>13, <3>1, <3>2 DEF Amends
  <2>5. ops' = [ops EXCEPT ![r] = n]
    BY <2>1
  <2> HIDE DEF n
  <2> QED BY <1>8, <1>10, <1>12, <2>2, <2>3, <2>4, <2>5
<1>17. CASE Unsure
  <2> DEFINE n == [fresh EXCEPT !.uncertain = TRUE]
  <2>1. Amends(seen, n, t3')
    BY <1>13 DEF Amends, OperationType
  <2>2. Decides("queueing", seen) /\ t3' \in {t3, closedThread} /\ seen.request = o.request
    BY <1>17
  <2>3. ops' = [ops EXCEPT ![r] = n]
    BY <1>17
  <2> HIDE DEF n
  <2> QED BY <1>10, <1>12, <2>1, <2>2, <2>3
<1> QED BY <1>3, <1>14, <1>15, <1>16, <1>17

\* The dialog hears the agent; the answer is still owed.
LEMMA AwaitsStep == ASSUME IInv, Awaits PROVE IInv'
<1> DEFINE r == worker.op
           o == Observe(ops[r])
           status == IF o.completed THEN "completed" ELSE o.status
           n == [o EXCEPT !.status = status]
<1>1. At("awaiting") /\ UNCHANGED <<t3, texts, updates, outbox, telegram, history>>
      /\ ops' = [ops EXCEPT ![r] = [o EXCEPT !.status = IF o.completed THEN "completed" ELSE @]]
      /\ Goto("queueing", r)
  BY DEF Awaits, world
<1>2. Head(jobs) \in Texts /\ jobs # <<>> /\ worker.step = "awaiting" /\ updates[Head(jobs)] = "processing"
      /\ updates \in [Texts -> UpdateType] /\ history \in HistoryType /\ history.acted[Head(jobs)] <= 1
      /\ r \in Requests /\ ops[r].status # "none" /\ ops[r].submitted
  BY <1>1, AtFacts DEF IInv, Reading, Working
<1>3. Current(r, n, t3) /\ Follows(ops[r], n) /\ t3 \in ThreadType /\ ops \in [Requests -> OperationType]
      /\ o \in OperationType
  <2>1. Current(r, o, t3) /\ Follows(ops[r], o) /\ t3 \in ThreadType /\ ops \in [Requests -> OperationType]
    BY <1>2, ObserveFacts DEF IInv, Operations
  <2> HIDE DEF o
  <2>2. o \in OperationType /\ o.status # "none"
    BY <1>2, <2>1 DEF Current, Follows
  <2>3. status \in {"open", "deferred", "completed", "stale"}
    BY <2>2 DEF OperationType
  <2> HIDE DEF status
  <2>4. Current(r, n, t3) /\ Follows(o, n)
    BY <1>2, <2>1, <2>2, <2>3, StatusFacts
  <2> QED BY <1>2, <2>1, <2>2, <2>4 DEF Follows
<1>4. ops' = [ops EXCEPT ![r] = n]
  <2> HIDE DEF o
  <2> QED BY <1>1, <1>3 DEF OperationType
<1> HIDE DEF n
<1>5. worker' \in WorkerType /\ worker'.step = "queueing" /\ worker'.op = r /\ worker'.decided = None
      /\ UNCHANGED jobs
  BY <1>1, <1>2, GotoFacts
<1>6. Advances(ops, ops)
  BY DEF Advances, Follows, IInv
<1>7. /\ Operations(ops', t3') /\ Messages' /\ ops' \in [Requests -> OperationType] /\ ops'[r] = n
      /\ \A q \in Requests : ops[q].status # "none" => ops'[q].status # "none"
  <2>1. n.notice = ops[r].notice /\ n.status # "none" /\ t3' = t3 /\ Current(r, n, t3')
        /\ UNCHANGED <<outbox, telegram>> /\ t3 \in ThreadType /\ r \in Requests
        /\ ops \in [Requests -> OperationType]
    BY <1>1, <1>2, <1>3 DEF Follows
  <2>2. t3' \in ThreadType /\ \A q \in Requests : Current(q, ops[q], t3) => Current(q, ops[q], t3')
    BY <2>1
  <2> HIDE DEF r
  <2> QED BY <1>4, <1>6, <2>1, <2>2, OperationsAdvance
<1>8. Reading'
  <2>1. ops'[r].status # "none"
    BY <1>2, <1>3, <1>7 DEF Follows
  <2> QED BY <1>1, <1>2, <1>5, <1>7, <2>1, WorkerGoes
<1> QED BY <1>7, <1>8 DEF IInv

\* The answer is the latest message about its operation.
LEMMA AnswerTextStep == ASSUME IInv, AnswerText PROVE IInv'
<1>1. At("queueing") /\ QueueText(ops, worker.op, "reply", Head(jobs))
      /\ updates' = [updates EXCEPT ![Head(jobs)] = "handled"] /\ jobs' = Tail(jobs) /\ worker' = Idle
      /\ UNCHANGED <<t3, texts, history>>
  BY DEF AnswerText, Done, world
<1>2. Head(jobs) \in Texts /\ jobs # <<>> /\ worker.op \in Requests \cup {None}
      /\ (worker.op # None => ops[worker.op].status # "none")
      /\ updates \in [Texts -> UpdateType] /\ history \in HistoryType /\ Len(outbox) \in Nat
  BY <1>1, AtFacts, SeqFacts DEF IInv, Reading, Messages
<1>3. Advances(ops, ops)
  BY DEF Advances, Follows, IInv
<1>4. /\ Messages' /\ Operations(ops', t3)
      /\ \A q \in Requests : ops[q].status # "none" => ops'[q].status # "none"
      /\ Len(outbox') = Len(outbox) + 1
  BY <1>1, <1>2, <1>3, QueueTextFacts DEF IInv
<1>5. updates' \in [Texts -> UpdateType] /\ updates'[Head(jobs)] # "none"
      /\ \A m \in Texts : m # Head(jobs) => updates'[m] = updates[m]
  BY <1>1, <1>2 DEF UpdateType
<1>6. Reading'
  <2>1. ops' \in [Requests -> OperationType] /\ Len(outbox') \in Nat /\ Len(outbox) <= Len(outbox')
    BY <1>2, <1>4 DEF Operations
  <2> QED BY <1>1, <1>2, <1>4, <1>5, <2>1, WorkerEnds
<1>7. Operations(ops', t3')
  BY <1>1, <1>4
<1> QED BY <1>4, <1>6, <1>7 DEF IInv

LEMMA TextFailsStep == ASSUME IInv, TextFails PROVE IInv'
<1>1. PICK step \in {"reading", "responding"} : At(step)
  BY DEF TextFails
<1>2. history' = [history EXCEPT !.dropped = @ \cup {Head(jobs)}] /\ jobs' = Tail(jobs) /\ worker' = Idle
      /\ UNCHANGED <<t3, texts, ops, updates, outbox, telegram>>
  BY DEF TextFails, Done, world, durable
<1>3. Head(jobs) \in Texts /\ jobs # <<>> /\ updates \in [Texts -> UpdateType]
      /\ history \in HistoryType /\ Len(outbox) \in Nat /\ ops \in [Requests -> OperationType]
  BY <1>1, AtFacts, SeqFacts DEF IInv, Reading, Messages, Operations
<1>4. history' \in HistoryType /\ history'.acted = history.acted
  BY <1>2, <1>3 DEF HistoryType
<1>5. Operations(ops', t3') /\ Messages'
  BY <1>2 DEF IInv, Messages, Told, OnlyNews
<1>6. Reading'
  BY <1>2, <1>3, <1>4, WorkerEnds
<1> QED BY <1>5, <1>6 DEF IInv

-----------------------------------------------------------------------------
(* Scans, the ends of attempts, and the main loop.                             *)

\* What leaves the texts and the worker alone, while none is read or no operation changes.
LEMMA Elsewhere ==
  ASSUME IInv, UNCHANGED <<texts, jobs, updates, worker, history>>,
         Operations(ops', t3'), Messages', jobs = <<>>,
         \A r \in Requests : ops[r].status # "none" => ops'[r].status # "none",
         Len(outbox) <= Len(outbox'),
         \A i \in 1..Len(outbox) : outbox'[i].request = outbox[i].request
  PROVE  IInv'
<1>1. Len(outbox) \in Nat /\ Len(outbox') \in Nat
      /\ ops \in [Requests -> OperationType] /\ ops' \in [Requests -> OperationType]
  BY SeqFacts DEF IInv, Messages, Operations
<1>2. Reading'
  BY <1>1, Undisturbed DEF IInv
<1> QED BY <1>2 DEF IInv

\* Operations that advance with no message.
LEMMA Silently ==
  ASSUME IInv, UNCHANGED <<t3, texts, jobs, updates, worker, history, outbox, telegram>>, jobs = <<>>,
         Advances(ops, ops')
  PROVE  IInv'
<1>1. Operations(ops', t3')
      /\ \A r \in Requests : ops[r].status # "none" => ops'[r].status # "none" /\ ops'[r].notice = ops[r].notice
  BY DEF Advances, Follows
<1>2. Messages'
  BY <1>1, MessagesAdvance
<1>3. Len(outbox) \in Nat
  BY SeqFacts DEF IInv, Messages
<1> QED BY <1>1, <1>2, <1>3, Elsewhere

\* A message of the service's own.
LEMMA OnItsOwn ==
  ASSUME IInv, UNCHANGED <<t3, texts, jobs, updates, worker, history>>, jobs = <<>>,
         NEW O, Advances(ops, O), NEW r \in Requests, O[r].status # "none",
         NEW purpose \in {"first", "source_reply"}, QueueText(O, r, purpose, None),
         purpose = "source_reply" => O[r].notice # NoticeKey(O[r])
  PROVE  IInv'
<1>1. r # None
  BY Bounds DEF Requests, None
<1>2. /\ Messages' /\ Operations(ops', t3)
      /\ \A q \in Requests : O[q].status # "none" => ops'[q].status # "none"
      /\ Len(outbox') = Len(outbox) + 1 /\ \A i \in 1..Len(outbox) : outbox'[i] = outbox[i]
  BY <1>1, QueueTextFacts DEF IInv
<1>3. Len(outbox) \in Nat
  BY SeqFacts DEF IInv, Messages
<1>4. \A q \in Requests : ops[q].status # "none" => ops'[q].status # "none"
  BY <1>2 DEF Advances, Follows
<1>5. Operations(ops', t3')
  BY <1>2
<1> QED BY <1>2, <1>3, <1>4, <1>5, Elsewhere

LEMMA ScanStep == ASSUME IInv, NEW due \in BOOLEAN, Scan(due) PROVE IInv'
<1> DEFINE found == Discover(ops, due)
           news == {r \in Requests : found[r].status = "open" /\ HasNews(found[r])}
<1>1. jobs = <<>> /\ UNCHANGED <<t3, texts, jobs, updates, worker, history>>
  BY DEF Scan, world
<1>2. (\E r \in news : OwnBound /\ QueueText(found, r, "source_reply", None))
      \/ (news = {} /\ ops' = found /\ UNCHANGED <<outbox, telegram, outgoing>>)
  BY DEF Scan
<1>3. Advances(ops, found)
  BY DiscoverFacts DEF IInv
<1> HIDE DEF found
<1>4. CASE \E r \in news : OwnBound /\ QueueText(found, r, "source_reply", None)
  <2>1. PICK r \in news : QueueText(found, r, "source_reply", None)
    BY <1>4
  <2>2. r \in Requests /\ found[r].status # "none" /\ found[r].notice # NoticeKey(found[r])
    BY DEF HasNews
  <2> QED BY <1>1, <1>3, <2>1, <2>2, OnItsOwn
<1>5. CASE news = {} /\ ops' = found /\ UNCHANGED <<outbox, telegram, outgoing>>
  BY <1>1, <1>3, <1>5, Silently
<1> QED BY <1>2, <1>4, <1>5

LEMMA FinishAttemptStep == ASSUME IInv, NEW r \in Requests, FinishAttempt(r) PROVE IInv'
<1> DEFINE n == Refresh(ops[r])
           found == [ops EXCEPT ![r] = n]
<1>1. jobs = <<>> /\ UNCHANGED <<t3, texts, jobs, updates, worker, history>> /\ ops[r].status # "none"
  BY DEF FinishAttempt, world
<1>2. IF found[r].status = "open" THEN OwnBound /\ QueueText(found, r, "first", None)
      ELSE ops' = found /\ UNCHANGED <<outbox, telegram, outgoing>>
  BY DEF FinishAttempt
<1>3. Current(r, n, t3) /\ Follows(ops[r], n) /\ t3 \in ThreadType /\ ops \in [Requests -> OperationType]
  BY <1>1, RefreshFacts DEF IInv, Operations
<1> HIDE DEF n
<1>4. Advances(ops, found)
  <2>1. n \in OperationType
    BY <1>3 DEF Current
  <2>2. found \in [Requests -> OperationType]
    BY <1>3, <2>1
  <2>3. \A q \in Requests : Current(q, found[q], t3) /\ Follows(ops[q], found[q])
    BY <1>3 DEF IInv, Operations, Follows
  <2> QED BY <1>3, <2>2, <2>3 DEF Advances, Operations
<1> HIDE DEF found
<1>5. CASE found[r].status = "open"
  BY <1>1, <1>2, <1>4, <1>5, OnItsOwn
<1>6. CASE found[r].status # "open"
  BY <1>1, <1>2, <1>4, <1>6, Silently
<1> QED BY <1>5, <1>6

LEMMA CallAnswersStep == ASSUME IInv, NEW r \in Requests, CallAnswers(r) PROVE IInv'
<1> DEFINE found == OpenOperations(ops)
           closedThread == [t3 EXCEPT !.open = FALSE]
<1>1. jobs = <<>> /\ UNCHANGED <<texts, jobs, updates, worker, history, outbox, telegram>>
      /\ t3' = closedThread /\ found[r].status \in Contactable
  BY DEF CallAnswers
<1> DEFINE status(decision) == IF decision THEN "completed" ELSE "open"
<1>2. PICK decision \in BOOLEAN :
          ops' = [found EXCEPT ![r].status = status(decision), ![r].completed = decision,
                               ![r].deferred = FALSE, ![r].submitted = TRUE,
                               ![r].baseline = t3.replies, ![r].silenced = FALSE]
  BY DEF CallAnswers
<1>3. Advances(ops, found)
  BY OpenOperationsFacts DEF IInv
<1> HIDE DEF found
<1> DEFINE n == [found[r] EXCEPT !.status = status(decision), !.completed = decision,
                                 !.deferred = FALSE, !.submitted = TRUE,
                                 !.baseline = t3.replies, !.silenced = FALSE]
<1>4. t3 \in ThreadType /\ found \in [Requests -> OperationType] /\ found[r] \in OperationType
      /\ Current(r, found[r], t3)
  BY <1>3 DEF Advances, Operations
<1>5. ops' = [found EXCEPT ![r] = n]
  BY <1>2, <1>4
<1>6. Amends(found[r], n, t3')
  <2>1. t3'.replies = t3.replies /\ ~t3'.open /\ t3.replies \in 0..MaxReplies
    BY <1>1, <1>4 DEF ThreadType
  <2>2. status(decision) \in {"open", "completed"}
    OBVIOUS
  <2> HIDE DEF status
  <2>3. n \in OperationType /\ n.status = status(decision) /\ n.request = found[r].request
        /\ n.asked = found[r].asked /\ n.reply = found[r].reply /\ n.notice = found[r].notice
        /\ n.baseline = t3.replies
    BY <1>4, <2>1, <2>2 DEF OperationType
  <2> HIDE DEF n
  <2> QED BY <2>1, <2>2, <2>3 DEF Amends
<1> HIDE DEF n
<1>7. found[r].status # "none" /\ t3' \in {t3, closedThread}
  BY <1>1 DEF Contactable
<1>8. Current(r, n, t3')
  BY <1>4, <1>6, <1>7, AmendedIsCurrent
<1>9. t3' \in ThreadType /\ \A q \in Requests : Current(q, found[q], t3) => Current(q, found[q], t3')
  BY <1>4, <1>7, ClosedThread
<1>10. n.notice = found[r].notice /\ n.status # "none"
  BY <1>6 DEF Amends
<1>11. /\ Operations(ops', t3') /\ Messages'
       /\ \A q \in Requests : ops[q].status # "none" => ops'[q].status # "none"
  BY <1>1, <1>3, <1>5, <1>8, <1>9, <1>10, OperationsAdvance
<1>12. Len(outbox) \in Nat
  BY SeqFacts DEF IInv, Messages
<1> QED BY <1>1, <1>11, <1>12, Elsewhere

LEMMA HandOverStep == ASSUME IInv, HandOver PROVE IInv'
<1>1. UNCHANGED <<t3, ops, updates, outbox, texts, jobs, worker, history>>
      /\ telegram' = Give(telegram, outgoing)
  BY DEF HandOver, durable
<1>2. telegram' \in Seq(TelegramType) /\ Len(telegram') = Len(telegram)
  <2>1. telegram \in Seq(TelegramType) /\ DOMAIN telegram = 1..Len(telegram) /\ Len(telegram) \in Nat
        /\ \A i \in 1..Len(telegram) : telegram[i] \in TelegramType
    BY SeqFacts DEF IInv, Messages, SeqOf
  <2>2. telegram' \in [1..Len(telegram) -> TelegramType]
    BY <1>1, <2>1 DEF Give, TelegramType
  <2> QED BY <2>1, <2>2, SeqDef
<1>3. Messages'
  BY <1>1, <1>2 DEF IInv, Messages, Told, OnlyNews
<1>4. Reading'
  BY <1>1 DEF IInv, Reading, Referring, Working, ReplyFits, Text
<1> QED BY <1>1, <1>3, <1>4 DEF IInv

LEMMA CloseStep == ASSUME IInv, Close PROVE IInv'
<1>1. UNCHANGED <<t3, ops, updates, outbox, telegram, texts, worker>> /\ worker = Idle /\ jobs' = <<>>
      /\ history' = [history EXCEPT !.dropped = @ \cup {m \in Texts : Waiting(m)}]
  BY DEF Close, durable
<1>2. history' \in HistoryType /\ history'.acted = history.acted
  BY <1>1 DEF IInv, Reading, HistoryType
<1>3. Operations(ops', t3') /\ Messages'
  BY <1>1 DEF IInv, Messages, Told, OnlyNews
<1>4. Idle.step = "idle" /\ Idle.op = None /\ Idle.decided = None
  BY DEF Idle
<1>5. Working' /\ ReplyFits'
  BY <1>1, <1>2, <1>4 DEF IInv, Reading, Working, ReplyFits
<1>6. Referring'
  BY <1>1 DEF IInv, Reading, Referring
<1>7. jobs' \in Seq(Texts)
  BY <1>1
<1> QED BY <1>1, <1>2, <1>3, <1>5, <1>6, <1>7 DEF IInv, Reading

\* What is saved is enough to start again from, wherever the worker was.
LEMMA StopsStep ==
  ASSUME IInv, Stops, history' \in HistoryType, history'.acted = history.acted
  PROVE  IInv'
<1>1. /\ UNCHANGED <<t3, ops, updates, outbox, texts>> /\ worker' = Idle
      /\ telegram' \in [DOMAIN telegram -> {"none", "given", "sent"}]
      /\ jobs' \in {<<>>} \cup {<<m>> : m \in {n \in Texts : Waiting(n)}}
  BY DEF Stops, durable
<1>2. telegram' \in Seq(TelegramType) /\ Len(telegram') = Len(telegram)
  <2>1. telegram \in Seq(TelegramType) /\ DOMAIN telegram = 1..Len(telegram) /\ Len(telegram) \in Nat
    BY SeqFacts DEF IInv, Messages, SeqOf
  <2>2. telegram' \in [1..Len(telegram) -> TelegramType]
    BY <1>1, <2>1 DEF TelegramType
  <2> QED BY <2>1, <2>2, SeqDef
<1>3. Messages' /\ Operations(ops', t3')
  BY <1>1, <1>2 DEF IInv, Messages, Told, OnlyNews
<1>4. ASSUME NEW m \in Texts, Waiting(m) PROVE m <= Len(texts)
  <2>1. CASE updates[m] = "processing"
    BY <2>1 DEF IInv, Reading, Referring
  <2>2. CASE \E i \in DOMAIN jobs : jobs[i] = m
    BY <2>2, SeqFacts DEF IInv, Reading, Referring, SeqOf
  <2> QED BY <1>4, <2>1, <2>2 DEF Waiting
<1>5. jobs' \in Seq(Texts) /\ \A i \in 1..Len(jobs') : jobs'[i] <= Len(texts)
  <2>1. CASE jobs' = <<>>
    BY <2>1
  <2>2. CASE \E m \in Texts : Waiting(m) /\ jobs' = <<m>>
    BY <1>4, <2>2
  <2> QED BY <1>1, <2>1, <2>2
<1>6. Referring'
  BY <1>1, <1>5 DEF IInv, Reading, Referring
<1>7. Idle \in WorkerType /\ Idle.step = "idle" /\ Idle.op = None /\ Idle.decided = None
  BY DEF Idle, WorkerType
<1>8. Working' /\ ReplyFits'
  BY <1>1, <1>7 DEF IInv, Reading, Working, ReplyFits
<1>9. Reading'
  BY <1>1, <1>5, <1>6, <1>7, <1>8 DEF IInv, Reading
<1> QED BY <1>3, <1>9 DEF IInv

LEMMA ExitStep == ASSUME IInv, Exit PROVE IInv'
  BY StopsStep DEF Exit, IInv, Reading

LEMMA CrashStep == ASSUME IInv, Crash PROVE IInv'
<1>1. history' \in HistoryType /\ history'.acted = history.acted
  <2> DEFINE lost == {m \in Texts : Waiting(m) \/ \E n \in DOMAIN outgoing : outbox[outgoing[n]].to = m}
  <2>1. history' = [history EXCEPT !.dropped = @ \cup lost] /\ lost \subseteq Texts
    BY DEF Crash
  <2> HIDE DEF lost
  <2> QED BY <2>1 DEF IInv, Reading, HistoryType
<1> QED BY <1>1, StopsStep DEF Crash

-----------------------------------------------------------------------------
(* The theorems.                                                               *)

LEMMA Inductive == IInv /\ [Next]_vars => IInv'
<1> SUFFICES ASSUME IInv, [Next]_vars PROVE IInv'
  OBVIOUS
<1>1. CASE \E reply \in Shown \cup {None}, named \in Names : WriteText(reply, named)
  BY <1>1, WriteTextStep
<1>2. CASE Asks \/ Closes \/ Replies
  BY <1>2, ThreadSteps
<1>3. CASE \E i \in DOMAIN telegram : Sends(i)
  BY <1>3, SendsStep
<1>4. CASE Worker
  BY <1>4, TakeTextStep, ReadOtherStep, ReadTextStep, RespondStep, AwaitsStep, AnswerTextStep, TextFailsStep
     DEF Worker
<1>5. CASE \E due \in BOOLEAN : Scan(due)
  BY <1>5, ScanStep
<1>6. CASE \E r \in Requests : CallAnswers(r) \/ FinishAttempt(r)
  BY <1>6, CallAnswersStep, FinishAttemptStep
<1>7. CASE HandOver \/ Close \/ Exit \/ Crash
  BY <1>7, HandOverStep, CloseStep, ExitStep, CrashStep
<1>8. CASE UNCHANGED vars
  <2>1. UNCHANGED <<t3, ops, updates, outbox, telegram, jobs, worker, texts, history>>
    BY <1>8 DEF vars, durable
  <2> QED BY <2>1 DEF IInv, Messages, Told, OnlyNews, Reading, Referring, Working, ReplyFits, Text
<1> QED BY <1>1, <1>2, <1>3, <1>4, <1>5, <1>6, <1>7, <1>8 DEF Next

\* The inductive invariant holds in every state.
THEOREM Invariance == Spec => []IInv
  BY Initially, Inductive, PTL DEF Spec

\* Every variable keeps its type, and a text that is being read is saved as such
\* (conversations.py: message).
THEOREM TypeCorrect == Spec => []TypeOK
<1>1. IInv => TypeOK
  BY TypesFollow
<1> QED BY <1>1, Invariance, PTL

\* A text is acted upon at most once, whatever stops the service (conversations.py:450).
THEOREM NothingReplayed == Spec => []ActedOnce
<1>1. IInv => ActedOnce
  BY TypesFollow
<1> QED BY <1>1, Invariance, PTL

\* A text that replies to a message about a question decides no other (conversations.py:
\* message, select, respond).
THEOREM RepliesFit == Spec => []ReplyFits
<1>1. IInv => ReplyFits
  BY TypesFollow
<1> QED BY <1>1, Invariance, PTL

\* What the service writes on its own is news (conversations.py: poll_dialogs).
THEOREM NewsOnly == Spec => []OnlyNews
<1>1. IInv => OnlyNews
  BY TypesFollow
<1> QED BY <1>1, Invariance, PTL
=============================================================================
