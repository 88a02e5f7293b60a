---------------------- MODULE ControlConnectionProofs ----------------------
(* For any number of subscriptions and requests on a connection, and queues   *)
(* and a bus of any size: a subscriber can account for every event.           *)
EXTENDS ControlConnection, TLAPS

(* The lines for s that are queued before place j. *)
Before(s, j) == {i \in 1..(j - 1) : queue[i].from = s}
Behind(s)    == {i \in 1..Len(queue) : queue[i].from = s}

(* Event m of stream s needs no word: the filter withholds it, or a line in   *)
(* the places I is about it or about a later one.                             *)
Settled(s, m, I) == ~Belongs(s, m) \/ \E i \in I : m <= queue[i].n

(* Each line of s that is queued follows on those before it.                  *)
QueueFollows(s) ==
    \A j \in Behind(s) :
        /\ account.known[s] < queue[j].n /\ queue[j].n < stream[s].next
        /\ \A i \in Before(s, j) : queue[i].n < queue[j].n
        /\ \A m \in Nat : account.known[s] < m /\ m < queue[j].n =>
              m > queue[j].n - queue[j].lost \/ Settled(s, m, Before(s, j))

(* So does the line in the hands of its task.                                 *)
HandFollows(s) ==
    LET f == stream[s].frame IN
    f # NoFrame =>
        /\ f.from = s /\ account.known[s] < f.n /\ f.n < stream[s].next
        /\ \A i \in Behind(s) : queue[i].n < f.n
        /\ \A m \in Nat : account.known[s] < m /\ m < f.n =>
              m > f.n - f.lost \/ Settled(s, m, Behind(s))

(* And what the task has read is queued, in its hands, or nobody's business.  *)
ReadIsTold(s) ==
    stream[s].pc \in {"recv", "send"} =>
        /\ account.known[s] < stream[s].next
        /\ \A m \in Nat : account.known[s] < m /\ m < stream[s].next =>
              Settled(s, m, Behind(s)) \/ (stream[s].frame # NoFrame /\ m <= stream[s].frame.n)

(* Only a task that is at work has a line in its hands.                       *)
HandsInv ==
    \A s \in Streams :
        /\ stream[s].frame # NoFrame => stream[s].pc \in {"send", "aborted"}
        /\ stream[s].pc = "unused" => stream[s].next = 0

Linked(s) == QueueFollows(s) /\ HandFollows(s) /\ ReadIsTold(s)

ChainInv == writer = "up" => \A s \in Streams : Linked(s)

ControlInv == ControlTypeOK /\ HandsInv /\ ChainInv

LEMMA ControlInitInv == ControlInit => ControlInv
<1> SUFFICES ASSUME ControlInit PROVE ControlInv
  OBVIOUS
<1>1. NoFrame \in Frames /\ NoFrame.from = 0
  BY ConnectionAssumption DEF NoFrame, Frames, Ids
<1>2. Unused \in Subscriptions
  BY <1>1 DEF Unused, Subscriptions, Ids
<1>3. ControlTypeOK
  <2>1. /\ published \in Nat /\ gone \subseteq 1..published
        /\ writer \in {"up", "down"} /\ peer \in {"up", "shut", "gone"}
        /\ subs \in [RequestIds -> 0..MaxSubs] /\ requests \subseteq RequestIds
        /\ \A i \in RequestIds : subs[i] = 0
    BY ConnectionAssumption DEF ControlInit
  <2>2. reader \in [pc : {"open", "reply", "draining", "closed"}, reply : Frames] /\ reader.reply.from = 0
    BY <1>1 DEF ControlInit
  <2>3. queue \in Seq(Frames) /\ Len(queue) = 0 /\ queue = <<>>
    BY DEF ControlInit
  <2>4. stream \in [Streams -> Subscriptions] /\ \A s \in Streams : stream[s].next = 0
    BY <1>2 DEF ControlInit, Unused
  <2>5. account \in [known : [Streams -> Nat], reused : BOOLEAN, broken : BOOLEAN]
    BY DEF ControlInit
  <2>. QED BY <2>1, <2>2, <2>3, <2>4, <2>5, ConnectionAssumption DEF ControlTypeOK
<1>4. HandsInv /\ ChainInv
  <2>1. \A s \in Streams : stream[s].frame = NoFrame /\ stream[s].pc = "unused" /\ stream[s].next = 0
    BY DEF ControlInit, Unused
  <2>2. \A s \in Streams : Behind(s) = {}
    BY DEF ControlInit, Behind
  <2>. QED BY <2>1, <2>2 DEF HandsInv, ChainInv, Linked, QueueFollows, HandFollows, ReadIsTold
<1>. QED BY <1>3, <1>4 DEF ControlInv

-----------------------------------------------------------------------------
(* Types. *)
LEMMA SendKeepsTypes ==
  ASSUME ControlTypeOK, NEW l \in Frames, Send(l), UNCHANGED writer
  PROVE  queue' \in Seq(Frames) /\ Len(queue') <= WriteQueue /\ (writer' = "down" => queue' = <<>>)
<1>1. CASE writer = "down"
  BY <1>1 DEF ControlTypeOK, Send
<1>2. CASE writer = "up"
  <2>1. queue \in Seq(Frames) /\ Len(queue) < WriteQueue /\ queue' = Append(queue, l)
    BY <1>2 DEF ControlTypeOK, Send
  <2>2. queue' \in Seq(Frames) /\ Len(queue') = Len(queue) + 1 /\ Len(queue) \in Nat /\ WriteQueue \in Nat
    BY <2>1, ConnectionAssumption
  <2>. QED BY <1>2, <2>1, <2>2
<1>. QED BY <1>1, <1>2 DEF ControlTypeOK

LEMMA BusKeepsTypes ==
  ASSUME ControlTypeOK, Publish \/ ClearCaptures \/ PeerLeaves
  PROVE  ControlTypeOK'
<1>1. CASE Publish
  <2>1. published' = published + 1 /\ published \in Nat /\ gone' \subseteq 1..published'
    BY <1>1 DEF Publish, ControlTypeOK
  <2>2. \A s \in Streams : stream'[s].next <= published' + 1
    BY <1>1, <2>1 DEF Publish, ControlTypeOK, Subscriptions
  <2>. QED BY <1>1, <2>1, <2>2 DEF Publish, ControlTypeOK
<1>2. CASE ClearCaptures
  BY <1>2 DEF ClearCaptures, ControlTypeOK
<1>3. CASE PeerLeaves
  BY <1>3 DEF PeerLeaves, ControlTypeOK
<1>. QED BY <1>1, <1>2, <1>3

LEMMA ReplyIsAFrame ==
  ASSUME NEW i \in RequestIds \cup {"-"}, NEW k \in {"ok", "err"}
  PROVE  Reply(k, i) \in Frames /\ Reply(k, i).from = 0
<1>1. PICK y : y = Reply(k, i)
  OBVIOUS
<1>2. y = [kind |-> k, id |-> i, from |-> 0, n |-> 0, lost |-> 0]
  BY <1>1 DEF Reply
<1>3. 0 \in 0..MaxSubs /\ i \in Ids
  <2>1. 0 \in 0..MaxSubs
    BY ConnectionAssumption
  <2>2. i \in Ids
    BY DEF Ids
  <2>. QED BY <2>1, <2>2
<1>4. y \in Frames /\ y.from = 0
  <2>1. CASE k = "ok"
    BY <1>2, <1>3, <2>1 DEF Frames
  <2>2. CASE k = "err"
    BY <1>2, <1>3, <2>2 DEF Frames
  <2>. QED BY <2>1, <2>2
<1>. QED BY <1>1, <1>4

LEMMA AbortKeepsTypes ==
  ASSUME ControlTypeOK, NEW S, stream' = Abort(S)
  PROVE  /\ stream' \in [Streams -> Subscriptions]
         /\ \A s \in Streams : stream'[s].id = stream[s].id
         /\ \A s \in Streams : stream'[s].next = stream[s].next
         /\ \A s \in Streams : stream[s].pc # "unused" => stream'[s].pc # "unused"
<1>1. \A s \in Streams : stream[s] \in Subscriptions
  BY DEF ControlTypeOK
<1>2. \A x \in Subscriptions : /\ [x EXCEPT !.pc = "aborted"] \in Subscriptions
                               /\ [x EXCEPT !.pc = "aborted"].id = x.id
                               /\ [x EXCEPT !.pc = "aborted"].pc # "unused"
                               /\ [x EXCEPT !.pc = "aborted"].next = x.next
  BY DEF Subscriptions
<1>3. \A s \in Streams : stream'[s] = IF s \in S /\ Running(s) THEN [stream[s] EXCEPT !.pc = "aborted"] ELSE stream[s]
  BY DEF Abort
<1>4. stream' = [s \in Streams |-> stream'[s]]
  BY DEF Abort
<1>5. stream' \in [Streams -> Subscriptions]
  BY <1>1, <1>2, <1>3, <1>4
<1>6. ASSUME NEW s \in Streams
      PROVE  /\ stream'[s].id = stream[s].id /\ stream'[s].next = stream[s].next
             /\ stream[s].pc # "unused" => stream'[s].pc # "unused"
  BY <1>1, <1>2, <1>3
<1>. QED BY <1>5, <1>6

LEMMA ReaderKeepsTypes ==
  ASSUME ControlTypeOK,
         \/ Malformed \/ SendReply \/ EndOfInput \/ ReadError \/ Drained
         \/ \E i \in RequestIds : Unsubscribe(i) \/ Submit(i) \/ FinishRequest(i)
  PROVE  ControlTypeOK'
<1>0. NoFrame \in Frames /\ NoFrame.from = 0
  BY ConnectionAssumption DEF NoFrame, Frames, Ids
<1>1. \A i \in RequestIds \cup {"-"}, k \in {"ok", "err"} : Reply(k, i) \in Frames /\ Reply(k, i).from = 0
  BY ReplyIsAFrame
<1>3. CASE Malformed
  BY <1>1, <1>3 DEF Malformed, Answers, ControlTypeOK
<1>4. CASE SendReply
  <2>1. reader.reply \in Frames
    BY DEF ControlTypeOK
  <2>. QED BY <1>0, <1>4, <2>1, SendKeepsTypes DEF SendReply, ControlTypeOK
<1>5. CASE EndOfInput
  <2>1. stream' \in [Streams -> Subscriptions] /\ \A s \in Streams : stream'[s].next = stream[s].next
    <3>1. PICK S : stream' = Abort(S)
      BY <1>5 DEF EndOfInput
    <3>. QED BY <3>1, AbortKeepsTypes
  <2>2. subs' \in [RequestIds -> 0..MaxSubs] /\ \A i \in RequestIds : subs'[i] = 0
    BY <1>5, ConnectionAssumption DEF EndOfInput
  <2>. QED BY <1>0, <1>5, <2>1, <2>2 DEF EndOfInput, ControlTypeOK
<1>6. CASE ReadError
  <2>1. account' \in [known : [Streams -> Nat], reused : BOOLEAN, broken : BOOLEAN]
    BY <1>6 DEF ReadError, ControlTypeOK
  <2>2. subs' \in [RequestIds -> 0..MaxSubs] /\ \A i \in RequestIds : subs'[i] = 0
    BY <1>6, ConnectionAssumption DEF ReadError
  <2>. QED BY <1>0, <1>6, <2>1, <2>2 DEF ReadError, ControlTypeOK
<1>7. CASE Drained
  BY <1>0, <1>7 DEF Drained, ControlTypeOK
<1>8. ASSUME NEW i \in RequestIds, Unsubscribe(i) PROVE ControlTypeOK'
  <2>1. /\ stream' \in [Streams -> Subscriptions]
        /\ \A s \in Streams : stream'[s].id = stream[s].id
        /\ \A s \in Streams : stream'[s].next = stream[s].next
        /\ \A s \in Streams : stream[s].pc # "unused" => stream'[s].pc # "unused"
    <3>1. PICK S : stream' = Abort(S)
      BY <1>8 DEF Unsubscribe
    <3>. QED BY <3>1, AbortKeepsTypes
  <2>2. subs' \in [RequestIds -> 0..MaxSubs] /\ \A j \in RequestIds : subs'[j] \in {0, subs[j]}
    BY <1>8, ConnectionAssumption DEF Unsubscribe, ControlTypeOK
  <2>3. \A j \in RequestIds : subs'[j] # 0 => stream'[subs'[j]].pc # "unused" /\ stream'[subs'[j]].id = j
    <3> SUFFICES ASSUME NEW j \in RequestIds, subs'[j] # 0
                 PROVE  stream'[subs'[j]].pc # "unused" /\ stream'[subs'[j]].id = j
      OBVIOUS
    <3>1. subs'[j] = subs[j] /\ subs[j] \in Streams
      BY <2>2, ConnectionAssumption DEF ControlTypeOK, Streams
    <3>2. stream[subs[j]].pc # "unused" /\ stream[subs[j]].id = j
      BY <3>1 DEF ControlTypeOK
    <3>. QED BY <2>1, <3>1, <3>2
  <2>. QED BY <1>1, <1>8, <2>1, <2>2, <2>3 DEF Unsubscribe, Answers, ControlTypeOK
<1>9. ASSUME NEW i \in RequestIds, Submit(i) PROVE ControlTypeOK'
  BY <1>9 DEF Submit, ControlTypeOK
<1>10. ASSUME NEW i \in RequestIds, FinishRequest(i) PROVE ControlTypeOK'
  <2>1. Reply("ok", i) \in Frames
    BY <1>1
  <2>. QED BY <1>10, <2>1, SendKeepsTypes DEF FinishRequest, ControlTypeOK
<1>. QED BY <1>3, <1>4, <1>5, <1>6, <1>7, <1>8, <1>9, <1>10

LEMMA SubscribeKeepsTypes ==
  ASSUME ControlTypeOK, NEW i \in RequestIds, NEW b \in BOOLEAN, Subscribe(i, b)
  PROVE  /\ ControlTypeOK'
         /\ \E u \in Streams, r \in Subscriptions :
              /\ stream[u].pc = "unused" /\ stream' = [stream EXCEPT ![u] = r]
              /\ r.pc = "recv" /\ r.frame = NoFrame /\ r.next = published + 1
              /\ account'.known = [account.known EXCEPT ![u] = published]
<1>1. PICK u \in Streams : u = NextStream /\ stream[u].pc = "unused"
  <2>1. \E s \in Streams : stream[s].pc = "unused"
    BY DEF Subscribe
  <2>2. NextStream \in Streams /\ stream[NextStream].pc = "unused"
    BY <2>1, Zenon DEF NextStream
  <2>. QED BY <2>2
<1>2. PICK r : r = [pc |-> "recv", id |-> i, filtered |-> b, from |-> published + 1,
                    next |-> published + 1, frame |-> NoFrame]
  OBVIOUS
<1>3. NoFrame \in Frames /\ published \in Nat
  BY ConnectionAssumption DEF NoFrame, Frames, Ids, ControlTypeOK
<1>4. r \in Subscriptions /\ r.pc = "recv" /\ r.frame = NoFrame /\ r.next = published + 1 /\ r.id = i
  <2>1. published + 1 \in Nat
    BY <1>3
  <2>3. i \in Ids
    BY DEF Ids
  <2>2. r \in Subscriptions
    <3>1. CASE b = TRUE
      BY <1>2, <1>3, <2>1, <2>3, <3>1 DEF Subscriptions
    <3>2. CASE b = FALSE
      BY <1>2, <1>3, <2>1, <2>3, <3>2 DEF Subscriptions
    <3>. QED BY <3>1, <3>2
  <2>. QED BY <1>2, <2>2
<1>5. stream' = [stream EXCEPT ![u] = r] /\ subs' = [subs EXCEPT ![i] = u]
  BY <1>1, <1>2 DEF Subscribe
<1>6. PICK c \in BOOLEAN : account' = [known |-> [account.known EXCEPT ![u] = published],
                                       reused |-> c, broken |-> account.broken]
  BY <1>1 DEF Subscribe, ControlTypeOK
<1>7. account' \in [known : [Streams -> Nat], reused : BOOLEAN, broken : BOOLEAN]
  BY <1>3, <1>6 DEF ControlTypeOK
<1>8. stream' \in [Streams -> Subscriptions] /\ \A s \in Streams : stream'[s] = IF s = u THEN r ELSE stream[s]
  BY <1>4, <1>5 DEF ControlTypeOK
<1>9. ASSUME NEW j \in RequestIds, subs'[j] # 0
      PROVE  stream'[subs'[j]].pc # "unused" /\ stream'[subs'[j]].id = j
  <2>1. CASE j = i
    BY <1>4, <1>5, <1>8, <2>1 DEF ControlTypeOK
  <2>2. CASE j # i
    <3>1. subs'[j] = subs[j] /\ subs[j] \in Streams
      BY <1>5, <1>9, <2>2, ConnectionAssumption DEF ControlTypeOK, Streams
    <3>. QED BY <1>1, <1>8, <3>1, <1>9 DEF ControlTypeOK
  <2>. QED BY <2>1, <2>2
<1>10. \A s \in Streams : stream'[s].next <= published' + 1
  BY <1>3, <1>4, <1>8 DEF Subscribe, ControlTypeOK
<1>11. subs' \in [RequestIds -> 0..MaxSubs]
  BY <1>5, ConnectionAssumption DEF ControlTypeOK, Streams
<1>12. reader' \in [pc : {"open", "reply", "draining", "closed"}, reply : Frames] /\ reader'.reply.from = 0
  BY ReplyIsAFrame DEF Subscribe, Answers
<1>13. ControlTypeOK'
  BY <1>7, <1>8, <1>9, <1>10, <1>11, <1>12 DEF Subscribe, ControlTypeOK
<1>. QED BY <1>1, <1>4, <1>5, <1>6, <1>13
(* What a task reads: an event, or word of the events the bus has dropped.    *)
LEMMA ReceiveReads ==
  ASSUME ControlTypeOK, NEW s \in Streams, Receive(s)
  PROVE  \E r \in Subscriptions :
           /\ stream' = [stream EXCEPT ![s] = r]
           /\ r.id = stream[s].id /\ r.filtered = stream[s].filtered
           /\ stream[s].next < r.next /\ r.next <= published + 1
           /\ \/ /\ r.pc = "recv" /\ r.frame = stream[s].frame
                 /\ r.next = stream[s].next + 1 /\ ~Belongs(s, stream[s].next)
              \/ /\ r.pc = "send" /\ r.frame # NoFrame /\ r.frame.from = s
                 /\ r.frame.n + 1 = r.next
                 /\ \/ r.frame.n = stream[s].next
                    \/ r.frame.n + 1 = stream[s].next + r.frame.lost
<1>1. PICK x \in Subscriptions : x = stream[s]
  BY DEF ControlTypeOK
<1>2. x.next \in Nat /\ published \in Nat /\ x.next <= published /\ BusCapacity \in Nat /\ BusCapacity > 0
  BY <1>1, ConnectionAssumption DEF Receive, ControlTypeOK, Subscriptions
<1>3. s \in 0..MaxSubs /\ s # 0
  BY ConnectionAssumption DEF Streams
<1>4. PICK k : k = Lost(s)
  OBVIOUS
<1>5. k \in Nat /\ x.next + k <= published + 1
  BY <1>1, <1>2, <1>4 DEF Lost
<1> DEFINE Sent(e, f) == [x EXCEPT !.pc = "send", !.next = e, !.frame = f]
<1>6. ASSUME NEW f \in Frames, NEW e \in Nat
      PROVE  /\ Sent(e, f) \in Subscriptions /\ Sent(e, f).id = x.id /\ Sent(e, f).filtered = x.filtered
             /\ Sent(e, f).pc = "send" /\ Sent(e, f).next = e /\ Sent(e, f).frame = f
  BY DEF Subscriptions
<1>7. ASSUME NEW kind \in {"event", "lagged"}, NEW n \in Nat, NEW l \in Nat,
             NEW f, f = [kind |-> kind, id |-> x.id, from |-> s, n |-> n, lost |-> l]
      PROVE  f \in Frames /\ f # NoFrame /\ f.from = s /\ f.n = n /\ f.lost = l
  <2>1. x.id \in Ids
    BY DEF Subscriptions
  <2>2. f \in Frames
    <3>1. CASE kind = "event"
      BY <1>3, <1>7, <2>1, <3>1 DEF Frames
    <3>2. CASE kind = "lagged"
      BY <1>3, <1>7, <2>1, <3>2 DEF Frames
    <3>. QED BY <3>1, <3>2
  <2>3. f.from = s /\ f.n = n /\ f.lost = l
    BY <1>7
  <2>4. NoFrame.from = 0
    BY DEF NoFrame
  <2>. QED BY <1>3, <2>2, <2>3, <2>4
<1>8. CASE k > 0
  <2>1. PICK n \in Nat : n = x.next + k /\ n - 1 \in Nat
    BY <1>2, <1>5, <1>8
  <2>2. PICK f : f = [kind |-> "lagged", id |-> x.id, from |-> s, n |-> x.next + k - 1, lost |-> k]
    OBVIOUS
  <2>3. PICK r : r = Sent(n, f)
    OBVIOUS
  <2>4. stream' = [stream EXCEPT ![s] = r]
    <3>1. Steps(s, [x EXCEPT !.pc = "send", !.next = x.next + k, !.frame = f])
      BY <1>1, <1>4, <1>8, <2>2 DEF Receive
    <3>2. Sent(x.next + k, f) = r
      BY <2>1, <2>3
    <3>. QED BY <3>1, <3>2 DEF Steps
  <2>5. f \in Frames /\ f # NoFrame /\ f.from = s /\ f.n = n - 1 /\ f.lost = k
    <3>1. n - 1 \in Nat /\ k \in Nat /\ x.next + k - 1 = n - 1
      BY <1>2, <1>5, <2>1
    <3>. HIDE <1>5
    <3>. QED BY <1>7, <2>2, <3>1
  <2>6. /\ r \in Subscriptions /\ r.id = x.id /\ r.filtered = x.filtered
        /\ r.pc = "send" /\ r.next = n /\ r.frame = f
    <3>. HIDE DEF Sent
    <3>. QED BY <1>6, <2>1, <2>3, <2>5
  <2>7. x.next < r.next /\ r.next <= published + 1 /\ r.frame.n + 1 = r.next /\ r.frame.n + 1 = x.next + r.frame.lost
    <3>1. x.next < n /\ n <= published + 1 /\ (n - 1) + 1 = n /\ n = x.next + k
      BY <1>2, <1>5, <1>8, <2>1
    <3>. QED BY <2>5, <2>6, <3>1
  <2>. QED BY <1>1, <2>4, <2>5, <2>6, <2>7
<1>9. CASE k = 0 /\ Belongs(s, x.next)
  <2>2. PICK f : f = [kind |-> "event", id |-> x.id, from |-> s, n |-> x.next, lost |-> 0]
    OBVIOUS
  <2>3. PICK r : r = Sent(x.next + 1, f)
    OBVIOUS
  <2>4. stream' = [stream EXCEPT ![s] = r]
    BY <1>1, <1>4, <1>9, <2>2, <2>3 DEF Receive, Steps
  <2>5. f \in Frames /\ f # NoFrame /\ f.from = s /\ f.n = x.next
    BY <1>2, <1>7, <2>2
  <2>6. /\ r \in Subscriptions /\ r.id = x.id /\ r.filtered = x.filtered
        /\ r.pc = "send" /\ r.next = x.next + 1 /\ r.frame = f
    <3>1. x.next + 1 \in Nat
      BY <1>2
    <3>. HIDE DEF Sent
    <3>. QED BY <1>6, <2>3, <2>5, <3>1
  <2>7. x.next < r.next /\ r.next <= published + 1 /\ r.frame.n + 1 = r.next /\ r.frame.n = x.next
    <3>1. x.next < x.next + 1 /\ x.next + 1 <= published + 1
      BY <1>2
    <3>. QED BY <2>5, <2>6, <3>1
  <2>. QED BY <1>1, <2>4, <2>5, <2>6, <2>7
<1>10. CASE k = 0 /\ ~Belongs(s, x.next)
  <2>3. PICK r : r = [x EXCEPT !.next = x.next + 1]
    OBVIOUS
  <2>4. stream' = [stream EXCEPT ![s] = r] /\ x.pc = "recv"
    BY <1>1, <1>4, <1>10, <2>3 DEF Receive, Steps
  <2>6. /\ r \in Subscriptions /\ r.id = x.id /\ r.filtered = x.filtered
        /\ r.pc = x.pc /\ r.next = x.next + 1 /\ r.frame = x.frame
    BY <1>2, <2>3 DEF Subscriptions
  <2>7. x.next < r.next /\ r.next <= published + 1
    <3>1. x.next < x.next + 1 /\ x.next + 1 <= published + 1
      BY <1>2
    <3>. QED BY <2>6, <3>1
  <2>. QED BY <1>1, <1>10, <2>4, <2>6, <2>7
<1>. QED BY <1>5, <1>8, <1>9, <1>10

LEMMA TasksKeepTypes ==
  ASSUME ControlTypeOK, NEW s \in Streams, Receive(s) \/ SendEvent(s) \/ AbortLands(s)
  PROVE  ControlTypeOK'
<1>1. ASSUME NEW r \in Subscriptions, stream' = [stream EXCEPT ![s] = r], r.id = stream[s].id,
             r.next <= published + 1, r.pc # "unused"
      PROVE  /\ stream' \in [Streams -> Subscriptions]
             /\ \A i \in RequestIds : subs[i] # 0 => stream'[subs[i]].pc # "unused" /\ stream'[subs[i]].id = i
             /\ \A t \in Streams : stream'[t].next <= published + 1
  <2>1. stream' \in [Streams -> Subscriptions] /\ \A t \in Streams : stream'[t] = IF t = s THEN r ELSE stream[t]
    BY <1>1 DEF ControlTypeOK
  <2>2. \A i \in RequestIds : subs[i] # 0 => subs[i] \in Streams
    BY ConnectionAssumption DEF ControlTypeOK, Streams
  <2>3. ASSUME NEW i \in RequestIds, subs[i] # 0
        PROVE  stream'[subs[i]].pc # "unused" /\ stream'[subs[i]].id = i
    <3>1. CASE subs[i] = s
      BY <1>1, <2>1, <2>3, <3>1 DEF ControlTypeOK
    <3>2. CASE subs[i] # s
      BY <2>1, <2>2, <2>3, <3>2 DEF ControlTypeOK
    <3>. QED BY <3>1, <3>2
  <2>4. \A t \in Streams : stream'[t].next <= published + 1
    BY <1>1, <2>1 DEF ControlTypeOK
  <2>. QED BY <2>1, <2>3, <2>4
<1>2. NoFrame \in Frames
  BY ConnectionAssumption DEF NoFrame, Frames, Ids
<1>3. \A p \in {"recv", "ended"}, x \in Subscriptions :
        /\ [x EXCEPT !.pc = p, !.frame = NoFrame] \in Subscriptions
        /\ [x EXCEPT !.pc = p, !.frame = NoFrame].id = x.id
        /\ [x EXCEPT !.pc = p, !.frame = NoFrame].next = x.next
        /\ [x EXCEPT !.pc = p, !.frame = NoFrame].pc = p
  BY <1>2 DEF Subscriptions
<1>4. CASE Receive(s)
  <2>1. PICK r \in Subscriptions : /\ stream' = [stream EXCEPT ![s] = r] /\ r.id = stream[s].id
                                   /\ r.next <= published + 1 /\ r.pc # "unused"
    BY <1>4, ReceiveReads
  <2>2. UNCHANGED <<published, gone, reader, writer, peer, queue, subs, requests, account>>
    BY <1>4 DEF Receive, Steps
  <2>. QED BY <1>1, <2>1, <2>2 DEF ControlTypeOK
<1>5. CASE SendEvent(s) \/ AbortLands(s)
  <2>1. stream[s] \in Subscriptions /\ stream[s].frame \in Frames /\ stream[s].next <= published + 1
    BY DEF ControlTypeOK, Subscriptions
  <2>2. PICK r \in Subscriptions : /\ stream' = [stream EXCEPT ![s] = r] /\ r.id = stream[s].id
                                   /\ r.next <= published + 1 /\ r.pc # "unused"
    <3>1. PICK p \in {"recv", "ended"} : stream' = [stream EXCEPT ![s] = [stream[s] EXCEPT !.pc = p, !.frame = NoFrame]]
      BY <1>5 DEF SendEvent, AbortLands, Steps
    <3>. QED BY <1>3, <2>1, <3>1
  <2>3. UNCHANGED <<published, gone, reader, writer, peer, subs, requests, account>>
    BY <1>5 DEF SendEvent, AbortLands, Steps
  <2>4. UNCHANGED queue \/ Send(stream[s].frame)
    BY <1>5 DEF SendEvent, AbortLands
  <2>5. queue' \in Seq(Frames) /\ Len(queue') <= WriteQueue /\ (writer' = "down" => queue' = <<>>)
    <3>1. CASE UNCHANGED queue
      BY <2>3, <3>1 DEF ControlTypeOK
    <3>2. CASE Send(stream[s].frame)
      BY <2>1, <2>3, <3>2, SendKeepsTypes
    <3>. QED BY <2>4, <3>1, <3>2
  <2>. QED BY <1>1, <2>2, <2>3, <2>5 DEF ControlTypeOK
<1>. QED BY <1>4, <1>5

LEMMA WriterKeepsTypes ==
  ASSUME ControlTypeOK, Write \/ WriteFails \/ WriterEnds
  PROVE  ControlTypeOK'
<1>1. CASE Write
  <2>1. queue \in Seq(Frames) /\ queue # <<>>
    BY <1>1 DEF Write, ControlTypeOK
  <2>2. queue' \in Seq(Frames) /\ Len(queue') <= WriteQueue /\ (writer' = "down" => queue' = <<>>)
    <3>1. queue' \in Seq(Frames) /\ Len(queue') = Len(queue) - 1
      BY <1>1, <2>1 DEF Write
    <3>. QED BY <1>1, <2>1, <3>1, ConnectionAssumption DEF Write, ControlTypeOK
  <2>3. PICK h \in Frames : h = Head(queue)
    BY <2>1
  <2>4. account' \in [known : [Streams -> Nat], reused : BOOLEAN, broken : BOOLEAN]
    <3>1. CASE h.from = 0
      BY <1>1, <2>3, <3>1 DEF Write, ControlTypeOK
    <3>2. CASE h.from # 0
      <4>1. h.from \in Streams /\ h.n \in Nat
        BY <3>2, ConnectionAssumption DEF Frames, Streams
      <4>2. account' = [account EXCEPT !.known[h.from] = h.n]
        BY <1>1, <2>3, <3>2 DEF Write
      <4>. QED BY <4>1, <4>2 DEF ControlTypeOK
    <3>. QED BY <3>1, <3>2
  <2>. QED BY <1>1, <2>2, <2>4 DEF Write, ControlTypeOK
<1>2. CASE WriteFails
  BY <1>2, ConnectionAssumption DEF WriteFails, ControlTypeOK
<1>3. CASE WriterEnds
  BY <1>3, ConnectionAssumption DEF WriterEnds, ControlTypeOK
<1>. QED BY <1>1, <1>2, <1>3

-----------------------------------------------------------------------------
(* The chain of the events of one stream. *)

(* A filter that withholds an event goes on doing so. *)
LEMMA BelongsOnlyFalls ==
  ASSUME NEW s, stream'[s].filtered = stream[s].filtered, gone \subseteq gone', NEW m, ~Belongs(s, m)
  PROVE  ~Belongs(s, m)'
<1>1. stream[s].filtered /\ m % 2 = 1 /\ m \in gone
  BY DEF Belongs
<1>2. stream'[s].filtered
  BY <1>1
<1>3. m \in gone'
  BY <1>1
<1>. QED BY <1>1, <1>2, <1>3 DEF Belongs

(* What a step leaves alone of a stream: it may lose the line in its hands    *)
(* when its task ends.                                                        *)
Undisturbed(s) ==
    /\ stream'[s].next = stream[s].next /\ stream'[s].filtered = stream[s].filtered
    /\ account'.known[s] = account.known[s] /\ gone \subseteq gone'
    /\ stream'[s].frame \in {stream[s].frame, NoFrame}
    /\ stream'[s].pc \in {"recv", "send"} =>
         stream[s].pc \in {"recv", "send"} /\ stream'[s].frame = stream[s].frame

(* The queue keeps its lines and may get one more. *)
Grows(l) ==
    \/ queue' = queue
    \/ /\ Len(queue') = Len(queue) + 1 /\ queue'[Len(queue) + 1] = l
       /\ \A i \in 1..Len(queue) : queue'[i] = queue[i]

LEMMA GrowsShape ==
  ASSUME ControlTypeOK, NEW s \in Streams, NEW l, Grows(l), queue' \in Seq(Frames)
  PROVE  /\ \A j \in 1..Len(queue) : queue'[j] = queue[j] /\ Before(s, j)' = Before(s, j)
         /\ \A j \in Behind(s) : j \in Behind(s)'
         /\ l.from # s => Behind(s)' = Behind(s)
         /\ \A j \in Behind(s)' : j \in Behind(s) \/ (/\ j = Len(queue) + 1 /\ queue'[j] = l
                                                     /\ Before(s, j)' = Behind(s))
<1>1. Len(queue) \in Nat /\ queue \in Seq(Frames)
  BY DEF ControlTypeOK
<1>2. CASE queue' = queue
  BY <1>2 DEF Before, Behind
<1>3. CASE /\ Len(queue') = Len(queue) + 1 /\ queue'[Len(queue) + 1] = l
           /\ \A i \in 1..Len(queue) : queue'[i] = queue[i]
  <2>1. \A j \in 1..Len(queue) : Before(s, j)' = Before(s, j)
    BY <1>1, <1>3 DEF Before
  <2>2. \A j \in Behind(s) : j \in Behind(s)'
    BY <1>1, <1>3 DEF Behind
  <2>3. \A j \in Behind(s)' : j \in Behind(s) \/ j = Len(queue) + 1
    BY <1>1, <1>3 DEF Behind
  <2>4. ASSUME NEW j, j = Len(queue) + 1 PROVE Before(s, j)' = Behind(s)
    BY <1>1, <1>3, <2>4 DEF Behind, Before
  <2>5. l.from # s => Behind(s)' = Behind(s)
    BY <1>1, <1>3 DEF Behind
  <2>. QED BY <1>3, <2>1, <2>2, <2>3, <2>4, <2>5
<1>. QED BY <1>2, <1>3 DEF Grows

LEMMA SendGrows ==
  ASSUME ControlTypeOK, NEW l \in Frames, Send(l), UNCHANGED writer, writer = "up"
  PROVE  Grows(l) /\ queue' # queue
<1>1. Len(queue') = Len(queue) + 1 /\ queue'[Len(queue) + 1] = l /\ \A i \in 1..Len(queue) : queue'[i] = queue[i]
  <2>1. queue \in Seq(Frames) /\ queue' = Append(queue, l)
    BY DEF ControlTypeOK, Send
  <2>. QED BY <2>1
<1>2. Len(queue) \in Nat
  BY DEF ControlTypeOK
<1>3. queue' # queue
  BY <1>1, <1>2
<1>. QED BY <1>1, <1>3 DEF Grows

LEMMA UndisturbedStaysLinked ==
  ASSUME ControlTypeOK, NEW s \in Streams, Linked(s), Undisturbed(s),
         NEW l, Grows(l), queue' \in Seq(Frames), l.from # s
  PROVE  Linked(s)'
<1>1. Behind(s)' = Behind(s) /\ \A j \in Behind(s) : queue'[j] = queue[j] /\ Before(s, j)' = Before(s, j)
  BY GrowsShape DEF Behind
<1>2. \A j \in Behind(s) : \A i \in Before(s, j) : i \in Behind(s)
  BY DEF Behind, Before, ControlTypeOK
<1>3. \A m : ~Belongs(s, m) => ~Belongs(s, m)'
  BY BelongsOnlyFalls DEF Undisturbed
<1>4. ASSUME NEW I \in SUBSET Behind(s), NEW m, Settled(s, m, I)
      PROVE  ~Belongs(s, m)' \/ \E i \in I : m <= queue'[i].n
  BY <1>1, <1>3, <1>4 DEF Settled
<1>5. QueueFollows(s)'
  <2> SUFFICES ASSUME NEW j \in Behind(s)
               PROVE  /\ account'.known[s] < queue'[j].n /\ queue'[j].n < stream'[s].next
                      /\ \A i \in Before(s, j)' : queue'[i].n < queue'[j].n
                      /\ \A m \in Nat : account'.known[s] < m /\ m < queue'[j].n =>
                            m > queue'[j].n - queue'[j].lost \/ Settled(s, m, Before(s, j))'
    BY <1>1 DEF QueueFollows
  <2>1. /\ account.known[s] < queue[j].n /\ queue[j].n < stream[s].next
        /\ \A i \in Before(s, j) : queue[i].n < queue[j].n
        /\ \A m \in Nat : account.known[s] < m /\ m < queue[j].n =>
              m > queue[j].n - queue[j].lost \/ Settled(s, m, Before(s, j))
    BY DEF Linked, QueueFollows
  <2>2. \A m : Settled(s, m, Before(s, j)) => Settled(s, m, Before(s, j))'
    BY <1>1, <1>2, <1>4 DEF Settled
  <2>3. queue'[j] = queue[j] /\ Before(s, j)' = Before(s, j) /\ \A i \in Before(s, j) : queue'[i] = queue[i]
    BY <1>1, <1>2
  <2>. QED BY <2>1, <2>2, <2>3 DEF Undisturbed
<1>6. \A m : Settled(s, m, Behind(s)) => Settled(s, m, Behind(s))'
  BY <1>1, <1>4 DEF Settled
<1>7. HandFollows(s)'
  BY <1>1, <1>6 DEF Linked, HandFollows, Undisturbed
<1>8. ReadIsTold(s)'
  BY <1>6 DEF Linked, ReadIsTold, Undisturbed
<1>. QED BY <1>5, <1>7, <1>8 DEF Linked

(* The line a task had in its hands joins the queue. *)
LEMMA SentStaysLinked ==
  ASSUME ControlTypeOK, NEW s \in Streams, Linked(s), stream[s].frame # NoFrame,
         NEW l, l = stream[s].frame, Grows(l), queue' # queue, queue' \in Seq(Frames),
         stream'[s].next = stream[s].next, stream'[s].filtered = stream[s].filtered,
         account'.known[s] = account.known[s], gone \subseteq gone', stream'[s].frame = NoFrame,
         stream'[s].pc \in {"recv", "send"} => stream[s].pc \in {"recv", "send"}
  PROVE  Linked(s)'
<1>1. /\ l.from = s /\ account.known[s] < l.n /\ l.n < stream[s].next
      /\ \A i \in Behind(s) : queue[i].n < l.n
      /\ \A m \in Nat : account.known[s] < m /\ m < l.n => m > l.n - l.lost \/ Settled(s, m, Behind(s))
  BY DEF Linked, HandFollows
<1>2. PICK k \in Nat : k = Len(queue) + 1
  BY DEF ControlTypeOK
<1>3. k \in Behind(s)' /\ queue'[k] = l
  BY <1>1, <1>2 DEF Grows, Behind
<1>4. /\ \A j \in Behind(s) : j \in Behind(s)' /\ queue'[j] = queue[j] /\ Before(s, j)' = Before(s, j)
      /\ \A j \in Behind(s)' : j \in Behind(s) \/ (j = k /\ Before(s, j)' = Behind(s))
  BY <1>2, GrowsShape DEF Behind
<1>5. \A j \in Behind(s) : \A i \in Before(s, j) : i \in Behind(s)
  BY DEF Behind, Before, ControlTypeOK
<1>6. \A m : ~Belongs(s, m) => ~Belongs(s, m)'
  BY BelongsOnlyFalls
<1>7. ASSUME NEW I \in SUBSET Behind(s), NEW m, Settled(s, m, I)
      PROVE  ~Belongs(s, m)' \/ \E i \in I : m <= queue'[i].n
  BY <1>4, <1>6, <1>7 DEF Settled
<1>8. ASSUME NEW j \in Behind(s)'
      PROVE  /\ account'.known[s] < queue'[j].n /\ queue'[j].n < stream'[s].next
             /\ \A i \in Before(s, j)' : queue'[i].n < queue'[j].n
             /\ \A m \in Nat : account'.known[s] < m /\ m < queue'[j].n =>
                   m > queue'[j].n - queue'[j].lost \/ Settled(s, m, Before(s, j))'
  <2>1. CASE j \in Behind(s)
    <3>1. /\ account.known[s] < queue[j].n /\ queue[j].n < stream[s].next
          /\ \A i \in Before(s, j) : queue[i].n < queue[j].n
          /\ \A m \in Nat : account.known[s] < m /\ m < queue[j].n =>
                m > queue[j].n - queue[j].lost \/ Settled(s, m, Before(s, j))
      BY <2>1 DEF Linked, QueueFollows
    <3>2. \A m : Settled(s, m, Before(s, j)) => Settled(s, m, Before(s, j))'
      BY <1>4, <1>5, <1>7, <2>1 DEF Settled
    <3>3. queue'[j] = queue[j] /\ Before(s, j)' = Before(s, j) /\ \A i \in Before(s, j) : queue'[i] = queue[i]
      BY <1>4, <1>5, <2>1
    <3>. QED BY <3>1, <3>2, <3>3
  <2>2. CASE j = k /\ Before(s, j)' = Behind(s)
    <3>1. queue'[j] = l /\ \A i \in Behind(s) : queue'[i] = queue[i]
      BY <1>3, <1>4, <2>2
    <3>2. \A m : Settled(s, m, Behind(s)) => Settled(s, m, Before(s, j))'
      BY <1>7, <2>2 DEF Settled
    <3>. QED BY <1>1, <2>2, <3>1, <3>2
  <2>. QED BY <1>4, <2>1, <2>2
<1>9. QueueFollows(s)'
  BY <1>8 DEF QueueFollows
<1>10. HandFollows(s)'
  BY DEF HandFollows
<1>11. ReadIsTold(s)'
  <2> SUFFICES ASSUME stream[s].pc \in {"recv", "send"}
               PROVE  /\ account'.known[s] < stream'[s].next
                      /\ \A m \in Nat : account'.known[s] < m /\ m < stream'[s].next => Settled(s, m, Behind(s))'
    BY DEF ReadIsTold
  <2>1. account.known[s] < stream[s].next
    BY DEF Linked, ReadIsTold
  <2>2. \A m \in Nat : account.known[s] < m /\ m < stream[s].next => Settled(s, m, Behind(s)) \/ m <= l.n
    BY DEF Linked, ReadIsTold
  <2>3. \A m : Settled(s, m, Behind(s)) => Settled(s, m, Behind(s))'
    BY <1>4, <1>7 DEF Settled
  <2>4. \A m : m <= l.n => Settled(s, m, Behind(s))'
    BY <1>3 DEF Settled
  <2>. QED BY <2>1, <2>2, <2>3, <2>4
<1>. QED BY <1>9, <1>10, <1>11 DEF Linked

(* A task reads the next event, or word of a gap. *)
LEMMA ReadStaysLinked ==
  ASSUME ControlTypeOK, HandsInv, NEW s \in Streams, Linked(s), Receive(s)
  PROVE  Linked(s)'
<1>1. UNCHANGED <<queue, gone, account>> /\ stream[s].pc = "recv" /\ stream[s].frame = NoFrame
  BY DEF Receive, Steps, HandsInv
<1>2. PICK r \in Subscriptions :
           /\ stream' = [stream EXCEPT ![s] = r]
           /\ r.filtered = stream[s].filtered /\ stream[s].next < r.next
           /\ \/ r.frame = stream[s].frame /\ r.next = stream[s].next + 1 /\ ~Belongs(s, stream[s].next)
              \/ /\ r.frame # NoFrame /\ r.frame.from = s /\ r.frame.n + 1 = r.next
                 /\ \/ r.frame.n = stream[s].next
                    \/ r.frame.n + 1 = stream[s].next + r.frame.lost
  BY ReceiveReads
<1>3. stream'[s] = r
  BY <1>2 DEF ControlTypeOK
<1>4. PICK x \in Nat, a \in Nat, e \in Nat : x = stream[s].next /\ a = account.known[s] /\ e = r.next /\ x < e
  BY <1>2 DEF ControlTypeOK, Subscriptions
<1>5. Behind(s)' = Behind(s) /\ \A j \in Behind(s) : Before(s, j)' = Before(s, j)
  BY <1>1 DEF Behind, Before
<1>6. \A m : ~Belongs(s, m) => ~Belongs(s, m)'
  BY <1>1, <1>2, <1>3, BelongsOnlyFalls
<1>7. /\ \A m : Settled(s, m, Behind(s)) => Settled(s, m, Behind(s))'
      /\ \A j \in Behind(s) : \A m : Settled(s, m, Before(s, j)) => Settled(s, m, Before(s, j))'
  BY <1>1, <1>5, <1>6 DEF Settled
<1>8. \A j \in Behind(s) : queue[j].n \in Nat
  <2>1. \A j \in Behind(s) : queue[j] \in Frames
    BY DEF Behind, ControlTypeOK
  <2>. QED BY <2>1 DEF Frames
<1>9. QueueFollows(s)'
  <2> SUFFICES ASSUME NEW j \in Behind(s)
               PROVE  /\ a < queue[j].n /\ queue[j].n < e
                      /\ \A i \in Before(s, j) : queue[i].n < queue[j].n
                      /\ \A m \in Nat : a < m /\ m < queue[j].n =>
                            m > queue[j].n - queue[j].lost \/ Settled(s, m, Before(s, j))'
    BY <1>1, <1>3, <1>4, <1>5 DEF QueueFollows
  <2>1. /\ a < queue[j].n /\ queue[j].n < x
        /\ \A i \in Before(s, j) : queue[i].n < queue[j].n
        /\ \A m \in Nat : a < m /\ m < queue[j].n =>
              m > queue[j].n - queue[j].lost \/ Settled(s, m, Before(s, j))
    BY <1>4 DEF Linked, QueueFollows
  <2>2. queue[j].n < e
    BY <1>4, <1>8, <2>1
  <2>. QED BY <1>7, <2>1, <2>2
<1>10. a < x /\ \A m \in Nat : a < m /\ m < x => Settled(s, m, Behind(s))
  BY <1>1, <1>4 DEF Linked, ReadIsTold
<1>11. CASE r.frame = stream[s].frame /\ r.next = stream[s].next + 1 /\ ~Belongs(s, stream[s].next)
  <2>1. HandFollows(s)'
    BY <1>1, <1>3, <1>11 DEF HandFollows
  <2>2. ASSUME NEW m \in Nat, a < m, m < e PROVE Settled(s, m, Behind(s))'
    <3>1. m < x \/ m = x
      BY <1>4, <1>11, <2>2
    <3>2. CASE m < x
      BY <1>7, <1>10, <2>2, <3>2
    <3>3. CASE m = x
      BY <1>4, <1>6, <1>11, <3>3 DEF Settled
    <3>. QED BY <3>1, <3>2, <3>3
  <2>3. a < e
    BY <1>4, <1>10
  <2>4. ReadIsTold(s)'
    BY <1>1, <1>3, <1>4, <2>2, <2>3 DEF ReadIsTold
  <2>. QED BY <1>9, <2>1, <2>4 DEF Linked
<1>12. CASE /\ r.frame # NoFrame /\ r.frame.from = s /\ r.frame.n + 1 = r.next
            /\ r.frame.n = stream[s].next \/ r.frame.n + 1 = stream[s].next + r.frame.lost
  <2>1. PICK n \in Nat, l \in Nat : n = r.frame.n /\ l = r.frame.lost
    BY DEF Subscriptions, Frames
  <2>2. n + 1 = e /\ (n = x \/ n + 1 = x + l)
    BY <1>4, <1>12, <2>1
  <2>3. a < n /\ n < e /\ a < e
    BY <1>4, <1>10, <2>2
  <2>4. \A i \in Behind(s) : queue[i].n < n
    <3>1. \A i \in Behind(s) : queue[i].n < x
      BY <1>4 DEF Linked, QueueFollows
    <3>. QED BY <1>4, <1>8, <2>2, <3>1
  <2>5. ASSUME NEW m \in Nat, a < m, m < n
        PROVE  m > n - l \/ Settled(s, m, Behind(s))'
    <3>1. CASE m < x
      BY <1>7, <1>10, <2>5, <3>1
    <3>2. CASE ~(m < x)
      BY <1>4, <2>2, <2>5, <3>2
    <3>. QED BY <3>1, <3>2
  <2>6. HandFollows(s)'
    BY <1>1, <1>3, <1>4, <1>5, <1>12, <2>1, <2>3, <2>4, <2>5 DEF HandFollows
  <2>7. \A m \in Nat : m < e => m <= n
    BY <2>2
  <2>8. ReadIsTold(s)'
    BY <1>1, <1>3, <1>4, <1>12, <2>1, <2>3, <2>7 DEF ReadIsTold
  <2>. QED BY <1>9, <2>6, <2>8 DEF Linked
<1>. QED BY <1>2, <1>11, <1>12

(* The writer takes the first line: what it says is now known. *)
LEMMA WrittenStaysLinked ==
  ASSUME ControlTypeOK, NEW s \in Streams, Linked(s), Write
  PROVE  Linked(s)'
<1>1. queue \in Seq(Frames) /\ queue # <<>> /\ queue' = Tail(queue) /\ UNCHANGED <<gone, stream>>
  BY DEF Write, ControlTypeOK
<1>2. PICK h \in Frames, k \in Nat : h = queue[1] /\ h = Head(queue) /\ k = Len(queue) /\ k > 0
  BY <1>1
<1>3. Len(queue') = k - 1 /\ \A i \in 1..(k - 1) : queue'[i] = queue[i + 1]
  BY <1>1, <1>2
<1>4. PICK a \in Nat, b \in Nat : /\ a = account.known[s] /\ b = account'.known[s]
                                  /\ b = IF h.from = s THEN h.n ELSE a
  <2>1. CASE h.from = 0
    BY <1>2, <2>1, ConnectionAssumption DEF Write, Streams, ControlTypeOK
  <2>2. CASE h.from # 0
    <3>1. h.from \in Streams /\ h.n \in Nat /\ account' = [account EXCEPT !.known[h.from] = h.n]
      BY <1>2, <2>2, ConnectionAssumption DEF Write, Frames, Streams
    <3>. QED BY <3>1 DEF ControlTypeOK
  <2>. QED BY <2>1, <2>2
<1>5. \A j \in Behind(s)' : j \in Nat /\ j + 1 \in Behind(s) /\ queue'[j] = queue[j + 1]
  BY <1>2, <1>3 DEF Behind
<1>6. h.from = s => 1 \in Behind(s) /\ \A j \in Behind(s)' : 1 \in Before(s, j + 1)
  BY <1>2, <1>3 DEF Behind, Before
<1>7. ASSUME NEW j \in Behind(s)', NEW i \in Before(s, j)' PROVE i + 1 \in Before(s, j + 1) /\ queue'[i] = queue[i + 1]
  BY <1>2, <1>3 DEF Behind, Before
<1>8. ASSUME NEW j \in Behind(s)', NEW i \in Before(s, j + 1)
      PROVE  (h.from = s /\ i = 1) \/ (i - 1 \in Before(s, j)' /\ queue'[i - 1] = queue[i])
  BY <1>2, <1>3 DEF Behind, Before
<1>9. ASSUME NEW i \in Behind(s)
      PROVE  (h.from = s /\ i = 1) \/ (i - 1 \in Behind(s)' /\ queue'[i - 1] = queue[i])
  BY <1>2, <1>3 DEF Behind
<1>10. a <= b
  <2>1. h.from = s => a < h.n
    BY <1>2, <1>4, <1>6 DEF Linked, QueueFollows
  <2>. QED BY <1>4, <2>1
<1>11. \A m : Belongs(s, m)' = Belongs(s, m)
  BY <1>1 DEF Belongs
<1>12. ASSUME NEW j \in Behind(s)', NEW m \in Nat, b < m, Settled(s, m, Before(s, j + 1))
       PROVE  ~Belongs(s, m)' \/ \E i \in Before(s, j)' : m <= queue'[i].n
  <2>1. CASE ~Belongs(s, m)
    BY <1>11, <2>1
  <2>2. CASE \E i \in Before(s, j + 1) : m <= queue[i].n
    <3>1. PICK i \in Before(s, j + 1) : m <= queue[i].n
      BY <2>2
    <3>2. ~(h.from = s /\ i = 1)
      BY <1>2, <1>4, <1>12, <3>1 DEF Frames
    <3>. QED BY <1>8, <3>1, <3>2
  <2>. QED BY <1>12, <2>1, <2>2 DEF Settled
<1>13. ASSUME NEW m \in Nat, b < m, Settled(s, m, Behind(s)) PROVE Settled(s, m, Behind(s))'
  <2>1. CASE ~Belongs(s, m)
    BY <1>11, <2>1 DEF Settled
  <2>2. CASE \E i \in Behind(s) : m <= queue[i].n
    <3>1. PICK i \in Behind(s) : m <= queue[i].n
      BY <2>2
    <3>2. ~(h.from = s /\ i = 1)
      BY <1>2, <1>4, <1>13, <3>1 DEF Frames
    <3>. QED BY <1>9, <3>1, <3>2 DEF Settled
  <2>. QED BY <1>13, <2>1, <2>2 DEF Settled
<1>14. QueueFollows(s)'
  <2> SUFFICES ASSUME NEW j \in Behind(s)'
               PROVE  /\ b < queue'[j].n /\ queue'[j].n < stream[s].next
                      /\ \A i \in Before(s, j)' : queue'[i].n < queue'[j].n
                      /\ \A m \in Nat : b < m /\ m < queue'[j].n =>
                            m > queue'[j].n - queue'[j].lost \/ Settled(s, m, Before(s, j))'
    BY <1>1, <1>4 DEF QueueFollows
  <2>1. /\ a < queue[j + 1].n /\ queue[j + 1].n < stream[s].next
        /\ \A i \in Before(s, j + 1) : queue[i].n < queue[j + 1].n
        /\ \A m \in Nat : a < m /\ m < queue[j + 1].n =>
              m > queue[j + 1].n - queue[j + 1].lost \/ Settled(s, m, Before(s, j + 1))
    BY <1>4, <1>5 DEF Linked, QueueFollows
  <2>2. b < queue[j + 1].n
    BY <1>2, <1>4, <1>6, <2>1
  <2>3. \A i \in Before(s, j)' : queue'[i].n < queue'[j].n
    BY <1>5, <1>7, <2>1
  <2>4. ASSUME NEW m \in Nat, b < m, m < queue'[j].n
        PROVE  m > queue'[j].n - queue'[j].lost \/ Settled(s, m, Before(s, j))'
    <3>1. m > queue[j + 1].n - queue[j + 1].lost \/ Settled(s, m, Before(s, j + 1))
      BY <1>5, <1>10, <2>1, <2>4
    <3>2. Settled(s, m, Before(s, j + 1)) => Settled(s, m, Before(s, j))'
      BY <1>12, <2>4 DEF Settled
    <3>. QED BY <1>5, <3>1, <3>2
  <2>. QED BY <1>5, <2>1, <2>2, <2>3, <2>4
<1>15. HandFollows(s)'
  <2> SUFFICES ASSUME stream[s].frame # NoFrame
               PROVE  LET f == stream[s].frame IN
                        /\ f.from = s /\ b < f.n /\ f.n < stream[s].next
                        /\ \A i \in Behind(s)' : queue'[i].n < f.n
                        /\ \A m \in Nat : b < m /\ m < f.n => m > f.n - f.lost \/ Settled(s, m, Behind(s))'
    BY <1>1, <1>4 DEF HandFollows
  <2> DEFINE f == stream[s].frame
  <2>1. /\ f.from = s /\ a < f.n /\ f.n < stream[s].next
        /\ \A i \in Behind(s) : queue[i].n < f.n
        /\ \A m \in Nat : a < m /\ m < f.n => m > f.n - f.lost \/ Settled(s, m, Behind(s))
    BY <1>4 DEF Linked, HandFollows
  <2>. HIDE DEF f
  <2>2. b < f.n
    BY <1>2, <1>4, <1>6, <2>1
  <2>3. \A i \in Behind(s)' : queue'[i].n < f.n
    BY <1>5, <2>1
  <2>4. ASSUME NEW m \in Nat, b < m, m < f.n PROVE m > f.n - f.lost \/ Settled(s, m, Behind(s))'
    BY <1>10, <1>13, <2>1, <2>4
  <2>. QED BY <2>1, <2>2, <2>3, <2>4 DEF f
<1>16. ReadIsTold(s)'
  <2> SUFFICES ASSUME stream[s].pc \in {"recv", "send"}
               PROVE  /\ b < stream[s].next
                      /\ \A m \in Nat : b < m /\ m < stream[s].next =>
                            Settled(s, m, Behind(s))' \/ (stream[s].frame # NoFrame /\ m <= stream[s].frame.n)
    BY <1>1, <1>4 DEF ReadIsTold
  <2>1. /\ a < stream[s].next
        /\ \A m \in Nat : a < m /\ m < stream[s].next =>
              Settled(s, m, Behind(s)) \/ (stream[s].frame # NoFrame /\ m <= stream[s].frame.n)
    BY <1>4 DEF Linked, ReadIsTold
  <2>2. b < stream[s].next
    BY <1>2, <1>4, <1>6, <2>1 DEF Linked, QueueFollows
  <2>3. ASSUME NEW m \in Nat, b < m, m < stream[s].next
        PROVE  Settled(s, m, Behind(s))' \/ (stream[s].frame # NoFrame /\ m <= stream[s].frame.n)
    BY <1>10, <1>13, <2>1, <2>3
  <2>. QED BY <2>2, <2>3
<1>. QED BY <1>14, <1>15, <1>16 DEF Linked

(* A new task knows what was published before it. *)
LEMMA SubscribeStaysLinked ==
  ASSUME ControlTypeOK, HandsInv, \A s \in Streams : Linked(s),
         NEW i \in RequestIds, NEW b \in BOOLEAN, Subscribe(i, b), NEW s \in Streams
  PROVE  Linked(s)'
<1>1. UNCHANGED <<queue, gone, published>>
  BY DEF Subscribe
<1>2. PICK u \in Streams, r \in Subscriptions :
              /\ stream[u].pc = "unused" /\ stream' = [stream EXCEPT ![u] = r]
              /\ r.pc = "recv" /\ r.frame = NoFrame /\ r.next = published + 1
              /\ account'.known = [account.known EXCEPT ![u] = published]
  BY SubscribeKeepsTypes
<1>3. CASE s = u
  <2>1. stream'[s] = r /\ account'.known[s] = published
    BY <1>2, <1>3 DEF ControlTypeOK
  <2>2. stream[s].next = 0
    BY <1>2, <1>3 DEF HandsInv
  <2>3. Behind(s) = {}
    <3> SUFFICES ASSUME NEW j \in Behind(s) PROVE FALSE
      OBVIOUS
    <3>1. queue[j].n < 0
      BY <2>2 DEF Linked, QueueFollows
    <3>2. queue[j] \in Frames
      BY DEF Behind, ControlTypeOK
    <3>. QED BY <3>1, <3>2 DEF Frames
  <2>4. Behind(s)' = {}
    BY <1>1, <2>3 DEF Behind
  <2>5. QueueFollows(s)' /\ HandFollows(s)'
    BY <1>2, <2>1, <2>4 DEF QueueFollows, HandFollows
  <2>6. published < published + 1 /\ \A m \in Nat : ~(published < m /\ m < published + 1)
    BY DEF ControlTypeOK
  <2>7. ReadIsTold(s)'
    BY <1>2, <2>1, <2>6 DEF ReadIsTold
  <2>. QED BY <2>5, <2>7 DEF Linked
<1>4. CASE s # u
  <2>1. stream'[s] = stream[s] /\ account'.known[s] = account.known[s]
    BY <1>2, <1>4 DEF ControlTypeOK
  <2>2. Undisturbed(s)
    BY <1>1, <2>1 DEF Undisturbed
  <2>3. Grows(NoFrame) /\ NoFrame.from # s /\ queue' \in Seq(Frames)
    BY <1>1 DEF Grows, NoFrame, ControlTypeOK, Streams
  <2>. QED BY <2>2, <2>3, UndisturbedStaysLinked
<1>. QED BY <1>3, <1>4

(* Everything that leaves the streams alone, but that it may abort some and   *)
(* queue a reply.                                                             *)
LEMMA OthersStayLinked ==
  ASSUME ControlTypeOK, ControlTypeOK', \A s \in Streams : Linked(s), writer = "up",
         \/ Publish \/ ClearCaptures \/ PeerLeaves \/ Malformed \/ SendReply \/ EndOfInput \/ ReadError \/ Drained
         \/ \E i \in RequestIds : Unsubscribe(i) \/ Submit(i) \/ FinishRequest(i)
         \/ UNCHANGED ctlVars,
         NEW s \in Streams
  PROVE  Linked(s)'
<1>1. UNCHANGED stream \/ \E S : stream' = Abort(S)
  BY DEF Publish, ClearCaptures, PeerLeaves, Malformed, SendReply, EndOfInput, ReadError, Drained, Unsubscribe, Submit,
     FinishRequest, ctlVars
<1>2. stream'[s].next = stream[s].next /\ stream'[s].filtered = stream[s].filtered /\ stream'[s].frame = stream[s].frame
      /\ (stream'[s].pc \in {"recv", "send"} => stream[s].pc \in {"recv", "send"})
  <2>1. CASE UNCHANGED stream
    BY <2>1
  <2>2. CASE \E S : stream' = Abort(S)
    <3>1. stream'[s] \in {stream[s], [stream[s] EXCEPT !.pc = "aborted"]} /\ stream[s] \in Subscriptions
      BY <2>2 DEF Abort, ControlTypeOK
    <3>. QED BY <3>1 DEF Subscriptions
  <2>. QED BY <1>1, <2>1, <2>2
<1>3. account'.known = account.known
  <2>1. CASE UNCHANGED account
    BY <2>1
  <2>2. CASE ReadError
    BY <2>2 DEF ReadError, ControlTypeOK
  <2>. QED BY <2>1, <2>2 DEF Publish, ClearCaptures, PeerLeaves, Malformed, SendReply, EndOfInput, Drained, Unsubscribe,
       Submit, FinishRequest, ctlVars
<1>4. gone \subseteq gone'
  <2>1. gone' = gone \/ gone' = 1..published
    BY DEF Publish, ClearCaptures, PeerLeaves, Malformed, SendReply, EndOfInput, ReadError, Drained, Unsubscribe, Submit,
       FinishRequest, ctlVars
  <2>2. gone \subseteq 1..published
    BY DEF ControlTypeOK
  <2>. QED BY <2>1, <2>2
<1>5. Undisturbed(s)
  BY <1>2, <1>3, <1>4 DEF Undisturbed
<1>6. \E l : l.from = 0 /\ Grows(l)
  <2>1. CASE SendReply
    <3>1. reader.reply \in Frames /\ reader.reply.from = 0
      BY DEF ControlTypeOK
    <3>2. Send(reader.reply) /\ UNCHANGED writer
      BY <2>1 DEF SendReply
    <3>. QED BY <3>1, <3>2, SendGrows
  <2>2. CASE \E i \in RequestIds : FinishRequest(i)
    <3>1. PICK i \in RequestIds : FinishRequest(i)
      BY <2>2
    <3>2. PICK l \in Frames : l = Reply("ok", i) /\ l.from = 0
      BY ReplyIsAFrame
    <3>3. Send(l) /\ UNCHANGED writer
      BY <3>1, <3>2 DEF FinishRequest
    <3>. QED BY <3>2, <3>3, SendGrows
  <2>3. CASE UNCHANGED queue
    <3>1. Grows(NoFrame)
      BY <2>3 DEF Grows
    <3>2. NoFrame.from = 0
      BY DEF NoFrame
    <3>. QED BY <3>1, <3>2
  <2>. QED BY <2>1, <2>2, <2>3 DEF Publish, ClearCaptures, PeerLeaves, Malformed, EndOfInput, ReadError, Drained,
       Unsubscribe, Submit, ctlVars
<1>. QED BY <1>5, <1>6, UndisturbedStaysLinked DEF ControlTypeOK, Streams

LEMMA TasksStayLinked ==
  ASSUME ControlTypeOK, ControlTypeOK', HandsInv, \A s \in Streams : Linked(s), writer = "up",
         NEW t \in Streams, Receive(t) \/ SendEvent(t) \/ AbortLands(t), NEW s \in Streams
  PROVE  Linked(s)'
<1>1. UNCHANGED <<gone, writer, account>>
  BY DEF Receive, SendEvent, AbortLands, Steps
<1>2. PICK l \in Frames : l = stream[t].frame
  BY DEF ControlTypeOK, Subscriptions
<1>3. UNCHANGED queue \/ Send(l)
  BY <1>2 DEF Receive, SendEvent, AbortLands
<1>4. Grows(l) /\ (Send(l) => queue' # queue)
  <2>1. CASE UNCHANGED queue /\ ~Send(l)
    BY <2>1 DEF Grows
  <2>2. CASE Send(l)
    BY <1>1, <2>2, SendGrows
  <2>. QED BY <1>3, <2>1, <2>2
<1>5. queue' \in Seq(Frames)
  BY DEF ControlTypeOK
<1>6. CASE Receive(t) /\ s = t
  BY <1>6, ReadStaysLinked
<1>7. CASE Receive(t) /\ s # t
  <2>1. stream'[s] = stream[s] /\ UNCHANGED queue
    BY <1>7 DEF Receive, Steps, ControlTypeOK
  <2>2. Undisturbed(s)
    BY <1>1, <2>1 DEF Undisturbed
  <2>3. Grows(NoFrame) /\ NoFrame.from # s
    BY <2>1 DEF Grows, NoFrame, Streams
  <2>. QED BY <1>5, <2>2, <2>3, UndisturbedStaysLinked
<1>8. CASE SendEvent(t) \/ AbortLands(t)
  <2>1. PICK p \in {"recv", "ended"} : /\ stream' = [stream EXCEPT ![t] = [stream[t] EXCEPT !.pc = p, !.frame = NoFrame]]
                                       /\ p = "recv" => stream[t].pc = "send" /\ Send(l)
    BY <1>2, <1>8 DEF SendEvent, AbortLands, Steps
  <2>2. l = NoFrame \/ l.from = t
    BY <1>2 DEF Linked, HandFollows
  <2>3. NoFrame.from = 0 /\ 0 \notin Streams
    BY DEF NoFrame, Streams
  <2>4. CASE s # t
    <3>1. stream'[s] = stream[s]
      BY <2>1, <2>4 DEF ControlTypeOK
    <3>2. Undisturbed(s) /\ l.from # s
      BY <1>1, <2>2, <2>3, <2>4, <3>1 DEF Undisturbed
    <3>. QED BY <1>4, <1>5, <3>2, UndisturbedStaysLinked
  <2>5. CASE s = t
    <3>1. /\ stream'[s].next = stream[s].next /\ stream'[s].filtered = stream[s].filtered
          /\ stream'[s].frame = NoFrame /\ stream'[s].pc = p
      BY <2>1, <2>5 DEF ControlTypeOK, Subscriptions
    <3>2. CASE l = NoFrame
      <4>1. Undisturbed(s) /\ l.from # s
        BY <1>1, <1>2, <2>1, <2>3, <2>5, <3>1, <3>2 DEF Undisturbed
      <4>. QED BY <1>4, <1>5, <4>1, UndisturbedStaysLinked
    <3>3. CASE l # NoFrame /\ Send(l)
      BY <1>1, <1>2, <1>4, <1>5, <2>1, <2>5, <3>1, <3>3, SentStaysLinked
    <3>4. CASE l # NoFrame /\ ~Send(l)
      <4>1. Undisturbed(s)
        BY <1>1, <2>1, <2>5, <3>1, <3>4 DEF Undisturbed
      <4>2. Grows(NoFrame) /\ NoFrame.from # s
        BY <1>3, <2>3, <3>4 DEF Grows
      <4>. QED BY <1>5, <4>1, <4>2, UndisturbedStaysLinked
    <3>. QED BY <3>2, <3>3, <3>4
  <2>. QED BY <2>4, <2>5
<1>. QED BY <1>6, <1>7, <1>8

-----------------------------------------------------------------------------
LEMMA HandsStay ==
  ASSUME ControlTypeOK, ControlTypeOK', HandsInv, [ControlNext]_ctlVars
  PROVE  HandsInv'
<1>1. SUFFICES ASSUME NEW s \in Streams
               PROVE  /\ stream'[s].frame # NoFrame => stream'[s].pc \in {"send", "aborted"}
                      /\ stream'[s].pc = "unused" => stream'[s].next = 0
  BY DEF HandsInv
<1>2. /\ stream[s].frame # NoFrame => stream[s].pc \in {"send", "aborted"}
      /\ stream[s].pc = "unused" => stream[s].next = 0
      /\ stream[s] \in Subscriptions
  BY DEF HandsInv, ControlTypeOK
<1>3. CASE UNCHANGED stream
  BY <1>2, <1>3
<1>4. CASE \E S : stream' = Abort(S)
  <2>1. stream'[s] = stream[s] \/ (stream'[s] = [stream[s] EXCEPT !.pc = "aborted"] /\ Running(s))
    BY <1>4 DEF Abort
  <2>. QED BY <1>2, <2>1 DEF Running, Subscriptions
<1>5. CASE \E i \in RequestIds, b \in BOOLEAN : Subscribe(i, b)
  <2>1. PICK u \in Streams, r \in Subscriptions : stream' = [stream EXCEPT ![u] = r] /\ r.pc = "recv" /\ r.frame = NoFrame
    BY <1>5, SubscribeKeepsTypes
  <2>. QED BY <1>2, <2>1 DEF ControlTypeOK
<1>6. CASE \E t \in Streams : Receive(t)
  <2>1. PICK t \in Streams : Receive(t)
    BY <1>6
  <2>2. PICK r \in Subscriptions : /\ stream' = [stream EXCEPT ![t] = r]
                                   /\ r.pc = "send" \/ (r.pc = "recv" /\ r.frame = stream[t].frame)
    BY <2>1, ReceiveReads
  <2>3. stream[t].frame = NoFrame
    BY <2>1 DEF Receive, HandsInv
  <2>. QED BY <1>2, <2>2, <2>3 DEF ControlTypeOK
<1>7. CASE \E t \in Streams : SendEvent(t) \/ AbortLands(t)
  <2>1. PICK t \in Streams, p \in {"recv", "ended"} :
               stream' = [stream EXCEPT ![t] = [stream[t] EXCEPT !.pc = p, !.frame = NoFrame]]
    BY <1>7 DEF SendEvent, AbortLands, Steps
  <2>2. CASE s = t
    <3>1. stream'[s].frame = NoFrame /\ stream'[s].pc = p
      BY <1>2, <2>1, <2>2 DEF ControlTypeOK, Subscriptions
    <3>. QED BY <3>1
  <2>3. CASE s # t
    BY <1>2, <2>1, <2>3 DEF ControlTypeOK
  <2>. QED BY <2>2, <2>3
<1>. QED BY <1>3, <1>4, <1>5, <1>6, <1>7 DEF ControlNext, Client, ServeConnection, Publish, ClearCaptures, PeerLeaves,
     Malformed, Unsubscribe, Submit, SendReply, EndOfInput, ReadError, Drained, Write, WriteFails, WriterEnds,
     FinishRequest, ctlVars

LEMMA ControlStepInv == ControlInv /\ [ControlNext]_ctlVars => ControlInv'
<1> SUFFICES ASSUME ControlInv, [ControlNext]_ctlVars PROVE ControlInv'
  OBVIOUS
<1>1. ControlTypeOK /\ HandsInv /\ ChainInv
  BY DEF ControlInv
<1>2. ControlTypeOK'
  <2>1. CASE UNCHANGED ctlVars
    BY <1>1, <2>1 DEF ctlVars, ControlTypeOK
  <2>2. CASE \E i \in RequestIds, b \in BOOLEAN : Subscribe(i, b)
    BY <1>1, <2>2, SubscribeKeepsTypes
  <2>. QED BY <1>1, <2>1, <2>2, BusKeepsTypes, ReaderKeepsTypes, TasksKeepTypes, WriterKeepsTypes
       DEF ControlNext, Client, ServeConnection
<1>3. HandsInv'
  BY <1>1, <1>2, HandsStay
<1>4. ChainInv'
  <2> SUFFICES ASSUME writer' = "up", NEW s \in Streams PROVE Linked(s)'
    BY DEF ChainInv
  <2>1. writer = "up"
    BY <1>1 DEF ControlNext, Client, ServeConnection, Publish, ClearCaptures, PeerLeaves, Malformed, Unsubscribe, Submit,
       SendReply, EndOfInput, ReadError, Drained, Write, WriteFails, WriterEnds, FinishRequest, Subscribe, Receive,
       SendEvent, AbortLands, Steps, ctlVars
  <2>2. \A t \in Streams : Linked(t)
    BY <1>1, <2>1 DEF ChainInv
  <2>3. CASE \E i \in RequestIds, b \in BOOLEAN : Subscribe(i, b)
    BY <1>1, <2>2, <2>3, SubscribeStaysLinked
  <2>4. CASE \E t \in Streams : Receive(t) \/ SendEvent(t) \/ AbortLands(t)
    BY <1>1, <1>2, <2>1, <2>2, <2>4, TasksStayLinked
  <2>5. CASE Write
    BY <1>1, <2>2, <2>5, WrittenStaysLinked
  <2>6. ~WriteFails /\ ~WriterEnds
    BY DEF WriteFails, WriterEnds
  <2>. QED BY <1>1, <1>2, <2>1, <2>2, <2>3, <2>4, <2>5, <2>6, OthersStayLinked DEF ControlNext, Client, ServeConnection
<1>. QED BY <1>2, <1>3, <1>4 DEF ControlInv

LEMMA ControlInvariance == ControlSpec => []ControlInv
<1>. QED BY ControlInitInv, ControlStepInv, PTL DEF ControlSpec

-----------------------------------------------------------------------------
(* The reader, the writer, the tasks and the queue keep their types, and the  *)
(* queue its bound.                                                           *)
THEOREM ControlTypeCorrect == ControlSpec => []ControlTypeOK
<1>1. ControlInv => ControlTypeOK  BY DEF ControlInv
<1>. QED BY <1>1, ControlInvariance, PTL

(* What is written on a subscription follows on what its client knew: every   *)
(* event in between was withheld by the filter or is counted by the line.     *)
THEOREM EveryEventIsAccountedFor == ControlSpec => NothingLostSilently
<1> DEFINE Follows == \A s \in Streams : Write /\ Head(queue).from = s =>
         /\ Head(queue).n > account.known[s]
         /\ \A n \in (account.known[s] + 1)..(Head(queue).n - 1) :
              n > Head(queue).n - Head(queue).lost \/ ~Belongs(s, n)
<1>1. ControlInv => Follows
  <2> SUFFICES ASSUME ControlInv, NEW s \in Streams, Write, Head(queue).from = s
               PROVE  /\ Head(queue).n > account.known[s]
                      /\ \A n \in (account.known[s] + 1)..(Head(queue).n - 1) :
                           n > Head(queue).n - Head(queue).lost \/ ~Belongs(s, n)
    OBVIOUS
  <2>1. queue \in Seq(Frames) /\ queue # <<>> /\ QueueFollows(s)
    BY DEF ControlInv, ControlTypeOK, ChainInv, Linked, Write
  <2>2. PICK h \in Frames : h = Head(queue) /\ h = queue[1] /\ 1 \in 1..Len(queue)
    BY <2>1
  <2>3. Before(s, 1) = {}
    BY DEF Before
  <2>4. PICK a \in Nat, k \in Nat, l \in Nat : a = account.known[s] /\ k = h.n /\ l = h.lost
    BY DEF ControlInv, ControlTypeOK, Frames
  <2>5. a < k /\ \A m \in Nat : a < m /\ m < k => m > k - l \/ ~Belongs(s, m)
    BY <2>1, <2>2, <2>3, <2>4 DEF QueueFollows, Behind, Settled
  <2>6. \A n \in (a + 1)..(k - 1) : n \in Nat /\ a < n /\ n < k
    OBVIOUS
  <2>. QED BY <2>2, <2>4, <2>5, <2>6
<1>. QED BY <1>1, ControlInvariance, PTL DEF NothingLostSilently
=============================================================================
