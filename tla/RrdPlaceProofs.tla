--------------------------- MODULE RrdPlaceProofs ---------------------------
(***************************************************************************)
(* No request is lost and none is processed twice: ExactlyOnePlace and     *)
(* ReportedAtMostOnce of RrdDispatch, for every instance.                  *)
(***************************************************************************)
EXTENDS RrdDispatchProofs

-----------------------------------------------------------------------------
(***************************************************************************)
(* The invariant.  A request is spoken of by where it is, without counting *)
(* places; what makes it stay alone there is that no list names a request  *)
(* twice and no two lists or entries name the same one.                    *)
(***************************************************************************)
Has(toks, r) == \E k \in DOMAIN toks : toks[k].req = r
Distinct(toks) == \A j, k \in DOMAIN toks : toks[j].req = toks[k].req => j = k

\* Not the leftover of an entry whose message is already sent.
Stands(e) == ~(hpc = "remove" /\ e = hent)

Queued(r)  == \E k \in DOMAIN queue : Has(queue[k].toks, r)
Framed(r)  == \E k \in DOMAIN blobs : Has(blobs[k], r)
Waiting(r) == \E e \in cache : e.req = r /\ Stands(e)

QueueSole ==
  /\ \A k \in DOMAIN queue : Distinct(queue[k].toks)
  /\ \A r \in Req : \A j, k \in DOMAIN queue :
       Has(queue[j].toks, r) /\ Has(queue[k].toks, r) => j = k
BlobsSole ==
  /\ \A k \in DOMAIN blobs : Distinct(blobs[k])
  /\ \A r \in Req : \A j, k \in DOMAIN blobs : Has(blobs[j], r) /\ Has(blobs[k], r) => j = k
CacheSole == \A e, f \in cache : e.req = f.req /\ Stands(e) /\ Stands(f) => e = f
CurSole ==
  /\ pc # "recv" => Distinct(cur.toks)
  /\ pc = "decode" => idx = 1

\* In one place if unsettled, in none otherwise.
One(r) ==
  /\ outcome[r] = "open" <=> Queued(r) \/ Framed(r) \/ Waiting(r) \/ Held(r)
  /\ Queued(r)  => ~Framed(r) /\ ~Waiting(r) /\ ~Held(r)
  /\ Framed(r)  => ~Waiting(r) /\ ~Held(r)
  /\ Waiting(r) => ~Held(r)

PInv ==
  /\ QueueSole /\ BlobsSole /\ CacheSole /\ CurSole
  /\ \A r \in DOMAIN req : One(r)
  /\ \A r \in Req \ DOMAIN req : outcome[r] = "open"
-----------------------------------------------------------------------------
\* What nobody asked for is nowhere, and what is somewhere was asked for.
LEMMA NowhereUnasked ==
  ASSUME TInv, NEW r, r \notin DOMAIN req
  PROVE  ~Queued(r) /\ ~Framed(r) /\ ~Waiting(r) /\ ~Held(r)
<1>1. ~Queued(r) /\ ~Framed(r)
  BY DEF TInv, QueueKnown, BlobsKnown, Known, Queued, Framed, Has
<1>2. ~Waiting(r)
  BY DEF TInv, CacheKnown, Waiting
<1>3. ~Held(r)
  <2>1. CASE pc = "recv"
    BY <2>1 DEF Held
  <2>2. CASE pc # "recv"
    <3>1. /\ cur.toks \in Seq(Token) /\ idx \in DOMAIN cur.toks
          /\ \A k \in DOMAIN cur.toks : cur.toks[k].req \in DOMAIN req
      BY <2>2 DEF TInv, TypeOK, TypeThread, CurKnown, Known, Message
    <3>2. DOMAIN cur.toks = 1..Len(cur.toks) /\ Len(cur.toks) \in Nat
      BY <3>1
    <3> QED BY <3>1, <3>2 DEF Held
  <2> QED BY <2>1, <2>2
<1> QED BY <1>1, <1>2, <1>3

LEMMA AskedInReq ==
  ASSUME TInv PROVE DOMAIN req \subseteq Req
<1>1. req \in Seq(Request) /\ Len(req) <= MaxReq /\ MaxReq \in Nat
  BY ConstantsAssumption DEF TInv, TypeOK, TypeRequests
<1> QED BY <1>1 DEF Req

\* A message of requests that are not queued joins the queue.
LEMMA QueueAppend ==
  ASSUME TInv, QueueSole, NEW m \in Message, RRDMsgDeliver(m), Distinct(m.toks),
         \A r \in Req : Has(m.toks, r) => ~Queued(r)
  PROVE  /\ QueueSole'
         /\ \A r : Queued(r)' <=> Queued(r) \/ Has(m.toks, r)
<1>1. queue \in Seq(Message) /\ queue' = Append(queue, m)
  BY DEF TInv, TypeOK, TypeQueue, RRDMsgDeliver
<1> DEFINE n == Len(queue)
<1>2. /\ n \in Nat /\ DOMAIN queue = 1..n /\ DOMAIN queue' = 1..(n + 1)
      /\ \A k \in 1..n : queue'[k] = queue[k]
      /\ queue'[n + 1] = m
  BY <1>1
<1> HIDE DEF n
<1>3. \A k \in 1..(n + 1) : k \in 1..n \/ k = n + 1
  BY <1>2
<1>4. 1..n \subseteq 1..(n + 1) /\ n + 1 \in 1..(n + 1) /\ n + 1 \notin 1..n
  BY <1>2
<1>5. \A r : Queued(r)' <=> Queued(r) \/ Has(m.toks, r)
  BY <1>2, <1>3, <1>4 DEF Queued, Has
<1>6. \A k \in DOMAIN queue' : Distinct(queue'[k].toks)
  BY <1>2, <1>3 DEF QueueSole
<1>7. ASSUME NEW r \in Req, NEW j \in DOMAIN queue', NEW k \in DOMAIN queue',
             Has(queue'[j].toks, r), Has(queue'[k].toks, r)
      PROVE  j = k
  <2>1. CASE j \in 1..n /\ k \in 1..n
    BY <1>2, <1>7, <2>1 DEF QueueSole
  <2>2. CASE j = n + 1 /\ k \in 1..n
    BY <1>2, <1>7, <2>2 DEF Queued
  <2>3. CASE k = n + 1 /\ j \in 1..n
    BY <1>2, <1>7, <2>3 DEF Queued
  <2> QED BY <1>2, <1>3, <2>1, <2>2, <2>3
<1>8. QueueSole'
  BY <1>6, <1>7 DEF QueueSole, Distinct, Has
<1> QED BY <1>5, <1>8

\* The first message leaves the queue.
LEMMA QueueTail ==
  ASSUME TInv, QueueSole, queue # <<>>, queue' = Tail(queue)
  PROVE  /\ QueueSole'
         /\ Distinct(Head(queue).toks)
         /\ \A r \in Req : Queued(r)' <=> Queued(r) /\ ~Has(Head(queue).toks, r)
         /\ \A r : Has(Head(queue).toks, r) => Queued(r)
<1>1. queue \in Seq(Message)
  BY DEF TInv, TypeOK, TypeQueue
<1> DEFINE n == Len(queue)
<1>2. /\ n \in Nat \ {0} /\ DOMAIN queue = 1..n /\ DOMAIN queue' = 1..(n - 1)
      /\ \A k \in 1..(n - 1) : queue'[k] = queue[k + 1]
      /\ Head(queue) = queue[1]
  BY <1>1
<1> HIDE DEF n
<1>3. /\ \A k \in 1..(n - 1) : k + 1 \in 1..n /\ k + 1 # 1
      /\ \A k \in 1..n : k = 1 \/ (k - 1 \in 1..(n - 1) /\ (k - 1) + 1 = k)
      /\ 1 \in 1..n
  BY <1>2
<1>4. \A j, k \in 1..(n - 1) : j + 1 = k + 1 => j = k
  BY <1>2
<1>5. Distinct(Head(queue).toks) /\ \A r : Has(Head(queue).toks, r) => Queued(r)
  BY <1>2, <1>3 DEF QueueSole, Queued
<1>6. ASSUME NEW r \in Req PROVE Queued(r)' <=> Queued(r) /\ ~Has(Head(queue).toks, r)
  <2>1. ASSUME Queued(r)' PROVE Queued(r) /\ ~Has(Head(queue).toks, r)
    <3>1. PICK k \in 1..(n - 1) : Has(queue[k + 1].toks, r)
      BY <1>2, <2>1 DEF Queued, Has
    <3> QED BY <1>2, <1>3, <3>1 DEF Queued, QueueSole
  <2>2. ASSUME Queued(r), ~Has(Head(queue).toks, r) PROVE Queued(r)'
    <3>1. PICK k \in 1..n : Has(queue[k].toks, r)
      BY <1>2, <2>2 DEF Queued
    <3>2. k - 1 \in 1..(n - 1) /\ queue'[k - 1] = queue[k]
      BY <1>2, <1>3, <2>2, <3>1
    <3>3. PICK j \in DOMAIN queue' : queue'[j] = queue[k]
      BY <1>2, <3>2
    <3> QED BY <3>1, <3>3 DEF Queued, Has
  <2> QED BY <2>1, <2>2
<1>7. QueueSole'
  BY <1>2, <1>3, <1>4 DEF QueueSole, Distinct, Has
<1> QED BY <1>5, <1>6, <1>7

\* The same for the lists the web configuration framework holds.
LEMMA BlobsAppend ==
  ASSUME TInv, BlobsSole, NEW t \in Seq(Token), blobs' = Append(blobs, t), Distinct(t),
         \A r \in Req : Has(t, r) => ~Framed(r)
  PROVE  /\ BlobsSole'
         /\ \A r : Framed(r)' <=> Framed(r) \/ Has(t, r)
<1>1. blobs \in Seq(Seq(Token))
  BY DEF TInv, TypeOK, TypeQueue
<1> DEFINE n == Len(blobs)
<1>2. /\ n \in Nat /\ DOMAIN blobs = 1..n /\ DOMAIN blobs' = 1..(n + 1)
      /\ \A k \in 1..n : blobs'[k] = blobs[k]
      /\ blobs'[n + 1] = t
  BY <1>1
<1> HIDE DEF n
<1>3. \A k \in 1..(n + 1) : k \in 1..n \/ k = n + 1
  BY <1>2
<1>4. 1..n \subseteq 1..(n + 1) /\ n + 1 \in 1..(n + 1) /\ n + 1 \notin 1..n
  BY <1>2
<1>5. \A r : Framed(r)' <=> Framed(r) \/ Has(t, r)
  BY <1>2, <1>3, <1>4 DEF Framed, Has
<1>6. \A k \in DOMAIN blobs' : Distinct(blobs'[k])
  BY <1>2, <1>3 DEF BlobsSole
<1>7. ASSUME NEW r \in Req, NEW j \in DOMAIN blobs', NEW k \in DOMAIN blobs',
             Has(blobs'[j], r), Has(blobs'[k], r)
      PROVE  j = k
  <2>1. CASE j \in 1..n /\ k \in 1..n
    BY <1>2, <1>7, <2>1 DEF BlobsSole
  <2>2. CASE j = n + 1 /\ k \in 1..n
    BY <1>2, <1>7, <2>2 DEF Framed
  <2>3. CASE k = n + 1 /\ j \in 1..n
    BY <1>2, <1>7, <2>3 DEF Framed
  <2> QED BY <1>2, <1>3, <2>1, <2>2, <2>3
<1>8. BlobsSole'
  BY <1>6, <1>7 DEF BlobsSole, Distinct, Has
<1> QED BY <1>5, <1>8

LEMMA BlobsTail ==
  ASSUME TInv, BlobsSole, blobs # <<>>, blobs' = Tail(blobs)
  PROVE  /\ BlobsSole'
         /\ Head(blobs) \in Seq(Token) /\ Distinct(Head(blobs))
         /\ \A r \in Req : Framed(r)' <=> Framed(r) /\ ~Has(Head(blobs), r)
         /\ \A r : Has(Head(blobs), r) => Framed(r)
<1>1. blobs \in Seq(Seq(Token))
  BY DEF TInv, TypeOK, TypeQueue
<1> DEFINE n == Len(blobs)
<1>2. /\ n \in Nat \ {0} /\ DOMAIN blobs = 1..n /\ DOMAIN blobs' = 1..(n - 1)
      /\ \A k \in 1..(n - 1) : blobs'[k] = blobs[k + 1]
      /\ Head(blobs) = blobs[1] /\ Head(blobs) \in Seq(Token)
  BY <1>1
<1> HIDE DEF n
<1>3. /\ \A k \in 1..(n - 1) : k + 1 \in 1..n /\ k + 1 # 1
      /\ \A k \in 1..n : k = 1 \/ (k - 1 \in 1..(n - 1) /\ (k - 1) + 1 = k)
      /\ 1 \in 1..n
  BY <1>2
<1>4. \A j, k \in 1..(n - 1) : j + 1 = k + 1 => j = k
  BY <1>2
<1>5. Distinct(Head(blobs)) /\ \A r : Has(Head(blobs), r) => Framed(r)
  BY <1>2, <1>3 DEF BlobsSole, Framed
<1>6. ASSUME NEW r \in Req PROVE Framed(r)' <=> Framed(r) /\ ~Has(Head(blobs), r)
  <2>1. ASSUME Framed(r)' PROVE Framed(r) /\ ~Has(Head(blobs), r)
    <3>1. PICK k \in 1..(n - 1) : Has(blobs[k + 1], r)
      BY <1>2, <2>1 DEF Framed, Has
    <3> QED BY <1>2, <1>3, <3>1 DEF Framed, BlobsSole
  <2>2. ASSUME Framed(r), ~Has(Head(blobs), r) PROVE Framed(r)'
    <3>1. PICK k \in 1..n : Has(blobs[k], r)
      BY <1>2, <2>2 DEF Framed
    <3>2. k - 1 \in 1..(n - 1) /\ blobs'[k - 1] = blobs[k]
      BY <1>2, <1>3, <2>2, <3>1
    <3>3. PICK j \in DOMAIN blobs' : blobs'[j] = blobs[k]
      BY <1>2, <3>2
    <3> QED BY <3>1, <3>3 DEF Framed, Has
  <2> QED BY <2>1, <2>2
<1>7. BlobsSole'
  BY <1>2, <1>3, <1>4 DEF BlobsSole, Distinct, Has
<1> QED BY <1>2, <1>5, <1>6, <1>7

\* NextToken lets go of the request at hand and of no other.
LEMMA Advance ==
  ASSUME TInv, CurSole, pc # "recv", NextToken
  PROVE  /\ CurSole'
         /\ Held(CurReq)
         /\ \A r : Held(r)' <=> Held(r) /\ r # CurReq
<1> DEFINE toks == cur.toks
           n == Len(cur.toks)
<1>1. /\ n \in Nat /\ DOMAIN toks = 1..n /\ idx \in 1..n
      /\ Distinct(toks)
  BY DEF TInv, TypeOK, TypeThread, CurKnown, Message, CurSole
<1> HIDE DEF toks, n
<1>2. idx..n = {idx} \union ((idx + 1)..n)
  BY <1>1
<1>3. (idx + 1)..n \subseteq 1..n /\ \A k \in (idx + 1)..n : k # idx
  BY <1>1
<1>4. \A r : Held(r) <=> \E k \in idx..n : toks[k].req = r
  BY DEF Held, toks, n
<1>5. CurReq = toks[idx].req
  BY DEF CurReq, toks
<1>6. \A r : (\E k \in (idx + 1)..n : toks[k].req = r) <=> Held(r) /\ r # CurReq
  BY <1>1, <1>2, <1>3, <1>4, <1>5 DEF Distinct
<1>7. CASE idx < n
  <2>1. cur' = cur /\ idx' = idx + 1 /\ pc' = "token"
    BY <1>7 DEF NextToken, n
  <2>2. \A r : Held(r)' <=> \E k \in (idx + 1)..n : toks[k].req = r
    BY <2>1 DEF Held, toks, n
  <2>3. CurSole'
    BY <1>1, <2>1 DEF CurSole, Distinct, toks
  <2> QED BY <1>2, <1>4, <1>5, <1>6, <2>2, <2>3
<1>8. CASE ~(idx < n)
  <2>1. cur' = cur /\ pc' = "recv"
    BY <1>8 DEF NextToken, n
  <2>2. (idx + 1)..n = {}
    BY <1>1, <1>8
  <2>3. \A r : ~Held(r)'
    BY <2>1 DEF Held
  <2>4. CurSole'
    BY <2>1 DEF CurSole
  <2> QED BY <1>2, <1>4, <1>5, <1>6, <2>2, <2>3, <2>4
<1> QED BY <1>7, <1>8

\* What a step does not touch stays as it was.
LEMMA QueueSame ==
  ASSUME UNCHANGED queue
  PROVE  (QueueSole <=> QueueSole') /\ \A r : Queued(r)' <=> Queued(r)
  BY DEF QueueSole, Queued, Has, Distinct
LEMMA BlobsSame ==
  ASSUME UNCHANGED blobs
  PROVE  (BlobsSole <=> BlobsSole') /\ \A r : Framed(r)' <=> Framed(r)
  BY DEF BlobsSole, Framed, Has, Distinct
LEMMA CacheSame ==
  ASSUME UNCHANGED <<cache, hpc, hent>>
  PROVE  (CacheSole <=> CacheSole') /\ \A r : Waiting(r)' <=> Waiting(r)
  BY DEF CacheSole, Waiting, Stands
LEMMA ThreadSame ==
  ASSUME UNCHANGED <<pc, cur, idx>>
  PROVE  (CurSole <=> CurSole') /\ \A r : Held(r)' <=> Held(r)
  BY DEF CurSole, Held, Distinct

\* Requests change place, or are settled, and none is made.
LEMMA PlaceStep ==
  ASSUME UNCHANGED req, QueueSole', BlobsSole', CacheSole', CurSole',
         \A r \in Req \ DOMAIN req : outcome'[r] = "open",
         \A r \in DOMAIN req : One(r)'
  PROVE  PInv'
  BY DEF PInv

-----------------------------------------------------------------------------
(***************************************************************************)
(* One lemma per group of actions.                                         *)
(***************************************************************************)

\* A callback makes the requests that its message carries.
LEMMA AskPInv ==
  ASSUME TInv, PInv, TInv', NEW m \in Message, RRDMsgDeliver(m), Distinct(m.toks),
         DOMAIN req \subseteq DOMAIN req',
         \A r : Has(m.toks, r) <=> r \in DOMAIN req' \ DOMAIN req,
         UNCHANGED <<blobs, pc, cur, idx, cache, hpc, hent, outcome>>
  PROVE  PInv'
<1>1. \A r : r \notin DOMAIN req => ~Queued(r) /\ ~Framed(r) /\ ~Waiting(r) /\ ~Held(r)
  BY NowhereUnasked
<1>2. QueueSole' /\ \A r : Queued(r)' <=> Queued(r) \/ Has(m.toks, r)
  BY <1>1, QueueAppend DEF PInv
<1>3. BlobsSole' /\ CacheSole' /\ CurSole'
  BY BlobsSame, CacheSame, ThreadSame DEF PInv
<1>4. \A r : /\ Framed(r)' <=> Framed(r)
             /\ Waiting(r)' <=> Waiting(r)
             /\ Held(r)' <=> Held(r)
  BY BlobsSame, CacheSame, ThreadSame
<1>5. DOMAIN req' \subseteq Req
  <2>1. req' \in Seq(Request) /\ Len(req') <= MaxReq /\ MaxReq \in Nat
    BY ConstantsAssumption DEF TInv, TypeOK, TypeRequests
  <2> QED BY <2>1 DEF Req
<1>6. ASSUME NEW r \in DOMAIN req' PROVE One(r)'
  <2>1. CASE r \in DOMAIN req
    <3>1. One(r)
      BY <2>1 DEF PInv
    <3>2. Queued(r)' <=> Queued(r)
      BY <1>2, <2>1
    <3> QED BY <1>4, <3>1, <3>2 DEF One
  <2>2. CASE r \notin DOMAIN req
    <3>1. Queued(r)' /\ ~Framed(r)' /\ ~Waiting(r)' /\ ~Held(r)'
      BY <1>1, <1>2, <1>4, <2>2
    <3>2. outcome'[r] = "open"
      BY <1>5, <2>2 DEF PInv
    <3> QED BY <3>1, <3>2 DEF One
  <2> QED BY <2>1, <2>2
<1>7. \A r \in Req \ DOMAIN req' : outcome'[r] = "open"
  BY DEF PInv
<1> QED BY <1>2, <1>3, <1>6, <1>7 DEF PInv

\* The request at hand is settled and the event thread goes on.
LEMMA SettlePInv ==
  ASSUME TInv, PInv, pc # "recv", NextToken, NEW o, o # "open", Settle(o),
         UNCHANGED <<req, queue, blobs, cache, hpc, hent>>
  PROVE  PInv'
<1>1. CurReq \in DOMAIN req /\ CurReq \in Req /\ outcome \in [Req -> Outcome]
  BY CurReqProperties DEF TInv, TypeOK, TypeRequests
<1>2. CurSole' /\ Held(CurReq) /\ \A r : Held(r)' <=> Held(r) /\ r # CurReq
  BY Advance DEF PInv
<1>3. QueueSole' /\ BlobsSole' /\ CacheSole'
  BY QueueSame, BlobsSame, CacheSame DEF PInv
<1>4. \A r : /\ Queued(r)' <=> Queued(r)
             /\ Framed(r)' <=> Framed(r)
             /\ Waiting(r)' <=> Waiting(r)
  BY QueueSame, BlobsSame, CacheSame
<1>5. \A r \in Req : outcome'[r] = IF r = CurReq THEN o ELSE outcome[r]
  BY <1>1 DEF Settle
<1>6. ASSUME NEW r \in DOMAIN req PROVE One(r)'
  <2>1. One(r) /\ r \in Req
    BY AskedInReq DEF PInv
  <2>2. CASE r = CurReq
    <3>1. ~Queued(r) /\ ~Framed(r) /\ ~Waiting(r)
      BY <1>2, <2>1, <2>2 DEF One
    <3> QED BY <1>2, <1>4, <1>5, <2>1, <2>2, <3>1 DEF One
  <2>3. CASE r # CurReq
    BY <1>2, <1>4, <1>5, <2>1, <2>3 DEF One
  <2> QED BY <2>2, <2>3
<1>7. \A r \in Req \ DOMAIN req : outcome'[r] = "open"
  BY <1>1, <1>5 DEF PInv
<1> QED BY <1>2, <1>3, <1>6, <1>7, PlaceStep

\* The event thread takes the first message.
LEMMA ReceivePInv ==
  ASSUME TInv, PInv, Receive
  PROVE  PInv'
<1>1. /\ queue # <<>> /\ queue' = Tail(queue) /\ pc = "recv" /\ pc' # "recv"
      /\ cur' = Head(queue) /\ idx' = 1
      /\ UNCHANGED <<req, blobs, cache, hpc, hent, outcome>>
  BY DEF Receive, handlerVars
<1>2. /\ QueueSole' /\ Distinct(Head(queue).toks)
      /\ \A r \in Req : Queued(r)' <=> Queued(r) /\ ~Has(Head(queue).toks, r)
      /\ \A r : Has(Head(queue).toks, r) => Queued(r)
  BY <1>1, QueueTail DEF PInv
<1>3. BlobsSole' /\ CacheSole'
  BY <1>1, BlobsSame, CacheSame DEF PInv
<1>4. \A r : (Framed(r)' <=> Framed(r)) /\ (Waiting(r)' <=> Waiting(r))
  BY <1>1, BlobsSame, CacheSame
<1>5. \A r : ~Held(r)
  BY <1>1 DEF Held
<1>6. \A r : Held(r)' <=> Has(Head(queue).toks, r)
  <2>1. Head(queue) \in Message
    BY <1>1, HeadTail DEF TInv, TypeOK, TypeQueue
  <2>2. Head(queue).toks \in Seq(Token)
    BY <2>1 DEF Message
  <2>3. DOMAIN Head(queue).toks = 1..Len(Head(queue).toks)
    BY <2>2
  <2> QED BY <1>1, <2>3 DEF Held, Has
<1>7. CurSole'
  BY <1>1, <1>2 DEF CurSole, Distinct
<1>8. ASSUME NEW r \in DOMAIN req PROVE One(r)'
  <2>1. One(r) /\ r \in Req
    BY AskedInReq DEF PInv
  <2> QED BY <1>1, <1>2, <1>4, <1>5, <1>6, <2>1 DEF One
<1> QED BY <1>1, <1>2, <1>3, <1>7, <1>8, PlaceStep DEF PInv

\* The requests of a list are the ones Ask() adds, each once.
LEMMA AskedOnce ==
  ASSUME TInv, NEW list \in Lists, NEW append \in BOOLEAN, Ask(list, append)
  PROVE  /\ AskedTokens(list) \in Seq(Token) /\ Distinct(AskedTokens(list))
         /\ DOMAIN req \subseteq DOMAIN req'
         /\ \A r : Has(AskedTokens(list), r) <=> r \in DOMAIN req' \ DOMAIN req
<1> DEFINE toks == AskedTokens(list)
           n == Len(list)
           q == Len(req)
<1>1. /\ toks \in Seq(Token) /\ DOMAIN toks = 1..n
      /\ \A k \in 1..n : toks[k].req = q + k
  BY AskedTokensProperties DEF TInv, TypeOK, TypeRequests, Ask
<1>2. n \in Nat /\ q \in Nat /\ DOMAIN req = 1..q /\ req \in Seq(Request)
  BY ListProperties DEF TInv, TypeOK, TypeRequests
<1>3. DOMAIN req' = 1..(q + n)
  <2>1. req' \in Seq(Request) /\ Len(req') = q + n
    BY <1>2, AskProperties
  <2> QED BY <2>1
<1> HIDE DEF toks, n, q
<1>4. Distinct(toks)
  BY <1>1, <1>2 DEF Distinct
<1>5. ASSUME NEW r, r \in 1..(q + n), r \notin 1..q PROVE Has(toks, r)
  <2>1. r - q \in 1..n /\ q + (r - q) = r
    BY <1>2, <1>5
  <2>2. PICK k \in 1..n : q + k = r
    BY <2>1
  <2> QED BY <1>1, <2>2 DEF Has
<1>6. ASSUME NEW r, Has(toks, r) PROVE r \in 1..(q + n) /\ r \notin 1..q
  <2>1. PICK k \in 1..n : r = q + k
    BY <1>1, <1>6 DEF Has
  <2> QED BY <1>2, <2>1
<1>7. 1..q \subseteq 1..(q + n)
  BY <1>2
<1> QED BY <1>1, <1>2, <1>3, <1>4, <1>5, <1>6, <1>7 DEF toks

LEMMA IssueEventPInv ==
  ASSUME TInv, PInv, TInv', NEW list \in Lists, NEW append \in BOOLEAN,
         IssueEvent(list, append) \/ WebCfgEvent(list, append)
  PROVE  PInv'
<1> DEFINE toks == AskedTokens(list)
<1>1. Ask(list, append) /\ UNCHANGED <<blobs, pc, cur, idx, cache, hpc, hent, outcome>>
  BY DEF IssueEvent, WebCfgEvent, threadVars, handlerVars
<1>2. /\ toks \in Seq(Token) /\ Distinct(toks)
      /\ DOMAIN req \subseteq DOMAIN req'
      /\ \A r : Has(toks, r) <=> r \in DOMAIN req' \ DOMAIN req
  BY <1>1, AskedOnce
<1> HIDE DEF toks
<1>3. PICK m \in Message : RRDMsgDeliver(m) /\ m.toks = toks
  <2>1. CASE IssueEvent(list, append)
    <3> DEFINE m == IssueMessage(toks, append)
    <3>1. RRDMsgDeliver(m)
      BY <2>1 DEF IssueEvent, toks
    <3>2. m \in Message /\ m.toks = toks
      BY <1>2 DEF IssueMessage, Message, Kind
    <3> HIDE DEF m
    <3> QED BY <3>1, <3>2
  <2>2. CASE WebCfgEvent(list, append)
    <3> DEFINE m == [IssueMessage(toks, FALSE) EXCEPT !.kind = "webcfg"]
    <3>1. RRDMsgDeliver(m)
      BY <2>2 DEF WebCfgEvent, toks
    <3>2. m \in Message /\ m.toks = toks
      BY <1>2 DEF IssueMessage, Message, Kind
    <3> HIDE DEF m
    <3> QED BY <3>1, <3>2
  <2> QED BY <2>1, <2>2
<1> QED BY <1>1, <1>2, <1>3, AskPInv

LEMMA PowerEventPInv ==
  ASSUME TInv, PInv, TInv', PowerEvent
  PROVE  PInv'
<1> DEFINE t == [req |-> Len(req) + 1, sfx |-> FALSE]
           s == <<t>>
           m == [IssueMessage(s, FALSE) EXCEPT !.kind = "sleepInit"]
<1>1. /\ RRDMsgDeliver(m) /\ UNCHANGED <<blobs, pc, cur, idx, cache, hpc, hent, outcome>>
  BY DEF PowerEvent, threadVars, handlerVars
<1>2. /\ req \in Seq(Request) /\ Len(req) \in Nat /\ Len(req) + 1 \in Req
      /\ DOMAIN req = 1..Len(req) /\ DOMAIN req' = 1..(Len(req) + 1)
  BY ConstantsAssumption DEF TInv, TypeOK, TypeRequests, PowerEvent, Req
<1>3. t \in Token /\ t.req = Len(req) + 1
  BY <1>2 DEF Token
<1> HIDE DEF t
<1>4. s \in Seq(Token) /\ DOMAIN s = {1} /\ s[1] = t
  BY <1>3
<1> HIDE DEF s
<1>5. m \in Message /\ m.toks = s
  BY <1>4 DEF IssueMessage, Message, Kind
<1> HIDE DEF m
<1>6. Distinct(m.toks) /\ \A r : Has(m.toks, r) <=> r = Len(req) + 1
  BY <1>3, <1>4, <1>5 DEF Distinct, Has
<1>7. DOMAIN req \subseteq DOMAIN req' /\ DOMAIN req' \ DOMAIN req = {Len(req) + 1}
  BY <1>2
<1>8. \A r : Has(m.toks, r) <=> r \in DOMAIN req' \ DOMAIN req
  BY <1>6, <1>7
<1> QED BY <1>1, <1>5, <1>6, <1>7, <1>8, AskPInv

\* The framework's list becomes a message.
LEMMA PushBlobPInv ==
  ASSUME TInv, PInv, PushBlob
  PROVE  PInv'
<1> DEFINE b == Head(blobs)
           m == IssueMessage(b, req[b[1].req].append)
<1>1. /\ blobs # <<>> /\ blobs' = Tail(blobs) /\ RRDMsgDeliver(m)
      /\ UNCHANGED <<req, pc, cur, idx, cache, hpc, hent, outcome>>
  BY DEF PushBlob, threadVars, handlerVars
<1>2. /\ BlobsSole' /\ b \in Seq(Token) /\ Distinct(b)
      /\ \A r \in Req : Framed(r)' <=> Framed(r) /\ ~Has(b, r)
      /\ \A r : Has(b, r) => Framed(r)
  BY <1>1, BlobsTail DEF PInv
<1>3. req[b[1].req].append \in BOOLEAN
  <2>1. b = blobs[1] /\ 1 \in DOMAIN blobs /\ b # <<>> /\ Known(b)
    BY <1>1, HeadTail DEF TInv, TypeOK, TypeQueue, BlobsKnown
  <2>2. 1 \in DOMAIN b
    BY <1>2, <2>1, HeadTail
  <2>3. b[1].req \in DOMAIN req /\ req \in Seq(Request)
    BY <2>1, <2>2 DEF Known, TInv, TypeOK, TypeRequests
  <2>4. req[b[1].req] \in Request
    BY <2>3
  <2> QED BY <2>4 DEF Request
<1>4. m \in Message /\ m.toks = b
  BY <1>2, <1>3 DEF IssueMessage, Message, Kind
<1> HIDE DEF b, m
<1>5. \A r \in Req : Has(m.toks, r) => ~Queued(r)
  <2> SUFFICES ASSUME NEW r \in Req, Has(m.toks, r) PROVE ~Queued(r)
    OBVIOUS
  <2>1. Framed(r)
    BY <1>2, <1>4
  <2>2. r \in DOMAIN req
    BY <2>1, NowhereUnasked
  <2> QED BY <2>1, <2>2 DEF PInv, One
<1>6. QueueSole' /\ \A r : Queued(r)' <=> Queued(r) \/ Has(m.toks, r)
  BY <1>1, <1>2, <1>4, <1>5, QueueAppend DEF PInv
<1>7. CacheSole' /\ CurSole'
  BY <1>1, CacheSame, ThreadSame DEF PInv
<1>8. \A r : (Waiting(r)' <=> Waiting(r)) /\ (Held(r)' <=> Held(r))
  BY <1>1, CacheSame, ThreadSame
<1>9. ASSUME NEW r \in DOMAIN req PROVE One(r)'
  <2>1. One(r) /\ r \in Req
    BY AskedInReq DEF PInv
  <2> QED BY <1>1, <1>2, <1>4, <1>6, <1>8, <2>1 DEF One
<1> QED BY <1>1, <1>2, <1>6, <1>7, <1>9, PlaceStep DEF PInv

\* A document is handed to the framework or dropped, with all it asks for.
LEMMA DecodeWebCfgPInv ==
  ASSUME TInv, PInv, DecodeWebCfg
  PROVE  PInv'
<1>1. /\ pc = "decode" /\ pc' = "recv"
      /\ UNCHANGED <<req, queue, cache, hpc, hent>>
  BY DEF DecodeWebCfg, handlerVars
<1>2. cur.toks \in Seq(Token) /\ Distinct(cur.toks) /\ idx = 1
  BY <1>1 DEF TInv, TypeOK, TypeThread, Message, PInv, CurSole
<1>3. \A r : Held(r) <=> Has(cur.toks, r)
  <2>1. DOMAIN cur.toks = 1..Len(cur.toks)
    BY <1>2
  <2> QED BY <1>1, <1>2, <2>1 DEF Held, Has
<1>4. CurSole' /\ \A r : ~Held(r)'
  BY <1>1 DEF CurSole, Held
<1>5. QueueSole' /\ CacheSole'
  BY <1>1, QueueSame, CacheSame DEF PInv
<1>6. \A r : (Queued(r)' <=> Queued(r)) /\ (Waiting(r)' <=> Waiting(r))
  BY <1>1, QueueSame, CacheSame
<1>7. \A r : Has(cur.toks, r) => r \in DOMAIN req
  BY <1>3, NowhereUnasked
<1>8. \A r \in DOMAIN req : One(r) /\ r \in Req
  BY AskedInReq DEF PInv
<1>9. CASE blobs' = Append(blobs, cur.toks) /\ UNCHANGED outcome
  <2>1. \A r \in Req : Has(cur.toks, r) => ~Framed(r)
    BY <1>3, <1>7, <1>8 DEF One
  <2>2. BlobsSole' /\ \A r : Framed(r)' <=> Framed(r) \/ Has(cur.toks, r)
    BY <1>2, <1>9, <2>1, BlobsAppend DEF PInv
  <2>3. ASSUME NEW r \in DOMAIN req PROVE One(r)'
    <3>1. One(r)
      BY <1>8
    <3> QED BY <1>3, <1>4, <1>6, <1>9, <2>2, <3>1 DEF One
  <2> QED BY <1>1, <1>4, <1>5, <1>9, <2>2, <2>3, PlaceStep DEF PInv
<1>10. CASE /\ outcome' = [r \in Req |-> IF \E k \in DOMAIN cur.toks : cur.toks[k].req = r
                                        THEN "discarded" ELSE outcome[r]]
            /\ UNCHANGED blobs
  <2>1. BlobsSole' /\ \A r : Framed(r)' <=> Framed(r)
    BY <1>10, BlobsSame DEF PInv
  <2>2. \A r \in Req : outcome'[r] = IF Has(cur.toks, r) THEN "discarded" ELSE outcome[r]
    BY <1>10 DEF Has
  <2>3. ASSUME NEW r \in DOMAIN req PROVE One(r)'
    <3>1. One(r) /\ r \in Req
      BY <1>8
    <3>2. CASE Has(cur.toks, r)
      BY <1>3, <1>4, <1>6, <2>1, <2>2, <3>1, <3>2 DEF One
    <3>3. CASE ~Has(cur.toks, r)
      BY <1>3, <1>4, <1>6, <2>1, <2>2, <3>1, <3>3 DEF One
    <3> QED BY <3>2, <3>3
  <2>4. \A r \in Req \ DOMAIN req : outcome'[r] = "open"
    BY <1>7, <2>2 DEF PInv
  <2> QED BY <1>1, <1>4, <1>5, <2>1, <2>3, <2>4, PlaceStep
<1> QED BY <1>9, <1>10 DEF DecodeWebCfg

\* The event thread moves on inside the request at hand, or RDM does something:
\* nobody changes place.
LEMMA NobodyMoves ==
  ASSUME PInv, UNCHANGED <<req, queue, blobs, cur, idx, cache, outcome>>,
         pc' = "recv" <=> pc = "recv", pc' = "decode" => pc = "decode",
         \A e \in cache : Stands(e)' <=> Stands(e)
  PROVE  PInv'
<1>1. QueueSole' /\ BlobsSole' /\ \A r : (Queued(r)' <=> Queued(r)) /\ (Framed(r)' <=> Framed(r))
  BY QueueSame, BlobsSame DEF PInv
<1>2. CacheSole' /\ \A r : Waiting(r)' <=> Waiting(r)
  BY DEF PInv, CacheSole, Waiting
<1>3. CurSole' /\ \A r : Held(r)' <=> Held(r)
  BY DEF PInv, CurSole, Held, Distinct
<1>4. ASSUME NEW r \in DOMAIN req PROVE One(r)'
  BY <1>1, <1>2, <1>3 DEF PInv, One
<1> QED BY <1>1, <1>2, <1>3, <1>4, PlaceStep DEF PInv

\* The steps of the event thread that touch neither queue nor cache.
LEMMA ThreadStepPInv ==
  ASSUME TInv, PInv,
         ProcessIssueType \/ CheckIssueNodeInfo \/ RdmRefused \/ RdmAccepted \/ AppendItemFails
  PROVE  PInv'
<1>1. UNCHANGED <<req, queue, blobs, cache, hpc, hent>> /\ pc # "recv"
  BY DEF ProcessIssueType, CheckIssueNodeInfo, RdmRefused, RdmAccepted, AppendItemFails, handlerVars
<1>2. CASE \E o : o # "open" /\ NextToken /\ Settle(o)
  BY <1>1, <1>2, SettlePInv
<1>3. CASE pc' \in {"report", "set", "dead", "append"} /\ UNCHANGED <<cur, idx, outcome>>
  <2>1. \A e \in cache : Stands(e)' <=> Stands(e)
    BY <1>1 DEF Stands
  <2> QED BY <1>1, <1>3, <2>1, NobodyMoves
<1>4. CASE ProcessIssueType
  <2>1. \/ NextToken /\ Settle("discarded")
        \/ pc' \in {"report", "set", "dead", "append"} /\ UNCHANGED <<cur, idx, outcome>>
    BY <1>4 DEF ProcessIssueType
  <2> QED BY <1>2, <1>3, <2>1
<1>5. CASE CheckIssueNodeInfo
  BY <1>2, <1>5 DEF CheckIssueNodeInfo
<1>6. CASE RdmRefused \/ AppendItemFails
  BY <1>2, <1>6 DEF RdmRefused, AppendItemFails
<1>7. CASE RdmAccepted
  BY <1>3, <1>7 DEF RdmAccepted
<1> QED BY <1>4, <1>5, <1>6, <1>7

\* The request at hand goes into a new cache entry.  A leftover the RDM
\* handler still holds is older, so the new entry is not taken for it.
LEMMA AppendItemPInv ==
  ASSUME TInv, PInv, AppendItem
  PROVE  PInv'
<1>1. /\ pc # "recv" /\ NextToken
      /\ UNCHANGED <<req, queue, blobs, hpc, hent, outcome>>
  BY DEF AppendItem, handlerVars
<1>2. PICK e : e.stamp = stamp /\ e.req = CurReq /\ cache' = cache \union {e}
  BY DEF AppendItem, Push
<1>3. CurReq \in DOMAIN req /\ CurReq \in Req
  BY <1>1, CurReqProperties DEF TInv, TypeOK
<1>4. CurSole' /\ Held(CurReq) /\ \A r : Held(r)' <=> Held(r) /\ r # CurReq
  BY <1>1, Advance DEF PInv
<1>5. \A f \in cache : f # e
  BY <1>2 DEF TInv, TypeOK, TypeCache, CacheKnown, Entry
<1>6. Stands(e)'
  BY <1>1, <1>5 DEF Stands, TInv, HeldEntryLive
<1>7. \A f : Stands(f)' <=> Stands(f)
  BY <1>1 DEF Stands
<1>8. ~Waiting(CurReq) /\ ~Queued(CurReq) /\ ~Framed(CurReq) /\ outcome[CurReq] = "open"
  BY <1>3, <1>4 DEF PInv, One
<1>9. \A r : Waiting(r)' <=> Waiting(r) \/ r = CurReq
  BY <1>2, <1>6, <1>7 DEF Waiting
<1>10. CacheSole'
  <2> SUFFICES ASSUME NEW f \in cache', NEW g \in cache', f.req = g.req, Stands(f)', Stands(g)'
               PROVE  f = g
    BY DEF CacheSole
  <2>1. CASE f \in cache /\ g \in cache
    BY <1>7, <2>1 DEF PInv, CacheSole
  <2>2. CASE f \in cache /\ g = e
    BY <1>2, <1>7, <1>8, <2>2 DEF Waiting
  <2>3. CASE f = e /\ g \in cache
    BY <1>2, <1>7, <1>8, <2>3 DEF Waiting
  <2> QED BY <1>2, <2>1, <2>2, <2>3
<1>11. QueueSole' /\ BlobsSole' /\ \A r : (Queued(r)' <=> Queued(r)) /\ (Framed(r)' <=> Framed(r))
  BY <1>1, QueueSame, BlobsSame DEF PInv
<1>12. ASSUME NEW r \in DOMAIN req PROVE One(r)'
  <2>1. One(r)
    BY DEF PInv
  <2>2. CASE r = CurReq
    BY <1>1, <1>4, <1>8, <1>9, <1>11, <2>2 DEF One
  <2>3. CASE r # CurReq
    BY <1>1, <1>4, <1>9, <1>11, <2>1, <2>3 DEF One
  <2> QED BY <2>2, <2>3
<1> QED BY <1>1, <1>4, <1>10, <1>11, <1>12, PlaceStep DEF PInv

\* The message takes the request over from the cache entry.
LEMMA RdmEventDeliverPInv ==
  ASSUME TInv, PInv, RdmEventDeliver
  PROVE  PInv'
<1> DEFINE m == CompletionMessage(hent)
<1>1. /\ hpc = "deliver" /\ hpc' = "remove" /\ RRDMsgDeliver(m)
      /\ UNCHANGED <<req, blobs, pc, cur, idx, cache, hent, outcome>>
  BY DEF RdmEventDeliver, threadVars
<1>2. hent \in cache /\ hent \in Entry /\ hent.req \in DOMAIN req
  BY <1>1 DEF TInv, TypeOK, TypeCache, HeldEntryLive, CacheKnown
<1>3. m \in Message /\ m.toks = <<[req |-> hent.req, sfx |-> FALSE]>>
  BY <1>2, CompletionProperties DEF CompletionMessage
<1> HIDE DEF m
<1>4. Distinct(m.toks) /\ \A r : Has(m.toks, r) <=> r = hent.req
  BY <1>3 DEF Distinct, Has
<1>5. Waiting(hent.req)
  BY <1>1, <1>2 DEF Waiting, Stands
<1>6. ~Queued(hent.req) /\ ~Framed(hent.req) /\ ~Held(hent.req) /\ outcome[hent.req] = "open"
  BY <1>2, <1>5 DEF PInv, One
<1>7. QueueSole' /\ \A r : Queued(r)' <=> Queued(r) \/ r = hent.req
  BY <1>1, <1>3, <1>4, <1>6, QueueAppend DEF PInv
<1>8. \A f \in cache : Stands(f) /\ (Stands(f)' <=> f # hent)
  BY <1>1 DEF Stands
<1>9. CacheSole'
  BY <1>1, <1>8 DEF PInv, CacheSole
<1>10. \A r : Waiting(r)' <=> Waiting(r) /\ r # hent.req
  <2>1. \A f \in cache : f.req = hent.req => f = hent
    BY <1>2, <1>8 DEF PInv, CacheSole
  <2> QED BY <1>1, <1>2, <1>8, <2>1 DEF Waiting
<1>11. BlobsSole' /\ CurSole' /\ \A r : (Framed(r)' <=> Framed(r)) /\ (Held(r)' <=> Held(r))
  BY <1>1, BlobsSame, ThreadSame DEF PInv
<1>12. ASSUME NEW r \in DOMAIN req PROVE One(r)'
  <2>1. One(r)
    BY DEF PInv
  <2>2. CASE r = hent.req
    BY <1>1, <1>6, <1>7, <1>10, <1>11, <2>2 DEF One
  <2>3. CASE r # hent.req
    BY <1>1, <1>7, <1>10, <1>11, <2>1, <2>3 DEF One
  <2> QED BY <2>2, <2>3
<1> QED BY <1>1, <1>7, <1>9, <1>11, <1>12, PlaceStep DEF PInv

\* The leftover goes, or the entry of a failed download with its request.
LEMMA RdmEventRemovePInv ==
  ASSUME TInv, PInv, RdmEventRemove
  PROVE  PInv'
<1>1. /\ hpc \in {"remove", "fail"} /\ hpc' = "idle" /\ cache' = cache \ {hent}
      /\ UNCHANGED <<req, queue, blobs, pc, cur, idx>>
  BY DEF RdmEventRemove, Drop, threadVars
<1>2. /\ hent \in cache /\ hent.req \in DOMAIN req /\ hent.req \in Req
      /\ outcome \in [Req -> Outcome]
  BY <1>1, AskedInReq DEF TInv, TypeOK, TypeRequests, HeldEntryLive, CacheKnown
<1>3. \A f : Stands(f)'
  BY <1>1 DEF Stands
<1>4. /\ QueueSole' /\ BlobsSole' /\ CurSole'
      /\ \A r : /\ Queued(r)' <=> Queued(r)
                /\ Framed(r)' <=> Framed(r)
                /\ Held(r)' <=> Held(r)
  BY <1>1, QueueSame, BlobsSame, ThreadSame DEF PInv
<1>5. \A f \in cache' : f \in cache /\ Stands(f)
  BY <1>1 DEF Stands
<1>6. CacheSole'
  BY <1>5 DEF PInv, CacheSole
<1>7. CASE hpc = "remove"
  <2>1. outcome' = outcome
    BY <1>7 DEF RdmEventRemove
  <2>2. \A r : Waiting(r)' <=> Waiting(r)
    BY <1>1, <1>3, <1>7 DEF Waiting, Stands
  <2>3. ASSUME NEW r \in DOMAIN req PROVE One(r)'
    BY <1>4, <2>1, <2>2 DEF PInv, One
  <2> QED BY <1>1, <1>4, <1>6, <2>1, <2>3, PlaceStep DEF PInv
<1>8. CASE hpc = "fail"
  <2>1. \A f \in cache : Stands(f)
    BY <1>8 DEF Stands
  <2>2. \A f \in cache : f.req = hent.req => f = hent
    BY <1>2, <2>1 DEF PInv, CacheSole
  <2>3. \A r : Waiting(r)' <=> Waiting(r) /\ r # hent.req
    BY <1>1, <1>3, <2>1, <2>2 DEF Waiting
  <2>4. Waiting(hent.req)
    BY <1>2, <2>1 DEF Waiting
  <2>5. \A r \in Req : outcome'[r] = IF r = hent.req THEN "failed" ELSE outcome[r]
    BY <1>2, <1>8 DEF RdmEventRemove
  <2>6. ASSUME NEW r \in DOMAIN req PROVE One(r)'
    <3>1. One(r) /\ r \in Req
      BY AskedInReq DEF PInv
    <3>2. CASE r = hent.req
      <4>1. ~Queued(r) /\ ~Framed(r) /\ ~Held(r)
        BY <2>4, <3>1, <3>2 DEF One
      <4> QED BY <1>4, <2>3, <2>5, <3>1, <3>2, <4>1 DEF One
    <3>3. CASE r # hent.req
      BY <1>4, <2>3, <2>5, <3>1, <3>3 DEF One
    <3> QED BY <3>2, <3>3
  <2>7. \A r \in Req \ DOMAIN req : outcome'[r] = "open"
    BY <1>2, <2>5 DEF PInv
  <2> QED BY <1>1, <1>4, <1>6, <2>6, <2>7, PlaceStep
<1> QED BY <1>1, <1>7, <1>8

\* RDM's own steps, the search in the cache, a message without memory.
LEMMA ElsewherePInv ==
  ASSUME TInv, PInv,
         \/ RdmEventFind \/ RdmEventNoMemory \/ Rdm
         \/ \E p \in Pkg : RdmProgress(p)
         \/ UNCHANGED vars
  PROVE  PInv'
<1>1. UNCHANGED <<req, queue, blobs, pc, cur, idx, cache, outcome>>
  BY DEF RdmEventFind, RdmEventNoMemory, Rdm, RdmFinish, RdmProgress, vars, threadVars
<1>2. \A e \in cache : Stands(e)' <=> Stands(e)
  <2>1. \/ UNCHANGED <<hpc, hent>>
        \/ hpc # "remove" /\ hpc' # "remove"
    BY DEF RdmEventFind, RdmEventNoMemory, Rdm, RdmFinish, RdmProgress, vars, handlerVars
  <2> QED BY <2>1 DEF Stands
<1> QED BY <1>1, <1>2, NobodyMoves

LEMMA NextPInv == TInv /\ PInv /\ TInv' /\ [Next]_vars => PInv'
<1> SUFFICES ASSUME TInv, PInv, TInv', [Next]_vars PROVE PInv'
  OBVIOUS
<1>1. CASE \E list \in Lists, append \in BOOLEAN :
             IssueEvent(list, append) \/ WebCfgEvent(list, append)
  BY <1>1, IssueEventPInv
<1>2. CASE PowerEvent \/ PushBlob
  BY <1>2, PowerEventPInv, PushBlobPInv
<1>3. CASE EventThread
  BY <1>3, ReceivePInv, DecodeWebCfgPInv, ThreadStepPInv, AppendItemPInv DEF EventThread
<1>4. CASE RdmHandler
  BY <1>4, ElsewherePInv, RdmEventDeliverPInv, RdmEventRemovePInv DEF RdmHandler
<1>5. CASE Rdm \/ (\E p \in Pkg : RdmProgress(p)) \/ UNCHANGED vars
  BY <1>5, ElsewherePInv
<1> QED BY <1>1, <1>2, <1>3, <1>4, <1>5 DEF Next

LEMMA InitPInv == Init => PInv
<1> SUFFICES ASSUME Init PROVE PInv
  OBVIOUS
<1>1. /\ DOMAIN req = {} /\ DOMAIN queue = {} /\ DOMAIN blobs = {} /\ cache = {} /\ pc = "recv"
      /\ outcome = [r \in Req |-> "open"]
  BY DEF Init
<1> QED BY <1>1 DEF PInv, QueueSole, BlobsSole, CacheSole, CurSole

LEMMA PInvAlways == Spec => []PInv
  BY InitPInv, NextPInv, TInvAlways, PTL DEF Spec
-----------------------------------------------------------------------------
(***************************************************************************)
(* The two properties.                                                     *)
(***************************************************************************)

\* Being alone, said with Places().
LEMMA OnePlace ==
  ASSUME TInv, PInv, NEW r \in DOMAIN req
  PROVE  IF outcome[r] = "open" THEN \E x \in Places(r) : Places(r) = {x} ELSE Places(r) = {}
<1> DEFINE Q == {<<"queue", k>> : k \in {j \in DOMAIN queue : Carries(queue[j], r)}}
           B == {<<"blob", k>> : k \in {j \in DOMAIN blobs : \E i \in DOMAIN blobs[j] :
                                                              blobs[j][i].req = r}}
           C == {<<"cache", e.stamp>> : e \in Standing(r)}
           T == IF Held(r) THEN {<<"thread", 0>>} ELSE {}
<1>1. Places(r) = Q \union B \union C \union T
  BY DEF Places
<1>2. One(r) /\ r \in Req
  BY AskedInReq DEF PInv
<1>3. /\ ~Queued(r) => Q = {}
      /\ Queued(r) => \E x : Q = {x}
  <2>1. \A j \in DOMAIN queue : Carries(queue[j], r) <=> Has(queue[j].toks, r)
    BY DEF Carries, Has
  <2>2. ~Queued(r) => Q = {}
    BY <2>1 DEF Queued
  <2>3. ASSUME Queued(r) PROVE \E x : Q = {x}
    <3>1. PICK k \in DOMAIN queue : Has(queue[k].toks, r)
      BY <2>3 DEF Queued
    <3>2. {j \in DOMAIN queue : Carries(queue[j], r)} = {k}
      BY <1>2, <2>1, <3>1 DEF PInv, QueueSole
    <3>3. Q = {<<"queue", k>>}
      BY <3>2
    <3> QED BY <3>3
  <2> QED BY <2>2, <2>3
<1>4. /\ ~Framed(r) => B = {}
      /\ Framed(r) => \E x : B = {x}
  <2>1. \A j \in DOMAIN blobs : (\E i \in DOMAIN blobs[j] : blobs[j][i].req = r) <=> Has(blobs[j], r)
    BY DEF Has
  <2>2. ~Framed(r) => B = {}
    BY <2>1 DEF Framed
  <2>3. ASSUME Framed(r) PROVE \E x : B = {x}
    <3>1. PICK k \in DOMAIN blobs : Has(blobs[k], r)
      BY <2>3 DEF Framed
    <3>2. {j \in DOMAIN blobs : \E i \in DOMAIN blobs[j] : blobs[j][i].req = r} = {k}
      BY <1>2, <2>1, <3>1 DEF PInv, BlobsSole
    <3>3. B = {<<"blob", k>>}
      BY <3>2
    <3> QED BY <3>3
  <2> QED BY <2>2, <2>3
<1>5. /\ ~Waiting(r) => C = {}
      /\ Waiting(r) => \E x : C = {x}
  <2>1. ~Waiting(r) => C = {}
    BY DEF Waiting, Standing, Stands
  <2>2. ASSUME Waiting(r) PROVE \E x : C = {x}
    <3>1. PICK e \in cache : e.req = r /\ Stands(e)
      BY <2>2 DEF Waiting
    <3>2. Standing(r) = {e}
      BY <3>1 DEF Standing, PInv, CacheSole, Stands
    <3>3. C = {<<"cache", e.stamp>>}
      BY <3>2
    <3> QED BY <3>3
  <2> QED BY <2>1, <2>2
<1>6. /\ ~Held(r) => T = {}
      /\ Held(r) => \E x : T = {x}
  OBVIOUS
<1> HIDE DEF Q, B, C, T
<1>7. CASE outcome[r] = "open"
  <2>1. \E x : Places(r) = {x}
    BY <1>1, <1>2, <1>3, <1>4, <1>5, <1>6, <1>7 DEF One
  <2> QED BY <1>7, <2>1
<1>8. CASE outcome[r] # "open"
  BY <1>1, <1>2, <1>3, <1>4, <1>5, <1>6, <1>8 DEF One
<1> QED BY <1>7, <1>8

\* However the bus callbacks, the event thread and the RDM callback
\* interleave, a request that is not settled is in one queued message, one
\* list of the framework, the event thread's list or one cache entry, never
\* in two and never in none; a settled one has left them all.
THEOREM NeitherLostNorDoubled == Spec => []ExactlyOnePlace
<1>1. TInv /\ PInv => ExactlyOnePlace
  BY OnePlace DEF ExactlyOnePlace
<1> QED BY <1>1, TInvAlways, PInvAlways, PTL

-----------------------------------------------------------------------------
\* A request that has a report has one, and is settled by it.
RInv == \A r \in Req : report[r] = <<>> \/ (Len(report[r]) = 1 /\ outcome[r] = "reported")

\* Whoever is held or waits for a package is not settled yet.
LEMMA PlacedIsOpen ==
  ASSUME TInv, PInv, NEW r, Held(r) \/ Waiting(r)
  PROVE  r \in DOMAIN req /\ outcome[r] = "open"
<1>1. r \in DOMAIN req
  BY NowhereUnasked
<1> QED BY <1>1 DEF PInv, One

LEMMA NextRInv == TInv /\ PInv /\ RInv /\ [Next]_vars => RInv'
<1> SUFFICES ASSUME TInv, PInv, RInv, [Next]_vars PROVE RInv'
  OBVIOUS
<1>1. report \in [Req -> Seq(Report)] /\ outcome \in [Req -> Outcome]
  BY DEF TInv, TypeOK, TypeRequests
<1>2. CASE UNCHANGED <<outcome, report>>
  BY <1>2 DEF RInv
<1>3. ASSUME NEW c \in Req, outcome[c] = "open",
             \A r \in Req : r # c => report'[r] = report[r] /\ outcome'[r] = outcome[r],
             \/ report'[c] = report[c]
             \/ Len(report'[c]) = Len(report[c]) + 1 /\ outcome'[c] = "reported"
      PROVE  RInv'
  <2>1. report[c] = <<>>
    BY <1>3 DEF RInv
  <2>2. Len(report[c]) = 0
    BY <2>1
  <2> QED BY <1>3, <2>1, <2>2 DEF RInv
<1>4. CASE CheckIssueNodeInfo
  <2>1. CurReq \in Req /\ outcome[CurReq] = "open"
    <3>1. pc # "recv" /\ NextToken
      BY <1>4 DEF CheckIssueNodeInfo
    <3>2. CurReq \in Req /\ Held(CurReq)
      BY <3>1, Advance, CurReqProperties DEF TInv, TypeOK, PInv
    <3> QED BY <3>2, PlacedIsOpen
  <2> DEFINE x == [src |-> CurVerdict.src, sfx |-> cur.toks[idx].sfx, ran |-> CurVerdict.ran]
  <2>2. \/ /\ report' = [report EXCEPT ![CurReq] = Append(@, x)]
           /\ outcome' = [outcome EXCEPT ![CurReq] = "reported"]
        \/ /\ report' = report
           /\ outcome' = [outcome EXCEPT ![CurReq] = "failed"]
    BY <1>4 DEF CheckIssueNodeInfo, Settle
  <2> HIDE DEF x
  <2>3. Len(Append(report[CurReq], x)) = Len(report[CurReq]) + 1
    BY <1>1, <2>1
  <2>4. \A r \in Req : r # CurReq => report'[r] = report[r] /\ outcome'[r] = outcome[r]
    BY <1>1, <2>1, <2>2
  <2>5. \/ report'[CurReq] = report[CurReq]
        \/ Len(report'[CurReq]) = Len(report[CurReq]) + 1 /\ outcome'[CurReq] = "reported"
    BY <1>1, <2>1, <2>2, <2>3
  <2> QED BY <1>3, <2>1, <2>4, <2>5
<1>5. CASE ProcessIssueType \/ RdmRefused \/ AppendItemFails
  <2>1. report' = report /\ pc # "recv"
    BY <1>5 DEF ProcessIssueType, RdmRefused, AppendItemFails
  <2>2. \/ outcome' = outcome
        \/ NextToken /\ \E o : Settle(o)
    BY <1>5 DEF ProcessIssueType, RdmRefused, AppendItemFails
  <2>3. CASE NextToken /\ \E o : Settle(o)
    <3>1. CurReq \in Req /\ Held(CurReq)
      BY <2>1, <2>3, Advance, CurReqProperties DEF TInv, TypeOK, PInv
    <3>2. outcome[CurReq] = "open"
      BY <3>1, PlacedIsOpen
    <3>3. \A r \in Req : r # CurReq => outcome'[r] = outcome[r]
      BY <1>1, <2>3 DEF Settle
    <3> QED BY <1>3, <2>1, <3>1, <3>2, <3>3
  <2> QED BY <1>2, <2>1, <2>2, <2>3
<1>6. CASE DecodeWebCfg
  <2>1. pc = "decode" /\ report' = report
    BY <1>6 DEF DecodeWebCfg
  <2>2. ASSUME NEW r \in Req, outcome'[r] # outcome[r] PROVE Held(r)
    <3>1. \E k \in DOMAIN cur.toks : cur.toks[k].req = r
      BY <1>6, <2>2 DEF DecodeWebCfg
    <3>2. idx = 1 /\ cur.toks \in Seq(Token)
      BY <2>1 DEF PInv, CurSole, TInv, TypeOK, TypeThread, Message
    <3>3. DOMAIN cur.toks = 1..Len(cur.toks)
      BY <3>2
    <3> QED BY <2>1, <3>1, <3>2, <3>3 DEF Held
  <2>3. \A r \in Req : outcome'[r] # outcome[r] => outcome[r] = "open"
    BY <2>2, PlacedIsOpen
  <2> QED BY <2>1, <2>3 DEF RInv
<1>7. CASE RdmEventRemove
  <2>1. report' = report
    BY <1>7 DEF RdmEventRemove
  <2>2. CASE hpc = "fail"
    <3>1. hent \in cache /\ hent.req \in DOMAIN req /\ Stands(hent)
      BY <2>2 DEF TInv, HeldEntryLive, CacheKnown, Stands
    <3>2. hent.req \in Req /\ outcome[hent.req] = "open"
      BY <3>1, AskedInReq, PlacedIsOpen DEF Waiting
    <3>3. \A r \in Req : r # hent.req => outcome'[r] = outcome[r]
      BY <1>1, <1>7, <2>2, <3>2 DEF RdmEventRemove
    <3> QED BY <1>3, <2>1, <3>2, <3>3
  <2>3. CASE hpc # "fail"
    BY <1>2, <1>7, <2>1, <2>3 DEF RdmEventRemove
  <2> QED BY <2>2, <2>3
<1>8. CASE Receive \/ RdmAccepted \/ AppendItem
  BY <1>2, <1>8 DEF Receive, RdmAccepted, AppendItem
<1>9. CASE RdmEventFind \/ RdmEventDeliver \/ RdmEventNoMemory
  BY <1>2, <1>9 DEF RdmEventFind, RdmEventDeliver, RdmEventNoMemory
<1>10. CASE \E list \in Lists, append \in BOOLEAN :
              IssueEvent(list, append) \/ WebCfgEvent(list, append)
  BY <1>2, <1>10 DEF IssueEvent, WebCfgEvent
<1>11. CASE PowerEvent \/ PushBlob \/ Rdm \/ (\E p \in Pkg : RdmProgress(p)) \/ UNCHANGED vars
  BY <1>2, <1>11 DEF PowerEvent, PushBlob, Rdm, RdmFinish, RdmProgress, vars
<1> QED BY <1>4, <1>5, <1>6, <1>7, <1>8, <1>9, <1>10, <1>11 DEF Next, EventThread, RdmHandler

\* checkIssueNodeInfo() runs at most once for a request, and a request whose
\* report was made never gets another outcome: the answer to a download
\* request does not bring a settled request back.
THEOREM AtMostOneReport == Spec => []ReportedAtMostOnce
<1>1. Init => RInv
  BY DEF Init, RInv
<1>2. RInv => ReportedAtMostOnce
  <2> SUFFICES ASSUME RInv, NEW r \in Req
               PROVE  Len(report[r]) <= 1 /\ (report[r] # <<>> => outcome[r] = "reported")
    BY DEF ReportedAtMostOnce
  <2>1. CASE report[r] = <<>>
    BY <2>1
  <2>2. CASE Len(report[r]) = 1 /\ outcome[r] = "reported"
    BY <2>2
  <2> QED BY <2>1, <2>2 DEF RInv
<1> QED BY <1>1, <1>2, TInvAlways, PInvAlways, NextRInv, PTL DEF Spec
=============================================================================
