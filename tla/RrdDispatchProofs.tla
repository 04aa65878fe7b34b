------------------------- MODULE RrdDispatchProofs --------------------------
(***************************************************************************)
(* Theorems about RrdDispatch, for every profile, package, request list,   *)
(* queue capacity and bound.                                               *)
(***************************************************************************)
EXTENDS RrdDispatch, RrdInduction, SequenceTheorems

\* What findPresentInCache() returns when it returns something: an entry of
\* the cache, for the package asked about, that no later one shadows.
LEMMA NewestProperties ==
  ASSUME NEW c, NEW p, NEW n \in Nat,
         \A e \in c : e.stamp \in 0..n,
         Matching(c, p) # {}
  PROVE  /\ Newest(c, p) \in c
         /\ Newest(c, p).pkg = p
         /\ \A f \in Matching(c, p) : f.stamp <= Newest(c, p).stamp
<1> DEFINE T == {e.stamp : e \in Matching(c, p)}
<1>1. T \in SUBSET (0..n) /\ T # {}
  BY DEF Matching
<1>2. PICK x \in T : \A y \in T : y <= x
  <2> HIDE DEF T
  <2> QED BY <1>1, LargestBelow
<1>3. PICK e \in Matching(c, p) : e.stamp = x
  BY <1>2
<1>4. \A f \in Matching(c, p) : f.stamp <= e.stamp
  BY <1>2, <1>3
<1>5. /\ Newest(c, p) \in Matching(c, p)
      /\ \A f \in Matching(c, p) : f.stamp <= Newest(c, p).stamp
  BY <1>3, <1>4 DEF Newest
<1> QED BY <1>5 DEF Matching

-----------------------------------------------------------------------------
(***************************************************************************)
(* What the invariants need beyond types: every token names a request that *)
(* was made, the event thread's position lies in its list, and the stamps  *)
(* in the cache are below the counter.                                     *)
(***************************************************************************)
Known(toks) == \A k \in DOMAIN toks : toks[k].req \in DOMAIN req

QueueKnown == \A k \in DOMAIN queue : queue[k].toks # <<>> /\ Known(queue[k].toks)
BlobsKnown == \A k \in DOMAIN blobs : blobs[k] # <<>> /\ Known(blobs[k])
CurKnown   == /\ Known(cur.toks)
              /\ pc # "recv" => idx \in DOMAIN cur.toks
CacheKnown == \A e \in cache : e.req \in DOMAIN req /\ e.stamp < stamp

TInv == TypeOK /\ QueueKnown /\ BlobsKnown /\ CurKnown /\ CacheKnown /\ HeldEntryLive
-----------------------------------------------------------------------------
\* A list of issues is a nonempty sequence.
LEMMA ListProperties ==
  ASSUME NEW list \in Lists
  PROVE  list \in Seq(Issue) /\ Len(list) \in Nat \ {0} /\ DOMAIN list = 1..Len(list)
<1>1. PICK n \in 1..MaxList : list \in [1..n -> Issues]
  BY DEF Lists
<1>2. list \in [1..n -> Issue] /\ n \in Nat \ {0}
  BY <1>1, ConstantsAssumption
<1> QED BY <1>2

\* The tokens of a list that fits are tokens of requests not yet made.
LEMMA AskedTokensProperties ==
  ASSUME req \in Seq(Request), NEW list \in Lists, Len(req) + Len(list) <= MaxReq
  PROVE  /\ AskedTokens(list) \in Seq(Token)
         /\ AskedTokens(list) # <<>>
         /\ DOMAIN AskedTokens(list) = 1..Len(list)
         /\ \A k \in 1..Len(list) : AskedTokens(list)[k].req = Len(req) + k
<1>1. /\ list \in Seq(Issue) /\ Len(list) \in Nat \ {0} /\ DOMAIN list = 1..Len(list)
      /\ Len(req) \in Nat
  BY ListProperties
<1>2. \A k \in 1..Len(list) : list[k] \in Issue /\ Len(req) + k \in Req
  BY <1>1, ConstantsAssumption DEF Req
<1>3. \A k \in 1..Len(list) : [req |-> Len(req) + k, sfx |-> list[k].sfx] \in Token
  BY <1>2 DEF Token, Issue
<1>4. AskedTokens(list) = [k \in 1..Len(list) |-> [req |-> Len(req) + k, sfx |-> list[k].sfx]]
  BY <1>1 DEF AskedTokens
<1>5. AskedTokens(list) \in [1..Len(list) -> Token]
  BY <1>3, <1>4
<1>6. AskedTokens(list) \in Seq(Token) /\ Len(AskedTokens(list)) = Len(list)
  BY <1>1, <1>5
<1>7. AskedTokens(list) # <<>>
  BY <1>1, <1>6
<1> QED BY <1>4, <1>6, <1>7

\* Ask() extends the record of requests and changes none of it.
LEMMA AskProperties ==
  ASSUME req \in Seq(Request), NEW list \in Lists, NEW append \in BOOLEAN, Ask(list, append)
  PROVE  /\ req' \in Seq(Request)
         /\ Len(req') = Len(req) + Len(list) /\ Len(req') <= MaxReq
         /\ DOMAIN req \subseteq DOMAIN req'
         /\ \A i \in DOMAIN req : req'[i] = req[i]
         /\ \A k \in 1..Len(list) :
              /\ Len(req) + k \in DOMAIN req'
              /\ req'[Len(req) + k].append = append
              /\ req'[Len(req) + k].node = list[k].node
<1> DEFINE new == [k \in DOMAIN list |->
                      [node |-> list[k].node, sub |-> list[k].sub,
                       sfx |-> list[k].sfx, append |-> append]]
<1>1. /\ list \in Seq(Issue) /\ Len(list) \in Nat \ {0} /\ DOMAIN list = 1..Len(list)
      /\ Len(req) \in Nat
  BY ListProperties
<1>2. \A k \in 1..Len(list) : list[k] \in Issue
  BY <1>1
<1>3. \A k \in 1..Len(list) : new[k] \in Request
  BY <1>1, <1>2 DEF Issue, Request
<1>4. new \in [1..Len(list) -> Request]
  BY <1>1, <1>3
<1>5. new \in Seq(Request) /\ Len(new) = Len(list)
  <2> HIDE DEF new
  <2> QED BY <1>1, <1>4
<1>6. req' = req \o new /\ Len(req) + Len(list) <= MaxReq
  BY DEF Ask
<1>7. \A k \in 1..Len(list) : new[k].append = append /\ new[k].node = list[k].node
  BY <1>1
<1> HIDE DEF new
<1>8. /\ req' \in Seq(Request)
      /\ Len(req') = Len(req) + Len(list)
      /\ \A i \in 1..Len(req) + Len(list) :
           req'[i] = IF i <= Len(req) THEN req[i] ELSE new[i - Len(req)]
  <2>1. req \in Seq(Request) /\ new \in Seq(Request) /\ Len(new) = Len(list) /\ req' = req \o new
    BY <1>5, <1>6
  <2>2. /\ req \o new \in Seq(Request)
        /\ Len(req \o new) = Len(req) + Len(new)
        /\ \A i \in 1 .. Len(req) + Len(new) :
             (req \o new)[i] = IF i <= Len(req) THEN req[i] ELSE new[i - Len(req)]
    BY <2>1, ConcatProperties, Zenon
  <2> QED BY <2>1, <2>2, Zenon
<1>9. DOMAIN req = 1..Len(req) /\ DOMAIN req' = 1..Len(req) + Len(list)
  BY <1>8
<1>10. ASSUME NEW k \in 1..Len(list)
       PROVE  /\ Len(req) + k \in DOMAIN req' /\ req'[Len(req) + k] = new[k]
  BY <1>1, <1>8, <1>9
<1> QED BY <1>1, <1>6, <1>7, <1>8, <1>9, <1>10

\* Whatever the profiles say, a verdict names a source and commands that a
\* report can record.
LEMMA VerdictTyped ==
  ASSUME NEW m \in Message, NEW q \in Request, installed \subseteq Pkg
  PROVE  /\ VerdictFor(m, q).src \in {"static", "package", "dynamic", "append"}
         /\ VerdictFor(m, q).ran \in SUBSET {"clean", "harmful"}
<1> DEFINE OK(v) == /\ v.src \in {"static", "package", "dynamic", "append"}
                    /\ v.ran \in SUBSET {"clean", "harmful"}
<1>1. OK(Download) /\ OK(Discard) /\ OK(Crash)
  BY DEF Download, Discard, Crash, Verdict
<1>2. \A p : OK(DynamicVerdict(q, p))
  BY <1>1 DEF DynamicVerdict, Verdict, Accepted
<1>3. OK(InstalledPackageVerdict(q))
  BY <1>1 DEF InstalledPackageVerdict, Verdict, Accepted
<1>4. OK(StaticVerdict(q))
  BY <1>3 DEF StaticVerdict, Verdict, Accepted
<1>5. OK(AppendVerdict(q))
  <2> DEFINE dynamic == PackageProfile(q.node)
  <2>1. CASE HasCommandInfo(dynamic, q) /\ HasCommandInfo(Static, q)
    <3>1. Merged(dynamic, q) \in SUBSET {"clean", "harmful"}
      BY <2>1 DEF HasCommandInfo, Merged
    <3>2. OK(Verdict("report", "append", Merged(dynamic, q)))
      BY <3>1 DEF Verdict
    <3> QED BY <1>1, <3>2 DEF AppendVerdict
  <2>2. CASE ~(HasCommandInfo(dynamic, q) /\ HasCommandInfo(Static, q))
    BY <1>1, <2>2 DEF AppendVerdict
  <2> QED BY <2>1, <2>2
<1> HIDE DEF OK
<1>6. OK(VerdictFor(m, q))
  BY <1>1, <1>2, <1>4, <1>5 DEF VerdictFor, Message, Kind
<1> QED BY <1>6 DEF OK

\* The head and the tail of a sequence that is not empty.
LEMMA HeadTail ==
  ASSUME NEW S, NEW s \in Seq(S), s # <<>>
  PROVE  /\ Head(s) \in S /\ Head(s) = s[1] /\ 1 \in DOMAIN s
         /\ Tail(s) \in Seq(S)
         /\ Len(s) \in Nat \ {0} /\ Len(Tail(s)) = Len(s) - 1
         /\ \A i \in DOMAIN Tail(s) : i + 1 \in DOMAIN s /\ Tail(s)[i] = s[i + 1]
  OBVIOUS

LEMMA ReceiveTInv == TInv /\ Receive => TInv'
<1> SUFFICES ASSUME TInv, Receive PROVE TInv'
  OBVIOUS
<1> USE DEF TInv, TypeOK, Receive
<1>1. /\ Head(queue) \in Message /\ Head(queue) = queue[1] /\ 1 \in DOMAIN queue
      /\ Tail(queue) \in Seq(Message) /\ Len(Tail(queue)) <= QueueCap
      /\ \A i \in DOMAIN Tail(queue) : i + 1 \in DOMAIN queue /\ Tail(queue)[i] = queue[i + 1]
  BY HeadTail, ConstantsAssumption DEF TypeQueue
<1>2. TypeQueue' /\ TypeThread'
  BY <1>1 DEF TypeQueue, TypeThread
<1>3. (TypeRequests /\ TypeCache /\ TypeRdm /\ TypeHandler)'
  BY DEF TypeRequests, TypeCache, TypeRdm, TypeHandler, rdmVars, handlerVars
<1>4. QueueKnown'
  BY <1>1 DEF QueueKnown, Known
<1>5. CurKnown'
  <2>1. queue[1].toks \in Seq(Token) /\ queue[1].toks # <<>> /\ Known(queue[1].toks)
    BY <1>1 DEF QueueKnown, Message
  <2>2. 1 \in DOMAIN queue[1].toks
    BY <2>1, HeadTail
  <2> QED BY <1>1, <2>1, <2>2 DEF CurKnown, Known
<1>6. (BlobsKnown /\ CacheKnown /\ HeldEntryLive)'
  BY DEF BlobsKnown, CacheKnown, Known, HeldEntryLive, handlerVars
<1> QED BY <1>2, <1>3, <1>4, <1>5, <1>6

\* What Append() does to the elements of a sequence.
LEMMA AppendElements ==
  ASSUME NEW S, NEW s \in Seq(S), NEW x \in S
  PROVE  /\ Append(s, x) \in Seq(S) /\ Len(Append(s, x)) = Len(s) + 1
         /\ DOMAIN s \subseteq DOMAIN Append(s, x)
         /\ \A k \in DOMAIN s : Append(s, x)[k] = s[k]
         /\ \A k \in DOMAIN Append(s, x) :
              (k \in DOMAIN s /\ Append(s, x)[k] = s[k]) \/ Append(s, x)[k] = x
  OBVIOUS

\* A list of one element.
LEMMA SingletonSeq ==
  ASSUME NEW S, NEW x \in S
  PROVE  /\ <<x>> \in Seq(S) /\ <<x>> # <<>>
         /\ \A k \in DOMAIN <<x>> : <<x>>[k] = x
  OBVIOUS

\* RRDMsgDeliver() adds one message and stays within the capacity.
LEMMA DeliverProperties ==
  ASSUME TypeQueue, NEW m \in Message, RRDMsgDeliver(m)
  PROVE  /\ queue' \in Seq(Message) /\ Len(queue') <= QueueCap
         /\ \A k \in DOMAIN queue' : (k \in DOMAIN queue /\ queue'[k] = queue[k]) \/ queue'[k] = m
<1>1. queue \in Seq(Message) /\ Len(queue) \in Nat /\ Len(queue) < QueueCap /\ queue' = Append(queue, m)
  BY DEF TypeQueue, RRDMsgDeliver
<1>2. Len(queue) + 1 <= QueueCap
  BY <1>1, ConstantsAssumption
<1> QED BY <1>1, <1>2, AppendElements

\* NextToken keeps the event thread inside its list.
LEMMA NextTokenProperties ==
  ASSUME TypeThread, CurKnown, pc # "recv", NextToken
  PROVE  /\ TypeThread'
         /\ cur' = cur
         /\ pc' \in {"recv", "token"}
         /\ pc' # "recv" => idx' \in DOMAIN cur'.toks
<1>1. cur.toks \in Seq(Token) /\ idx \in Nat \ {0} /\ idx \in DOMAIN cur.toks
  BY DEF TypeThread, CurKnown, Message
<1>2. DOMAIN cur.toks = 1..Len(cur.toks) /\ Len(cur.toks) \in Nat
  BY <1>1
<1> QED BY <1>1, <1>2 DEF NextToken, TypeThread

\* The request the event thread works on has been made.
LEMMA CurReqProperties ==
  ASSUME TypeRequests, TypeThread, CurKnown, pc # "recv"
  PROVE  /\ idx \in DOMAIN cur.toks /\ cur.toks[idx] \in Token
         /\ CurReq \in DOMAIN req /\ CurReq \in Req /\ req[CurReq] \in Request
<1>1. cur.toks \in Seq(Token) /\ idx \in DOMAIN cur.toks /\ req \in Seq(Request)
  BY DEF TypeRequests, TypeThread, CurKnown, Message
<1>2. cur.toks[idx] \in Token /\ CurReq \in DOMAIN req
  BY <1>1 DEF CurKnown, Known, CurReq
<1> QED BY <1>1, <1>2 DEF CurReq, Token

\* A longer record of requests still has what the tokens and entries name.
LEMMA KnownGrows ==
  ASSUME DOMAIN req \subseteq DOMAIN req', UNCHANGED <<blobs, cur, idx, pc, cache, stamp>>,
         BlobsKnown, CurKnown, CacheKnown
  PROVE  (BlobsKnown /\ CurKnown /\ CacheKnown)'
  BY DEF BlobsKnown, CurKnown, CacheKnown, Known

LEMMA IssueEventTInv ==
  ASSUME TInv, NEW list \in Lists, NEW append \in BOOLEAN, IssueEvent(list, append)
  PROVE  TInv'
<1> USE DEF TInv, TypeOK, IssueEvent
<1> DEFINE m == IssueMessage(AskedTokens(list), append)
<1>1. /\ AskedTokens(list) \in Seq(Token) /\ AskedTokens(list) # <<>>
      /\ DOMAIN AskedTokens(list) = 1..Len(list)
      /\ \A k \in 1..Len(list) : AskedTokens(list)[k].req = Len(req) + k
  BY AskedTokensProperties DEF TypeRequests, Ask
<1>2. /\ req' \in Seq(Request) /\ Len(req') <= MaxReq
      /\ DOMAIN req \subseteq DOMAIN req'
      /\ \A k \in 1..Len(list) : Len(req) + k \in DOMAIN req'
  BY AskProperties DEF TypeRequests
<1>3. m \in Message /\ m.toks = AskedTokens(list)
  BY <1>1 DEF IssueMessage, Message, Kind
<1> HIDE DEF m
<1>4. /\ queue' \in Seq(Message) /\ Len(queue') <= QueueCap
      /\ \A k \in DOMAIN queue' : (k \in DOMAIN queue /\ queue'[k] = queue[k]) \/ queue'[k] = m
  BY <1>3, DeliverProperties DEF m
<1>5. param' \in Pkg \union {NoPkg}
  <2>1. list[1] \in Issue
    BY ListProperties
  <2> QED BY <2>1 DEF ParamPkg, Issue, Pkg
<1>6. TypeOK'
  BY <1>2, <1>4, <1>5 DEF TypeRequests, TypeQueue, TypeThread, TypeCache, TypeRdm, TypeHandler,
                          threadVars, rdmVars, handlerVars
<1>7. QueueKnown'
  BY <1>1, <1>2, <1>3, <1>4 DEF QueueKnown, Known
<1>8. (BlobsKnown /\ CurKnown /\ CacheKnown)'
  BY <1>2, KnownGrows DEF threadVars
<1>9. HeldEntryLive'
  BY DEF HeldEntryLive, handlerVars
<1> QED BY <1>6, <1>7, <1>8, <1>9

LEMMA WebCfgEventTInv ==
  ASSUME TInv, NEW list \in Lists, NEW append \in BOOLEAN, WebCfgEvent(list, append)
  PROVE  TInv'
<1> USE DEF TInv, TypeOK, WebCfgEvent
<1> DEFINE m == [IssueMessage(AskedTokens(list), FALSE) EXCEPT !.kind = "webcfg"]
<1>1. /\ AskedTokens(list) \in Seq(Token) /\ AskedTokens(list) # <<>>
      /\ DOMAIN AskedTokens(list) = 1..Len(list)
      /\ \A k \in 1..Len(list) : AskedTokens(list)[k].req = Len(req) + k
  BY AskedTokensProperties DEF TypeRequests, Ask
<1>2. /\ req' \in Seq(Request) /\ Len(req') <= MaxReq
      /\ DOMAIN req \subseteq DOMAIN req'
      /\ \A k \in 1..Len(list) : Len(req) + k \in DOMAIN req'
  BY AskProperties DEF TypeRequests
<1>3. m \in Message /\ m.toks = AskedTokens(list)
  BY <1>1 DEF IssueMessage, Message, Kind
<1> HIDE DEF m
<1>4. /\ queue' \in Seq(Message) /\ Len(queue') <= QueueCap
      /\ \A k \in DOMAIN queue' : (k \in DOMAIN queue /\ queue'[k] = queue[k]) \/ queue'[k] = m
  BY <1>3, DeliverProperties DEF m
<1>6. TypeOK'
  BY <1>2, <1>4 DEF TypeRequests, TypeQueue, TypeThread, TypeCache, TypeRdm, TypeHandler,
                    threadVars, rdmVars, handlerVars
<1>7. QueueKnown'
  BY <1>1, <1>2, <1>3, <1>4 DEF QueueKnown, Known
<1>8. (BlobsKnown /\ CurKnown /\ CacheKnown)'
  BY <1>2, KnownGrows DEF threadVars
<1>9. HeldEntryLive'
  BY DEF HeldEntryLive, handlerVars
<1> QED BY <1>6, <1>7, <1>8, <1>9

LEMMA PowerEventTInv ==
  ASSUME TInv, PowerEvent
  PROVE  TInv'
<1> USE DEF TInv, TypeOK, PowerEvent
<1> DEFINE q == [node |-> DeepSleep, sub |-> NoSub, sfx |-> FALSE, append |-> FALSE]
           t == [req |-> Len(req) + 1, sfx |-> FALSE]
           m == [IssueMessage(<<t>>, FALSE) EXCEPT !.kind = "sleepInit"]
<1>1. req \in Seq(Request) /\ Len(req) \in Nat /\ Len(req) + 1 <= MaxReq
  BY ConstantsAssumption DEF TypeRequests
<1>2. q \in Request
  BY ConstantsAssumption DEF Request
<1>3. t \in Token /\ t.req = Len(req) + 1
  BY <1>1, ConstantsAssumption DEF Token, Req
<1> HIDE DEF t
<1>4. /\ m \in Message /\ m.toks # <<>>
      /\ \A k \in DOMAIN m.toks : m.toks[k] = t
  <2> DEFINE s == <<t>>
  <2>1. s \in Seq(Token) /\ s # <<>> /\ \A k \in DOMAIN s : s[k] = t
    BY <1>3, SingletonSeq
  <2> HIDE DEF s
  <2>2. m = [IssueMessage(s, FALSE) EXCEPT !.kind = "sleepInit"]
    BY DEF s
  <2>3. m \in Message /\ m.toks = s
    BY <2>1, <2>2 DEF IssueMessage, Message, Kind
  <2> QED BY <2>1, <2>3
<1>5. req' = Append(req, q) /\ RRDMsgDeliver(m)
  BY DEF t
<1> HIDE DEF q, m
<1>6. /\ req' \in Seq(Request) /\ Len(req') = Len(req) + 1
      /\ DOMAIN req \subseteq DOMAIN req' /\ Len(req) + 1 \in DOMAIN req'
  BY <1>1, <1>2, <1>5, AppendElements
<1>7. /\ queue' \in Seq(Message) /\ Len(queue') <= QueueCap
      /\ \A k \in DOMAIN queue' : (k \in DOMAIN queue /\ queue'[k] = queue[k]) \/ queue'[k] = m
  BY <1>4, <1>5, DeliverProperties
<1>8. TypeOK'
  BY <1>1, <1>6, <1>7 DEF TypeRequests, TypeQueue, TypeThread, TypeCache, TypeRdm, TypeHandler,
                          threadVars, rdmVars, handlerVars
<1>9. QueueKnown'
  BY <1>3, <1>4, <1>6, <1>7 DEF QueueKnown, Known
<1>10. (BlobsKnown /\ CurKnown /\ CacheKnown)'
  BY <1>6, KnownGrows DEF threadVars
<1>11. HeldEntryLive'
  BY DEF HeldEntryLive, handlerVars
<1> QED BY <1>8, <1>9, <1>10, <1>11

LEMMA PushBlobTInv ==
  ASSUME TInv, PushBlob
  PROVE  TInv'
<1> USE DEF TInv, TypeOK, PushBlob
<1> DEFINE b == Head(blobs)
           m == IssueMessage(b, req[b[1].req].append)
<1>1. /\ b \in Seq(Token) /\ b = blobs[1] /\ 1 \in DOMAIN blobs
      /\ Tail(blobs) \in Seq(Seq(Token))
      /\ \A i \in DOMAIN Tail(blobs) : i + 1 \in DOMAIN blobs /\ Tail(blobs)[i] = blobs[i + 1]
  <2>1. blobs \in Seq(Seq(Token)) /\ blobs # <<>>
    BY DEF TypeQueue
  <2> QED BY <2>1, HeadTail
<1>2. b # <<>> /\ Known(b)
  BY <1>1 DEF BlobsKnown
<1> HIDE DEF b
<1>3. req[b[1].req] \in Request
  <2>1. 1 \in DOMAIN b
    BY <1>1, <1>2, HeadTail
  <2>2. b[1].req \in DOMAIN req
    BY <1>2, <2>1 DEF Known
  <2> QED BY <2>2 DEF TypeRequests
<1>4. m \in Message /\ m.toks = b
  BY <1>1, <1>3 DEF IssueMessage, Message, Kind, Request
<1>5. RRDMsgDeliver(m) /\ blobs' = Tail(blobs)
  BY DEF b
<1> HIDE DEF m
<1>6. /\ queue' \in Seq(Message) /\ Len(queue') <= QueueCap
      /\ \A k \in DOMAIN queue' : (k \in DOMAIN queue /\ queue'[k] = queue[k]) \/ queue'[k] = m
  BY <1>4, <1>5, DeliverProperties
<1>7. TypeOK'
  BY <1>1, <1>5, <1>6 DEF TypeRequests, TypeQueue, TypeThread, TypeCache, TypeRdm, TypeHandler,
                          threadVars, rdmVars, handlerVars
<1>8. QueueKnown'
  BY <1>2, <1>4, <1>6 DEF QueueKnown, Known
<1>9. BlobsKnown'
  BY <1>1, <1>5 DEF BlobsKnown, Known
<1>10. (CurKnown /\ CacheKnown /\ HeldEntryLive)'
  BY DEF CurKnown, CacheKnown, Known, HeldEntryLive, threadVars, handlerVars
<1> QED BY <1>7, <1>8, <1>9, <1>10

LEMMA DecodeWebCfgTInv ==
  ASSUME TInv, DecodeWebCfg
  PROVE  TInv'
<1> USE DEF TInv, TypeOK, DecodeWebCfg
<1>1. cur.toks \in Seq(Token) /\ cur.toks # <<>> /\ Known(cur.toks)
  BY DEF TypeThread, CurKnown, Message
<1>2. blobs' \in Seq(Seq(Token)) /\ BlobsKnown'
  <2>1. CASE blobs' = Append(blobs, cur.toks)
    <3>1. /\ blobs' \in Seq(Seq(Token))
          /\ \A k \in DOMAIN blobs' :
               (k \in DOMAIN blobs /\ blobs'[k] = blobs[k]) \/ blobs'[k] = cur.toks
      BY <1>1, <2>1, AppendElements DEF TypeQueue
    <3> QED BY <1>1, <3>1 DEF BlobsKnown, Known
  <2>2. CASE UNCHANGED blobs
    BY <2>2 DEF TypeQueue, BlobsKnown, Known
  <2> QED BY <2>1, <2>2
<1>3. outcome' \in [Req -> Outcome]
  BY DEF TypeRequests, Outcome
<1>4. TypeOK'
  BY <1>2, <1>3 DEF TypeRequests, TypeQueue, TypeThread, TypeCache, TypeRdm, TypeHandler,
                    rdmVars, handlerVars
<1>5. (QueueKnown /\ CurKnown /\ CacheKnown /\ HeldEntryLive)'
  BY DEF QueueKnown, CurKnown, CacheKnown, Known, HeldEntryLive, handlerVars
<1> QED BY <1>2, <1>4, <1>5

LEMMA ProcessIssueTypeTInv ==
  ASSUME TInv, ProcessIssueType
  PROVE  TInv'
<1> USE DEF TInv, TypeOK, ProcessIssueType
<1>1. CurReq \in Req
  BY CurReqProperties
<1>2. /\ TypeThread' /\ cur' = cur /\ (pc' # "recv" => idx' \in DOMAIN cur'.toks)
      /\ outcome' \in [Req -> Outcome]
  <2>1. CASE pc' \in {"report", "set", "dead"} /\ UNCHANGED <<cur, idx, outcome>>
    BY <2>1 DEF TypeThread, CurKnown, TypeRequests
  <2>2. CASE NextToken /\ Settle("discarded")
    BY <1>1, <2>2, NextTokenProperties DEF Settle, TypeRequests, Outcome
  <2> QED BY <2>1, <2>2
<1>3. TypeOK'
  BY <1>2 DEF TypeRequests, TypeQueue, TypeCache, TypeRdm, TypeHandler, rdmVars, handlerVars
<1>4. CurKnown'
  BY <1>2 DEF CurKnown, Known
<1>5. (QueueKnown /\ BlobsKnown /\ CacheKnown /\ HeldEntryLive)'
  BY DEF QueueKnown, BlobsKnown, CacheKnown, Known, HeldEntryLive, handlerVars
<1> QED BY <1>3, <1>4, <1>5

LEMMA CheckIssueNodeInfoTInv ==
  ASSUME TInv, CheckIssueNodeInfo
  PROVE  TInv'
<1> USE DEF TInv, TypeOK, CheckIssueNodeInfo
<1>1. CurReq \in Req /\ req[CurReq] \in Request /\ cur.toks[idx] \in Token
  BY CurReqProperties
<1>2. /\ TypeThread' /\ cur' = cur /\ (pc' # "recv" => idx' \in DOMAIN cur'.toks)
  BY NextTokenProperties
<1>3. [src |-> CurVerdict.src, sfx |-> cur.toks[idx].sfx, ran |-> CurVerdict.ran] \in Report
  <2>1. /\ CurVerdict.src \in {"static", "package", "dynamic", "append"}
        /\ CurVerdict.ran \in SUBSET {"clean", "harmful"}
    BY <1>1, VerdictTyped DEF CurVerdict, TypeThread, TypeRdm
  <2>2. cur.toks[idx].sfx \in BOOLEAN
    BY <1>1 DEF Token
  <2> HIDE DEF CheckIssueNodeInfo, TInv, TypeOK
  <2> QED BY <2>1, <2>2 DEF Report
<1>4. report' \in [Req -> Seq(Report)]
  <2> DEFINE new == [src |-> CurVerdict.src, sfx |-> cur.toks[idx].sfx, ran |-> CurVerdict.ran]
  <2>1. report \in [Req -> Seq(Report)]
    BY DEF TypeRequests
  <2>2. report' = [report EXCEPT ![CurReq] = Append(@, new)] \/ report' = report
    OBVIOUS
  <2>3. new \in Report
    BY <1>3
  <2> HIDE DEF new, CheckIssueNodeInfo, TInv, TypeOK
  <2>4. CASE report' = [report EXCEPT ![CurReq] = Append(@, new)]
    BY <1>1, <2>1, <2>3, <2>4
  <2>5. CASE report' = report
    BY <2>1, <2>5
  <2> QED BY <2>2, <2>4, <2>5
<1>5. outcome' \in [Req -> Outcome]
  BY <1>1 DEF Settle, TypeRequests, Outcome
<1>6. TypeOK'
  BY <1>2, <1>4, <1>5 DEF TypeRequests, TypeQueue, TypeCache, TypeRdm, TypeHandler, rdmVars,
                          handlerVars
<1>7. CurKnown'
  BY <1>2 DEF CurKnown, Known
<1>8. (QueueKnown /\ BlobsKnown /\ CacheKnown /\ HeldEntryLive)'
  BY DEF QueueKnown, BlobsKnown, CacheKnown, Known, HeldEntryLive, handlerVars
<1> QED BY <1>6, <1>7, <1>8

LEMMA RdmRefusedTInv ==
  ASSUME TInv, RdmRefused \/ AppendItemFails
  PROVE  TInv'
<1> USE DEF TInv, TypeOK, RdmRefused, AppendItemFails
<1>1. CurReq \in Req
  BY CurReqProperties
<1>2. /\ TypeThread' /\ cur' = cur /\ (pc' # "recv" => idx' \in DOMAIN cur'.toks)
  BY NextTokenProperties
<1>3. outcome' \in [Req -> Outcome]
  BY <1>1 DEF Settle, TypeRequests, Outcome
<1>4. TypeOK'
  BY <1>2, <1>3 DEF TypeRequests, TypeQueue, TypeCache, TypeRdm, TypeHandler, rdmVars, handlerVars
<1>5. CurKnown'
  BY <1>2 DEF CurKnown, Known
<1>6. (QueueKnown /\ BlobsKnown /\ CacheKnown /\ HeldEntryLive)'
  BY DEF QueueKnown, BlobsKnown, CacheKnown, Known, HeldEntryLive, handlerVars
<1> QED BY <1>4, <1>5, <1>6

\* The package a download is asked for.
LEMMA CurPkgType ==
  ASSUME TypeRequests, TypeThread, CurKnown, pc # "recv"
  PROVE  CurPkg \in Pkg
  BY CurReqProperties DEF CurPkg, Pkg, Request

LEMMA RdmAcceptedTInv ==
  ASSUME TInv, RdmAccepted
  PROVE  TInv'
<1> USE DEF TInv, TypeOK, RdmAccepted
<1>1. CurPkg \in Pkg
  BY CurPkgType
<1>2. jobs' \in [Pkg -> Nat]
  BY <1>1 DEF TypeRdm
<1>3. TypeOK'
  BY <1>2 DEF TypeRequests, TypeQueue, TypeThread, TypeCache, TypeRdm, TypeHandler, handlerVars
<1>4. (QueueKnown /\ BlobsKnown /\ CurKnown /\ CacheKnown /\ HeldEntryLive)'
  BY DEF QueueKnown, BlobsKnown, CurKnown, CacheKnown, Known, HeldEntryLive, handlerVars
<1> QED BY <1>3, <1>4

LEMMA AppendItemTInv ==
  ASSUME TInv, AppendItem
  PROVE  TInv'
<1> USE DEF TInv, TypeOK, AppendItem
<1> DEFINE e == [stamp |-> stamp, pkg |-> CurPkg, req |-> CurReq, append |-> cur.append]
<1>1. CurReq \in Req /\ CurReq \in DOMAIN req /\ CurPkg \in Pkg
  BY CurReqProperties, CurPkgType
<1>2. stamp \in Nat /\ cur.append \in BOOLEAN
  BY DEF TypeCache, TypeThread, Message
<1>3. e \in Entry /\ e.req = CurReq /\ e.stamp = stamp
  BY <1>1, <1>2 DEF Entry
<1>4. cache' = cache \union {e} /\ stamp' = stamp + 1
  BY DEF Push
<1> HIDE DEF e
<1>5. /\ TypeThread' /\ cur' = cur /\ (pc' # "recv" => idx' \in DOMAIN cur'.toks)
  BY NextTokenProperties
<1>6. TypeCache'
  BY <1>2, <1>3, <1>4 DEF TypeCache
<1>7. CacheKnown'
  <2>1. \A f \in cache : f.stamp \in Nat
    BY DEF TypeCache, Entry
  <2> QED BY <1>1, <1>2, <1>3, <1>4, <2>1 DEF CacheKnown
<1>8. (TypeRequests /\ TypeQueue /\ TypeRdm /\ TypeHandler)'
  BY DEF TypeRequests, TypeQueue, TypeRdm, TypeHandler, rdmVars, handlerVars
<1>9. CurKnown'
  BY <1>5 DEF CurKnown, Known
<1>10. (QueueKnown /\ BlobsKnown)'
  BY DEF QueueKnown, BlobsKnown, Known
<1>11. HeldEntryLive'
  BY <1>4 DEF HeldEntryLive, handlerVars
<1> QED BY <1>5, <1>6, <1>7, <1>8, <1>9, <1>10, <1>11

LEMMA RdmFinishTInv ==
  ASSUME TInv, NEW p \in Pkg, NEW ok \in BOOLEAN, RdmFinish(p, ok)
  PROVE  TInv'
<1> USE DEF TInv, TypeOK, RdmFinish
<1>1. jobs' \in [Pkg -> Nat] /\ installed' \subseteq Pkg
  BY DEF TypeRdm
<1>2. events' \in Seq([pkg : Pkg, ok : BOOLEAN])
  <2>1. [pkg |-> p, ok |-> ok] \in [pkg : Pkg, ok : BOOLEAN]
    OBVIOUS
  <2> QED BY <2>1, AppendElements DEF TypeRdm
<1>3. TypeOK'
  BY <1>1, <1>2 DEF TypeRequests, TypeQueue, TypeThread, TypeCache, TypeRdm, TypeHandler,
                    threadVars, handlerVars
<1>4. (QueueKnown /\ BlobsKnown /\ CurKnown /\ CacheKnown /\ HeldEntryLive)'
  BY DEF QueueKnown, BlobsKnown, CurKnown, CacheKnown, Known, HeldEntryLive, threadVars, handlerVars
<1> QED BY <1>3, <1>4

LEMMA RdmProgressTInv ==
  ASSUME TInv, NEW p \in Pkg, RdmProgress(p)
  PROVE  TInv'
<1> USE DEF TInv, TypeOK, RdmProgress
<1>1. events' \in Seq([pkg : Pkg, ok : BOOLEAN])
  <2>1. [pkg |-> p, ok |-> FALSE] \in [pkg : Pkg, ok : BOOLEAN]
    OBVIOUS
  <2> QED BY <2>1, AppendElements DEF TypeRdm
<1>2. TypeOK'
  BY <1>1 DEF TypeRequests, TypeQueue, TypeThread, TypeCache, TypeRdm, TypeHandler,
              threadVars, handlerVars
<1>3. (QueueKnown /\ BlobsKnown /\ CurKnown /\ CacheKnown /\ HeldEntryLive)'
  BY DEF QueueKnown, BlobsKnown, CurKnown, CacheKnown, Known, HeldEntryLive, threadVars, handlerVars
<1> QED BY <1>2, <1>3

\* The entry findPresentInCache() gives the RDM handler.
LEMMA FoundProperties ==
  ASSUME TInv, Matching(cache, HeardPkg) # {}
  PROVE  Newest(cache, HeardPkg) \in cache /\ Newest(cache, HeardPkg).pkg = HeardPkg
<1>1. stamp \in Nat /\ \A e \in cache : e.stamp \in 0..stamp
  BY DEF TInv, TypeOK, TypeCache, CacheKnown, Entry
<1> QED BY <1>1, NewestProperties

LEMMA RdmEventFindTInv ==
  ASSUME TInv, RdmEventFind
  PROVE  TInv'
<1> USE DEF TInv, TypeOK, RdmEventFind
<1>1. events' \in Seq([pkg : Pkg, ok : BOOLEAN])
  BY HeadTail DEF TypeRdm
<1>2. TypeHandler' /\ HeldEntryLive'
  <2>1. CASE /\ Matching(cache, HeardPkg) # {}
             /\ hent' = Newest(cache, HeardPkg)
             /\ hpc' = IF HeardOk THEN "deliver" ELSE "fail"
    <3>1. Newest(cache, HeardPkg) \in cache
      BY <2>1, FoundProperties
    <3> QED BY <2>1, <3>1 DEF TypeHandler, TypeCache, HeldEntryLive
  <2>2. CASE UNCHANGED handlerVars
    BY <2>2 DEF TypeHandler, HeldEntryLive, handlerVars
  <2> QED BY <2>1, <2>2
<1>3. (TypeRequests /\ TypeQueue /\ TypeThread /\ TypeCache /\ TypeRdm)'
  BY <1>1 DEF TypeRequests, TypeQueue, TypeThread, TypeCache, TypeRdm, threadVars
<1>4. (QueueKnown /\ BlobsKnown /\ CurKnown /\ CacheKnown)'
  BY DEF QueueKnown, BlobsKnown, CurKnown, CacheKnown, Known, threadVars
<1> QED BY <1>2, <1>3, <1>4

\* What either RDM handler puts in its message.
LEMMA CompletionProperties ==
  ASSUME NEW e \in Entry
  PROVE  /\ CompletionMessage(e) \in Message
         /\ CompletionMessage(e).toks # <<>>
         /\ \A k \in DOMAIN CompletionMessage(e).toks : CompletionMessage(e).toks[k].req = e.req
         /\ CompletionMessage(e).kind \in {"event", "sleepDone"}
         /\ CompletionMessage(e).append = e.append
         /\ CompletionMessage(e).dyn = ~e.append
         /\ CompletionMessage(e).pkg = e.pkg
<1> DEFINE t == [req |-> e.req, sfx |-> FALSE]
           s == <<t>>
           kind == IF IsSleepEntry(e) THEN "sleepDone" ELSE "event"
<1>1. e.req \in Req /\ e.append \in BOOLEAN /\ e.pkg \in Pkg
  BY DEF Entry
<1>2. t \in Token /\ t.req = e.req
  BY <1>1 DEF Token
<1> HIDE DEF t
<1>3. s \in Seq(Token) /\ s # <<>> /\ \A k \in DOMAIN s : s[k].req = e.req
  BY <1>2, SingletonSeq
<1>4. CompletionMessage(e) = [kind |-> kind, toks |-> s, append |-> e.append,
                              dyn |-> ~e.append, pkg |-> e.pkg]
  BY DEF CompletionMessage, t
<1>5. kind \in {"event", "sleepDone"}
  OBVIOUS
<1> HIDE DEF s, kind
<1> QED BY <1>1, <1>3, <1>4, <1>5 DEF Message, Kind

LEMMA RdmEventDeliverTInv ==
  ASSUME TInv, RdmEventDeliver
  PROVE  TInv'
<1> USE DEF TInv, TypeOK, RdmEventDeliver
<1> DEFINE m == CompletionMessage(hent)
<1>1. hent \in cache /\ hent \in Entry /\ hent.req \in DOMAIN req
  BY DEF HeldEntryLive, TypeCache, CacheKnown
<1>2. m \in Message /\ m.toks # <<>> /\ \A k \in DOMAIN m.toks : m.toks[k].req = hent.req
  BY <1>1, CompletionProperties
<1> HIDE DEF m
<1>3. /\ queue' \in Seq(Message) /\ Len(queue') <= QueueCap
      /\ \A k \in DOMAIN queue' : (k \in DOMAIN queue /\ queue'[k] = queue[k]) \/ queue'[k] = m
  BY <1>2, DeliverProperties DEF m
<1>4. TypeOK'
  BY <1>3 DEF TypeRequests, TypeQueue, TypeThread, TypeCache, TypeRdm, TypeHandler,
              threadVars, rdmVars
<1>5. QueueKnown'
  BY <1>1, <1>2, <1>3 DEF QueueKnown, Known
<1>6. (BlobsKnown /\ CurKnown /\ CacheKnown /\ HeldEntryLive)'
  BY DEF BlobsKnown, CurKnown, CacheKnown, Known, HeldEntryLive, threadVars
<1> QED BY <1>4, <1>5, <1>6

LEMMA RdmEventNoMemoryTInv ==
  ASSUME TInv, RdmEventNoMemory
  PROVE  TInv'
<1> USE DEF TInv, TypeOK, RdmEventNoMemory
<1>1. TypeOK'
  BY DEF TypeRequests, TypeQueue, TypeThread, TypeCache, TypeRdm, TypeHandler, threadVars, rdmVars
<1>2. (QueueKnown /\ BlobsKnown /\ CurKnown /\ CacheKnown /\ HeldEntryLive)'
  BY DEF QueueKnown, BlobsKnown, CurKnown, CacheKnown, Known, HeldEntryLive, threadVars
<1> QED BY <1>1, <1>2

LEMMA RdmEventRemoveTInv ==
  ASSUME TInv, RdmEventRemove
  PROVE  TInv'
<1> USE DEF TInv, TypeOK, RdmEventRemove
<1>1. hent \in Entry /\ hent.req \in Req
  BY DEF TypeHandler, Entry
<1>2. outcome' \in [Req -> Outcome]
  BY <1>1 DEF TypeRequests, Outcome
<1>3. cache' \subseteq cache
  BY DEF Drop
<1>4. TypeOK'
  BY <1>2, <1>3 DEF TypeRequests, TypeQueue, TypeThread, TypeCache, TypeRdm, TypeHandler,
                    threadVars, rdmVars
<1>5. CacheKnown' /\ HeldEntryLive'
  BY <1>3 DEF CacheKnown, HeldEntryLive
<1>6. (QueueKnown /\ BlobsKnown /\ CurKnown)'
  BY DEF QueueKnown, BlobsKnown, CurKnown, Known, threadVars
<1> QED BY <1>4, <1>5, <1>6
-----------------------------------------------------------------------------
LEMMA InitTInv == Init => TInv
<1> SUFFICES ASSUME Init PROVE TInv
  OBVIOUS
<1> USE DEF Init
<1>1. TypeRequests /\ TypeQueue /\ TypeCache /\ TypeRdm /\ TypeHandler
  BY ConstantsAssumption DEF TypeRequests, TypeQueue, TypeCache, TypeRdm, TypeHandler, Outcome
<1>2. TypeThread
  BY DEF TypeThread, NoMessage, Message, Kind
<1>3. QueueKnown /\ BlobsKnown /\ CurKnown /\ CacheKnown /\ HeldEntryLive
  BY DEF QueueKnown, BlobsKnown, CurKnown, CacheKnown, Known, HeldEntryLive, NoMessage
<1> QED BY <1>1, <1>2, <1>3 DEF TInv, TypeOK

LEMMA StutterTInv ==
  ASSUME TInv, UNCHANGED vars
  PROVE  TInv'
<1> USE DEF vars
<1>1. TypeOK'
  BY DEF TInv, TypeOK, TypeRequests, TypeQueue, TypeThread, TypeCache, TypeRdm, TypeHandler
<1>2. (QueueKnown /\ BlobsKnown /\ CurKnown /\ CacheKnown /\ HeldEntryLive)'
  BY DEF TInv, QueueKnown, BlobsKnown, CurKnown, CacheKnown, Known, HeldEntryLive
<1> QED BY <1>1, <1>2 DEF TInv

LEMMA NextTInv == TInv /\ [Next]_vars => TInv'
<1> SUFFICES ASSUME TInv, [Next]_vars PROVE TInv'
  OBVIOUS
<1>1. CASE \E list \in Lists, append \in BOOLEAN :
             IssueEvent(list, append) \/ WebCfgEvent(list, append)
  BY <1>1, IssueEventTInv, WebCfgEventTInv
<1>2. CASE PowerEvent
  BY <1>2, PowerEventTInv
<1>3. CASE PushBlob
  BY <1>3, PushBlobTInv
<1>4. CASE EventThread
  BY <1>4, ReceiveTInv, DecodeWebCfgTInv, ProcessIssueTypeTInv, CheckIssueNodeInfoTInv,
     RdmRefusedTInv, RdmAcceptedTInv, AppendItemTInv DEF EventThread
<1>5. CASE RdmHandler
  BY <1>5, RdmEventFindTInv, RdmEventDeliverTInv, RdmEventNoMemoryTInv, RdmEventRemoveTInv
     DEF RdmHandler
<1>6. CASE Rdm
  BY <1>6, RdmFinishTInv DEF Rdm
<1>7. CASE \E p \in Pkg : RdmProgress(p)
  BY <1>7, RdmProgressTInv
<1>8. CASE UNCHANGED vars
  BY <1>8, StutterTInv
<1> QED BY <1>1, <1>2, <1>3, <1>4, <1>5, <1>6, <1>7, <1>8 DEF Next

LEMMA TInvAlways == Spec => []TInv
<1> QED BY InitTInv, NextTInv, PTL DEF Spec

\* Type correctness: no interleaving of the callbacks, the event thread and
\* RDM drives a variable out of its type or the queue over its capacity,
\* whatever the profiles and however many requests are made.
THEOREM TypeCorrect == Spec => []TypeOK
<1>1. TInv => TypeOK
  BY DEF TInv
<1> QED BY <1>1, TInvAlways, PTL

\* The pointer findPresentInCache() hands to the RDM handler stays that of a
\* live entry until remove_item(), although the mutex is released in
\* between: appends leave it, and only this handler removes.
THEOREM HeldEntryStaysLive == Spec => []HeldEntryLive
<1>1. TInv => HeldEntryLive
  BY DEF TInv
<1> QED BY <1>1, TInvAlways, PTL
-----------------------------------------------------------------------------
(***************************************************************************)
(* The append mode.  It is set once per list, from the end of the string,  *)
(* so ModePreserved needs two facts that are not about one message: the    *)
(* requests of one web configuration document share their mode, and a      *)
(* document only ever meets the branch that decodes it.                    *)
(***************************************************************************)
\* All requests of a list were made in the same mode.
Uniform(rq, toks) == \A j, k \in DOMAIN toks : rq[toks[j].req].append = rq[toks[k].req].append

\* A message asks for the mode its requests were made in.
ModeOK(rq, m) ==
  /\ m.kind = "webcfg" => Uniform(rq, m.toks)
  /\ m.kind # "webcfg" =>
       /\ \A k \in DOMAIN m.toks : m.append = rq[m.toks[k].req].append
       /\ m.append => ~m.dyn

MInv ==
  /\ \A k \in DOMAIN queue : ModeOK(req, queue[k])
  /\ ModeOK(req, cur)
  /\ \A k \in DOMAIN blobs : Uniform(req, blobs[k])
  /\ \A e \in cache : e.append = req[e.req].append
  /\ pc = "decode" => cur.kind = "webcfg"
  /\ pc \notin {"recv", "decode"} => cur.kind # "webcfg"

\* Requests once made do not change, so neither do the modes.
LEMMA ModeStable ==
  ASSUME NEW rq, NEW rr, \A i \in DOMAIN rq : rr[i] = rq[i]
  PROVE  /\ \A toks : /\ \A k \in DOMAIN toks : toks[k].req \in DOMAIN rq
                      /\ Uniform(rq, toks)
                      => Uniform(rr, toks)
         /\ \A m : /\ \A k \in DOMAIN m.toks : m.toks[k].req \in DOMAIN rq
                   /\ ModeOK(rq, m)
                   => ModeOK(rr, m)
  BY DEF Uniform, ModeOK

\* A step that makes requests and sends one message that is right about
\* their mode preserves the invariant.
LEMMA MInvGrows ==
  ASSUME TInv, MInv, \A i \in DOMAIN req : req'[i] = req[i],
         NEW m, ModeOK(req', m),
         \A k \in DOMAIN queue' : (k \in DOMAIN queue /\ queue'[k] = queue[k]) \/ queue'[k] = m,
         UNCHANGED <<blobs, pc, cur, cache>>
  PROVE  MInv'
<1>1. ASSUME NEW k \in DOMAIN queue' PROVE ModeOK(req', queue'[k])
  BY <1>1, ModeStable DEF MInv, TInv, QueueKnown, Known
<1>2. ModeOK(req', cur')
  BY ModeStable DEF MInv, TInv, CurKnown, Known
<1>3. ASSUME NEW k \in DOMAIN blobs' PROVE Uniform(req', blobs'[k])
  BY <1>3, ModeStable DEF MInv, TInv, BlobsKnown, Known
<1>4. \A e \in cache' : e.append = req'[e.req].append
  BY DEF MInv, TInv, CacheKnown
<1> QED BY <1>1, <1>2, <1>3, <1>4 DEF MInv

LEMMA IssueEventMInv ==
  ASSUME TInv, MInv, NEW list \in Lists, NEW append \in BOOLEAN,
         IssueEvent(list, append) \/ WebCfgEvent(list, append)
  PROVE  MInv'
<1> USE DEF TInv, TypeOK
<1> DEFINE toks == AskedTokens(list)
           ev == IssueMessage(toks, append)
           doc == [IssueMessage(toks, FALSE) EXCEPT !.kind = "webcfg"]
<1>1. Ask(list, append)
  BY DEF IssueEvent, WebCfgEvent
<1>2. /\ toks \in Seq(Token) /\ DOMAIN toks = 1..Len(list)
      /\ \A k \in 1..Len(list) : toks[k].req = Len(req) + k
  BY <1>1, AskedTokensProperties DEF TypeRequests, Ask
<1>3. /\ \A i \in DOMAIN req : req'[i] = req[i]
      /\ \A k \in 1..Len(list) : req'[Len(req) + k].append = append
  BY <1>1, AskProperties DEF TypeRequests
<1> HIDE DEF toks
<1>4. \A k \in DOMAIN toks : req'[toks[k].req].append = append
  BY <1>2, <1>3
<1>5. ev \in Message /\ doc \in Message
  BY <1>2 DEF IssueMessage, Message, Kind
<1>6. ModeOK(req', ev)
  BY <1>4 DEF ModeOK, IssueMessage
<1>7. ModeOK(req', doc)
  BY <1>4 DEF ModeOK, Uniform, IssueMessage
<1>8. CASE IssueEvent(list, append)
  <2>1. RRDMsgDeliver(ev) /\ UNCHANGED <<blobs, pc, cur, cache>>
    BY <1>8 DEF IssueEvent, threadVars, toks
  <2> HIDE DEF ev
  <2>2. \A k \in DOMAIN queue' : (k \in DOMAIN queue /\ queue'[k] = queue[k]) \/ queue'[k] = ev
    BY <1>5, <2>1, DeliverProperties
  <2>3. ModeOK(req', ev)
    BY <1>6
  <2> QED BY <1>3, <2>1, <2>2, <2>3, MInvGrows
<1>9. CASE WebCfgEvent(list, append)
  <2>1. RRDMsgDeliver(doc) /\ UNCHANGED <<blobs, pc, cur, cache>>
    BY <1>9 DEF WebCfgEvent, threadVars, toks
  <2> HIDE DEF doc
  <2>2. \A k \in DOMAIN queue' : (k \in DOMAIN queue /\ queue'[k] = queue[k]) \/ queue'[k] = doc
    BY <1>5, <2>1, DeliverProperties
  <2>3. ModeOK(req', doc)
    BY <1>7
  <2> QED BY <1>3, <2>1, <2>2, <2>3, MInvGrows
<1> QED BY <1>8, <1>9

LEMMA PowerEventMInv ==
  ASSUME TInv, MInv, PowerEvent
  PROVE  MInv'
<1> USE DEF TInv, TypeOK, PowerEvent
<1> DEFINE q == [node |-> DeepSleep, sub |-> NoSub, sfx |-> FALSE, append |-> FALSE]
           t == [req |-> Len(req) + 1, sfx |-> FALSE]
           s == <<t>>
           m == [IssueMessage(s, FALSE) EXCEPT !.kind = "sleepInit"]
<1>1. req \in Seq(Request) /\ Len(req) \in Nat /\ Len(req) + 1 \in Req
  BY ConstantsAssumption DEF TypeRequests, Req
<1>2. q \in Request /\ q.append = FALSE
  BY ConstantsAssumption DEF Request
<1>3. t \in Token /\ t.req = Len(req) + 1
  BY <1>1 DEF Token
<1>4. req' = Append(req, q) /\ RRDMsgDeliver(m) /\ UNCHANGED <<blobs, pc, cur, cache>>
  BY DEF threadVars
<1> HIDE DEF q, t
<1>5. s \in Seq(Token) /\ \A k \in DOMAIN s : s[k] = t
  BY <1>3, SingletonSeq
<1> HIDE DEF s
<1>6. m \in Message /\ m.toks = s /\ m.append = FALSE /\ m.kind = "sleepInit"
  BY <1>5 DEF IssueMessage, Message, Kind
<1> HIDE DEF m
<1>7. (\A i \in DOMAIN req : req'[i] = req[i]) /\ req'[Len(req) + 1] = q
  BY <1>1, <1>2, <1>4
<1>8. ModeOK(req', m)
  BY <1>2, <1>3, <1>5, <1>6, <1>7 DEF ModeOK
<1>9. \A k \in DOMAIN queue' : (k \in DOMAIN queue /\ queue'[k] = queue[k]) \/ queue'[k] = m
  BY <1>4, <1>6, DeliverProperties
<1> HIDE DEF TInv, PowerEvent
<1> QED BY <1>4, <1>7, <1>8, <1>9, MInvGrows

LEMMA PushBlobMInv ==
  ASSUME TInv, MInv, PushBlob
  PROVE  MInv'
<1> USE DEF TInv, TypeOK, PushBlob
<1> DEFINE b == Head(blobs)
           m == IssueMessage(b, req[b[1].req].append)
<1>1. /\ b \in Seq(Token) /\ b = blobs[1] /\ 1 \in DOMAIN blobs
      /\ \A i \in DOMAIN Tail(blobs) : i + 1 \in DOMAIN blobs /\ Tail(blobs)[i] = blobs[i + 1]
  <2>1. blobs \in Seq(Seq(Token)) /\ blobs # <<>>
    BY DEF TypeQueue
  <2> QED BY <2>1, HeadTail
<1>2. b # <<>> /\ Known(b) /\ Uniform(req, b)
  BY <1>1 DEF BlobsKnown, MInv
<1> HIDE DEF b
<1>3. 1 \in DOMAIN b
  BY <1>1, <1>2, HeadTail
<1>4. req[b[1].req].append \in BOOLEAN
  <2>1. b[1].req \in DOMAIN req
    BY <1>2, <1>3 DEF Known
  <2>2. req[b[1].req] \in Request
    BY <2>1 DEF TypeRequests
  <2> QED BY <2>2 DEF Request
<1>5. m \in Message
  BY <1>1, <1>4 DEF IssueMessage, Message, Kind
<1>6. ModeOK(req, m)
  BY <1>2, <1>3 DEF ModeOK, Uniform, IssueMessage
<1>7. RRDMsgDeliver(m) /\ blobs' = Tail(blobs) /\ UNCHANGED <<req, pc, cur, cache>>
  BY DEF b, threadVars
<1> HIDE DEF m
<1>8. \A k \in DOMAIN queue' : (k \in DOMAIN queue /\ queue'[k] = queue[k]) \/ queue'[k] = m
  BY <1>5, <1>7, DeliverProperties
<1> QED BY <1>1, <1>6, <1>7, <1>8 DEF MInv

LEMMA ReceiveMInv ==
  ASSUME TInv, MInv, Receive
  PROVE  MInv'
<1> USE DEF TInv, TypeOK, Receive
<1>1. /\ Head(queue) = queue[1] /\ 1 \in DOMAIN queue
      /\ \A i \in DOMAIN Tail(queue) : i + 1 \in DOMAIN queue /\ Tail(queue)[i] = queue[i + 1]
  BY HeadTail DEF TypeQueue
<1> QED BY <1>1 DEF MInv

LEMMA DecodeWebCfgMInv ==
  ASSUME TInv, MInv, DecodeWebCfg
  PROVE  MInv'
<1> USE DEF TInv, TypeOK, DecodeWebCfg
<1>1. cur.toks \in Seq(Token) /\ Uniform(req, cur.toks)
  BY DEF TypeThread, Message, MInv, ModeOK
<1>2. \A k \in DOMAIN blobs' : Uniform(req, blobs'[k])
  <2>1. CASE blobs' = Append(blobs, cur.toks)
    <3>1. \A k \in DOMAIN blobs' : (k \in DOMAIN blobs /\ blobs'[k] = blobs[k]) \/ blobs'[k] = cur.toks
      BY <1>1, <2>1, AppendElements DEF TypeQueue
    <3> QED BY <1>1, <3>1 DEF MInv
  <2>2. CASE UNCHANGED blobs
    BY <2>2 DEF MInv
  <2> QED BY <2>1, <2>2
<1> QED BY <1>2 DEF MInv

\* The steps of the event thread that leave the mode alone.
LEMMA ThreadStepMInv ==
  ASSUME TInv, MInv,
         \/ ProcessIssueType \/ CheckIssueNodeInfo \/ RdmRefused \/ RdmAccepted
         \/ AppendItemFails
  PROVE  MInv'
<1>1. /\ UNCHANGED <<req, queue, blobs, cur, cache>>
      /\ pc \notin {"recv", "decode"} /\ pc' # "decode"
  BY DEF ProcessIssueType, CheckIssueNodeInfo, RdmRefused, RdmAccepted, AppendItemFails, NextToken
<1> QED BY <1>1 DEF MInv

LEMMA AppendItemMInv ==
  ASSUME TInv, MInv, AppendItem
  PROVE  MInv'
<1> DEFINE e == [stamp |-> stamp, pkg |-> CurPkg, req |-> CurReq, append |-> cur.append]
<1>1. /\ cache' = cache \union {e} /\ UNCHANGED <<req, queue, blobs, cur>>
      /\ pc = "append" /\ pc' # "decode"
  BY DEF AppendItem, NextToken, Push
<1>2. cur.append = req[CurReq].append
  <2>1. idx \in DOMAIN cur.toks
    BY <1>1 DEF TInv, CurKnown
  <2> QED BY <1>1, <2>1 DEF MInv, ModeOK, CurReq
<1>3. e.append = req[e.req].append
  BY <1>2
<1> HIDE DEF e
<1> QED BY <1>1, <1>3 DEF MInv

\* The RDM callbacks: the message carries the mode of the cache entry.
LEMMA HandlerMInv ==
  ASSUME TInv, MInv, RdmHandler
  PROVE  MInv'
<1>1. CASE RdmEventFind
  BY <1>1 DEF RdmEventFind, MInv, threadVars
<1>2. CASE RdmEventDeliver
  <2> DEFINE m == CompletionMessage(hent)
  <2>1. hent \in cache /\ hent \in Entry
    BY <1>2 DEF TInv, TypeOK, TypeCache, HeldEntryLive, RdmEventDeliver
  <2>2. /\ m \in Message /\ m.kind # "webcfg"
        /\ \A k \in DOMAIN m.toks : m.toks[k].req = hent.req
        /\ m.append = hent.append /\ m.dyn = ~hent.append
    BY <2>1, CompletionProperties
  <2> HIDE DEF m
  <2>3. ModeOK(req, m)
    BY <2>1, <2>2 DEF ModeOK, MInv
  <2>4. RRDMsgDeliver(m) /\ UNCHANGED <<req, blobs, pc, cur, cache>>
    BY <1>2 DEF RdmEventDeliver, threadVars, m
  <2>5. \A k \in DOMAIN queue' : (k \in DOMAIN queue /\ queue'[k] = queue[k]) \/ queue'[k] = m
    BY <2>2, <2>4, DeliverProperties DEF TInv, TypeOK
  <2> QED BY <2>3, <2>4, <2>5 DEF MInv
<1>3. CASE RdmEventRemove
  BY <1>3 DEF RdmEventRemove, MInv, Drop, threadVars
<1>4. CASE RdmEventNoMemory
  BY <1>4 DEF RdmEventNoMemory, MInv, threadVars
<1> QED BY <1>1, <1>2, <1>3, <1>4 DEF RdmHandler

LEMMA NextMInv == TInv /\ MInv /\ [Next]_vars => MInv'
<1> SUFFICES ASSUME TInv, MInv, [Next]_vars PROVE MInv'
  OBVIOUS
<1>1. CASE \E list \in Lists, append \in BOOLEAN :
             IssueEvent(list, append) \/ WebCfgEvent(list, append)
  BY <1>1, IssueEventMInv
<1>2. CASE PowerEvent \/ PushBlob
  BY <1>2, PowerEventMInv, PushBlobMInv
<1>3. CASE EventThread
  BY <1>3, ReceiveMInv, DecodeWebCfgMInv, ThreadStepMInv, AppendItemMInv DEF EventThread
<1>4. CASE RdmHandler
  BY <1>4, HandlerMInv
<1>5. CASE Rdm \/ \E p \in Pkg : RdmProgress(p)
  BY <1>5 DEF Rdm, RdmFinish, RdmProgress, MInv, threadVars
<1>6. CASE UNCHANGED vars
  BY <1>6 DEF vars, MInv
<1> QED BY <1>1, <1>2, <1>3, <1>4, <1>5, <1>6 DEF Next

\* The append mode a controller asked for reaches the event thread on every
\* path: directly, through a web configuration document, or through the
\* "_apnd" the cache keeps while a package is fetched.
THEOREM ModeIsPreserved == Spec => []ModePreserved
<1>1. Init => MInv
  BY DEF Init, MInv, ModeOK, NoMessage
<1>2. MInv => ModePreserved
  BY DEF MInv, ModePreserved, ModeOK
<1> QED BY <1>1, <1>2, TInvAlways, NextMInv, PTL DEF Spec
-----------------------------------------------------------------------------
(***************************************************************************)
(* Completion events of the IARM build.  AnsweredWhenInstalled follows the *)
(* package from RDM's event to the cache entry, the pointer the handler    *)
(* holds and the message it sends.                                         *)
(***************************************************************************)
\* p is the package the request numbered r may wait for.
PkgFor(rq, r, p) == p = rq[r].node \/ (p = DeepSleepPkg /\ rq[r].node = DeepSleep)

AnswerOK(rq, inst, m) ==
  /\ m.pkg # NoPkg => /\ m.pkg \in inst
                      /\ \A k \in DOMAIN m.toks : PkgFor(rq, m.toks[k].req, m.pkg)
  /\ m.kind = "sleepInit" => \A k \in DOMAIN m.toks : rq[m.toks[k].req].node = DeepSleep

AInv ==
  /\ \A k \in DOMAIN queue : AnswerOK(req, installed, queue[k])
  /\ AnswerOK(req, installed, cur)
  /\ \A e \in cache : PkgFor(req, e.req, e.pkg)
  /\ \A k \in DOMAIN events : events[k].ok => events[k].pkg \in installed
  /\ hpc = "deliver" => hent.pkg \in installed

\* Neither a request once made nor an installed package goes away.
LEMMA AnswerStable ==
  ASSUME NEW rq, NEW rr, \A i \in DOMAIN rq : rr[i] = rq[i],
         NEW inst, NEW more, inst \subseteq more,
         NEW m, \A k \in DOMAIN m.toks : m.toks[k].req \in DOMAIN rq,
         AnswerOK(rq, inst, m)
  PROVE  AnswerOK(rr, more, m)
  BY DEF AnswerOK, PkgFor

\* A step that makes requests and sends one message that says nothing wrong
\* about packages preserves the invariant.
LEMMA AInvGrows ==
  ASSUME TInv, AInv, \A i \in DOMAIN req : req'[i] = req[i],
         NEW m, AnswerOK(req', installed, m),
         \A k \in DOMAIN queue' : (k \in DOMAIN queue /\ queue'[k] = queue[k]) \/ queue'[k] = m,
         UNCHANGED <<cur, cache, events, installed, hpc, hent>>
  PROVE  AInv'
<1>1. ASSUME NEW k \in DOMAIN queue' PROVE AnswerOK(req', installed', queue'[k])
  <2>1. CASE queue'[k] = m
    BY <2>1
  <2>2. CASE k \in DOMAIN queue /\ queue'[k] = queue[k]
    <3>1. /\ \A j \in DOMAIN queue[k].toks : queue[k].toks[j].req \in DOMAIN req
          /\ AnswerOK(req, installed, queue[k])
      BY <2>2 DEF AInv, TInv, QueueKnown, Known
    <3>2. AnswerOK(req', installed, queue[k])
      BY <3>1, AnswerStable
    <3> QED BY <2>2, <3>2
  <2> QED BY <2>1, <2>2
<1>2. AnswerOK(req', installed', cur')
  <2>1. AnswerOK(req', installed, cur)
    BY AnswerStable DEF AInv, TInv, CurKnown, Known
  <2> QED BY <2>1
<1>3. \A e \in cache' : PkgFor(req', e.req, e.pkg)
  BY DEF AInv, TInv, CacheKnown, PkgFor
<1> QED BY <1>1, <1>2, <1>3 DEF AInv

LEMMA IssueEventAInv ==
  ASSUME TInv, AInv, NEW list \in Lists, NEW append \in BOOLEAN,
         IssueEvent(list, append) \/ WebCfgEvent(list, append)
  PROVE  AInv'
<1> USE DEF TInv, TypeOK
<1> DEFINE toks == AskedTokens(list)
<1>1. Ask(list, append) /\ UNCHANGED <<cur, cache, events, installed, hpc, hent>>
  BY DEF IssueEvent, WebCfgEvent, threadVars, rdmVars, handlerVars
<1>2. toks \in Seq(Token)
  BY <1>1, AskedTokensProperties DEF TypeRequests, Ask
<1>3. \A i \in DOMAIN req : req'[i] = req[i]
  BY <1>1, AskProperties DEF TypeRequests
<1> HIDE DEF toks
<1>4. PICK m \in Message : RRDMsgDeliver(m) /\ m.pkg = NoPkg /\ m.kind # "sleepInit"
  <2>1. CASE IssueEvent(list, append)
    <3> DEFINE m == IssueMessage(toks, append)
    <3>1. RRDMsgDeliver(m)
      BY <2>1 DEF IssueEvent, toks
    <3>2. m \in Message /\ m.pkg = NoPkg /\ m.kind # "sleepInit"
      BY <1>2 DEF IssueMessage, Message, Kind
    <3> HIDE DEF m
    <3> QED BY <3>1, <3>2
  <2>2. CASE WebCfgEvent(list, append)
    <3> DEFINE m == [IssueMessage(toks, FALSE) EXCEPT !.kind = "webcfg"]
    <3>1. RRDMsgDeliver(m)
      BY <2>2 DEF WebCfgEvent, toks
    <3>2. m \in Message /\ m.pkg = NoPkg /\ m.kind # "sleepInit"
      BY <1>2 DEF IssueMessage, Message, Kind
    <3> HIDE DEF m
    <3> QED BY <3>1, <3>2
  <2> QED BY <2>1, <2>2
<1>5. \A k \in DOMAIN queue' : (k \in DOMAIN queue /\ queue'[k] = queue[k]) \/ queue'[k] = m
  BY <1>4, DeliverProperties
<1>6. AnswerOK(req', installed, m)
  BY <1>4 DEF AnswerOK
<1> QED BY <1>1, <1>3, <1>5, <1>6, AInvGrows

LEMMA PowerEventAInv ==
  ASSUME TInv, AInv, PowerEvent
  PROVE  AInv'
<1> USE DEF TInv, TypeOK, PowerEvent
<1> DEFINE q == [node |-> DeepSleep, sub |-> NoSub, sfx |-> FALSE, append |-> FALSE]
           t == [req |-> Len(req) + 1, sfx |-> FALSE]
           s == <<t>>
           m == [IssueMessage(s, FALSE) EXCEPT !.kind = "sleepInit"]
<1>1. req \in Seq(Request) /\ Len(req) \in Nat /\ Len(req) + 1 \in Req
  BY ConstantsAssumption DEF TypeRequests, Req
<1>2. q \in Request /\ q.node = DeepSleep
  BY ConstantsAssumption DEF Request
<1>3. t \in Token /\ t.req = Len(req) + 1
  BY <1>1 DEF Token
<1>4. /\ req' = Append(req, q) /\ RRDMsgDeliver(m)
      /\ UNCHANGED <<cur, cache, events, installed, hpc, hent>>
  BY DEF threadVars, rdmVars, handlerVars
<1> HIDE DEF q, t
<1>5. s \in Seq(Token) /\ \A k \in DOMAIN s : s[k] = t
  BY <1>3, SingletonSeq
<1> HIDE DEF s
<1>6. m \in Message /\ m.toks = s /\ m.pkg = NoPkg
  BY <1>5 DEF IssueMessage, Message, Kind
<1> HIDE DEF m
<1>7. (\A i \in DOMAIN req : req'[i] = req[i]) /\ req'[Len(req) + 1] = q
  BY <1>1, <1>2, <1>4
<1>8. AnswerOK(req', installed, m)
  BY <1>2, <1>3, <1>5, <1>6, <1>7 DEF AnswerOK
<1>9. \A k \in DOMAIN queue' : (k \in DOMAIN queue /\ queue'[k] = queue[k]) \/ queue'[k] = m
  BY <1>4, <1>6, DeliverProperties
<1> HIDE DEF TInv, PowerEvent
<1> QED BY <1>4, <1>7, <1>8, <1>9, AInvGrows

LEMMA PushBlobAInv ==
  ASSUME TInv, AInv, PushBlob
  PROVE  AInv'
<1> DEFINE m == IssueMessage(Head(blobs), req[Head(blobs)[1].req].append)
<1>1. /\ queue' = Append(queue, m) /\ queue \in Seq(Message)
      /\ UNCHANGED <<req, cur, cache, events, installed, hpc, hent>>
  BY DEF PushBlob, RRDMsgDeliver, threadVars, rdmVars, handlerVars, TInv, TypeOK, TypeQueue
<1>2. AnswerOK(req, installed, m)
  BY DEF AnswerOK, IssueMessage
<1> HIDE DEF m
<1>3. \A k \in DOMAIN queue' : (k \in DOMAIN queue /\ queue'[k] = queue[k]) \/ queue'[k] = m
  BY <1>1
<1> QED BY <1>1, <1>2, <1>3 DEF AInv

LEMMA ReceiveAInv ==
  ASSUME TInv, AInv, Receive
  PROVE  AInv'
<1>1. /\ Head(queue) = queue[1] /\ 1 \in DOMAIN queue
      /\ \A i \in DOMAIN Tail(queue) : i + 1 \in DOMAIN queue /\ Tail(queue)[i] = queue[i + 1]
  BY HeadTail DEF Receive, TInv, TypeOK, TypeQueue
<1> QED BY <1>1 DEF AInv, Receive, rdmVars, handlerVars

\* The steps of the event thread that touch neither the cache nor the queue.
LEMMA ThreadStepAInv ==
  ASSUME TInv, AInv,
         \/ DecodeWebCfg \/ ProcessIssueType \/ CheckIssueNodeInfo \/ RdmRefused \/ RdmAccepted
         \/ AppendItemFails
  PROVE  AInv'
<1>1. UNCHANGED <<req, queue, cur, cache, events, installed, hpc, hent>>
  BY DEF DecodeWebCfg, ProcessIssueType, CheckIssueNodeInfo, RdmRefused, RdmAccepted,
         AppendItemFails, NextToken, rdmVars, handlerVars
<1> QED BY <1>1 DEF AInv

LEMMA AppendItemAInv ==
  ASSUME TInv, AInv, AppendItem
  PROVE  AInv'
<1> DEFINE e == [stamp |-> stamp, pkg |-> CurPkg, req |-> CurReq, append |-> cur.append]
<1>1. /\ cache' = cache \union {e}
      /\ UNCHANGED <<req, queue, cur, events, installed, hpc, hent>>
  BY DEF AppendItem, NextToken, Push, rdmVars, handlerVars
<1>2. PkgFor(req, CurReq, CurPkg)
  <2>1. idx \in DOMAIN cur.toks
    BY DEF AppendItem, TInv, CurKnown
  <2> QED BY <2>1 DEF AInv, AnswerOK, PkgFor, CurPkg, CurReq
<1>3. PkgFor(req, e.req, e.pkg)
  BY <1>2
<1> HIDE DEF e
<1> QED BY <1>1, <1>3 DEF AInv

LEMMA RdmFinishAInv ==
  ASSUME TInv, AInv, NEW p \in Pkg, NEW ok \in BOOLEAN, RdmFinish(p, ok)
  PROVE  AInv'
<1> DEFINE ev == [pkg |-> p, ok |-> ok]
<1>1. /\ events \in Seq([pkg : Pkg, ok : BOOLEAN]) /\ ev \in [pkg : Pkg, ok : BOOLEAN]
      /\ events' = Append(events, ev) /\ installed \subseteq installed'
      /\ ok => p \in installed'
      /\ UNCHANGED <<req, queue, cur, cache, hpc, hent>>
  BY DEF RdmFinish, TInv, TypeOK, TypeRdm, threadVars, handlerVars
<1>2. ev.pkg = p /\ ev.ok = ok
  OBVIOUS
<1> HIDE DEF ev
<1>3. \A k \in DOMAIN events' : (k \in DOMAIN events /\ events'[k] = events[k]) \/ events'[k] = ev
  BY <1>1, AppendElements
<1>4. \A k \in DOMAIN events' : events'[k].ok => events'[k].pkg \in installed'
  BY <1>1, <1>2, <1>3 DEF AInv
<1>5. ASSUME NEW k \in DOMAIN queue PROVE AnswerOK(req, installed', queue[k])
  <2>1. AnswerOK(req, installed, queue[k])
    BY DEF AInv
  <2> QED BY <1>1, <2>1 DEF AnswerOK
<1>6. AnswerOK(req, installed', cur)
  <2>1. AnswerOK(req, installed, cur)
    BY DEF AInv
  <2> QED BY <1>1, <2>1 DEF AnswerOK
<1> QED BY <1>1, <1>4, <1>5, <1>6 DEF AInv

LEMMA RdmProgressAInv ==
  ASSUME TInv, AInv, NEW p \in Pkg, RdmProgress(p)
  PROVE  AInv'
<1> DEFINE ev == [pkg |-> p, ok |-> FALSE]
<1>1. /\ events \in Seq([pkg : Pkg, ok : BOOLEAN]) /\ ev \in [pkg : Pkg, ok : BOOLEAN]
      /\ events' = Append(events, ev) /\ ~ev.ok
      /\ UNCHANGED <<req, queue, cur, cache, installed, hpc, hent>>
  BY DEF RdmProgress, TInv, TypeOK, TypeRdm, threadVars, handlerVars
<1> HIDE DEF ev
<1>2. \A k \in DOMAIN events' : (k \in DOMAIN events /\ events'[k] = events[k]) \/ events'[k] = ev
  BY <1>1, AppendElements
<1> QED BY <1>1, <1>2 DEF AInv

\* The RDM callback of the IARM build.
LEMMA HandlerAInv ==
  ASSUME TInv, AInv, RdmHandler, IarmBus
  PROVE  AInv'
<1>1. CASE RdmEventFind
  <2>1. /\ Head(events) = events[1] /\ 1 \in DOMAIN events
        /\ \A i \in DOMAIN Tail(events) : i + 1 \in DOMAIN events /\ Tail(events)[i] = events[i + 1]
    BY <1>1, HeadTail DEF RdmEventFind, TInv, TypeOK, TypeRdm
  <2>2. hpc' = "deliver" => hent'.pkg \in installed
    <3>1. CASE /\ Matching(cache, HeardPkg) # {}
               /\ hent' = Newest(cache, HeardPkg)
               /\ hpc' = IF HeardOk THEN "deliver" ELSE "fail"
      <4>1. hent'.pkg = Head(events).pkg
        BY <3>1, FoundProperties DEF HeardPkg
      <4> QED BY <2>1, <3>1, <4>1 DEF AInv, HeardOk
    <3>2. CASE UNCHANGED handlerVars
      BY <3>2 DEF AInv, handlerVars
    <3> QED BY <1>1, <3>1, <3>2 DEF RdmEventFind
  <2>3. /\ events' = Tail(events)
        /\ UNCHANGED <<req, queue, cur, cache, installed>>
    BY <1>1 DEF RdmEventFind, threadVars
  <2> QED BY <2>1, <2>2, <2>3 DEF AInv
<1>2. CASE RdmEventDeliver
  <2> DEFINE m == CompletionMessage(hent)
  <2>1. hent \in cache /\ hent \in Entry /\ hpc = "deliver"
    BY <1>2 DEF TInv, TypeOK, TypeCache, HeldEntryLive, RdmEventDeliver
  <2>2. /\ m \in Message /\ m.kind # "sleepInit" /\ m.pkg = hent.pkg
        /\ \A k \in DOMAIN m.toks : m.toks[k].req = hent.req
    BY <2>1, CompletionProperties
  <2> HIDE DEF m
  <2>3. AnswerOK(req, installed, m)
    BY <2>1, <2>2 DEF AnswerOK, AInv
  <2>4. RRDMsgDeliver(m) /\ hpc' = "remove" /\ UNCHANGED <<req, cur, cache, events, installed>>
    BY <1>2 DEF RdmEventDeliver, threadVars, rdmVars, m
  <2>5. \A k \in DOMAIN queue' : (k \in DOMAIN queue /\ queue'[k] = queue[k]) \/ queue'[k] = m
    BY <2>2, <2>4, DeliverProperties DEF TInv, TypeOK
  <2> QED BY <2>3, <2>4, <2>5 DEF AInv
<1>3. CASE RdmEventRemove
  BY <1>3 DEF RdmEventRemove, AInv, Drop, threadVars, rdmVars
<1>4. CASE RdmEventNoMemory
  BY <1>4 DEF RdmEventNoMemory, AInv, threadVars, rdmVars
<1> QED BY <1>1, <1>2, <1>3, <1>4 DEF RdmHandler

LEMMA NextAInv ==
  ASSUME IarmBus
  PROVE  TInv /\ AInv /\ [Next]_vars => AInv'
<1> SUFFICES ASSUME TInv, AInv, [Next]_vars PROVE AInv'
  OBVIOUS
<1>1. CASE \E list \in Lists, append \in BOOLEAN :
             IssueEvent(list, append) \/ WebCfgEvent(list, append)
  BY <1>1, IssueEventAInv
<1>2. CASE PowerEvent \/ PushBlob
  BY <1>2, PowerEventAInv, PushBlobAInv
<1>3. CASE EventThread
  BY <1>3, ReceiveAInv, ThreadStepAInv, AppendItemAInv DEF EventThread
<1>4. CASE RdmHandler
  BY <1>4, HandlerAInv
<1>5. CASE Rdm
  BY <1>5, RdmFinishAInv DEF Rdm
<1>6. CASE \E p \in Pkg : RdmProgress(p)
  BY <1>6, RdmProgressAInv
<1>7. CASE UNCHANGED vars
  BY <1>7 DEF vars, AInv
<1> QED BY <1>1, <1>2, <1>3, <1>4, <1>5, <1>6, <1>7 DEF Next

\* In the IARM build a completion message is sent only for an installed
\* package, and only to a request that waits for that package: an event
\* about one package never answers a request for another.
THEOREM AnsweredOnlyWhenInstalled ==
  ASSUME IarmBus
  PROVE  Spec => []AnsweredWhenInstalled
<1>1. Init => AInv
  BY DEF Init, AInv, AnswerOK, NoMessage
<1>2. AInv => AnsweredWhenInstalled
  BY DEF AInv, AnsweredWhenInstalled, AnswerOK, PkgFor
<1>3. TInv /\ AInv /\ [Next]_vars => AInv'
  BY NextAInv
<1> QED BY <1>1, <1>2, <1>3, TInvAlways, PTL DEF Spec
=============================================================================
