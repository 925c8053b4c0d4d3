-------------------------- MODULE GpuProxyMatching --------------------------
(***************************************************************************)
(* TLAPS proof that send_and_wait returns the answer to its own request   *)
(* (ResponseMatchesRequest) for a shim whose calls all number their       *)
(* requests with idm_build_message, until the application first restarts.*)
(*                                                                         *)
(* Two things break it, and both are out of the theorem's hypotheses:     *)
(* cuMemcpyHtoD sends every request with seq_num 1 (run proxy_h2d_seq),   *)
(* and a restarted application starts again at next_seq = 1 while the     *)
(* responses to its predecessor's calls may still be in the ring.         *)
(*                                                                         *)
(* The argument: every message carries the seq_num of the request it      *)
(* belongs to and the ghost id of that call.  No seq_num is used for two  *)
(* calls, because next_seq only grows and every seq_num in flight is      *)
(* below it; so matching a response to the waiting call by request_seq    *)
(* finds a response of that very call.                                    *)
(***************************************************************************)
EXTENDS GpuProxyStable

(* The seq_num-to-call bindings of the request send_and_wait waits for,  *)
(* of the requests in the user->driver ring, and of the responses in the *)
(* driver->user ring.                                                    *)
ReqSeqs == {<<tx[k].seq, tx[k].rid>> : k \in 1 .. Len(tx)}

RespSeqs == {<<rx[k].rseq, rx[k].rid>> : k \in 1 .. Len(rx)}

SeqBindings == {<<creq.seq, creq.rid>>} \cup ReqSeqs \cup RespSeqs

(* No seq_num in flight belongs to two calls. *)
SeqFunctional == \A a, b \in SeqBindings : a[1] = b[1] => a[2] = b[2]

(* Every seq_num in flight was taken from next_seq before. *)
SeqIssued == \A a \in SeqBindings : a[1] \in 0 .. cseq - 1

(* The inductive invariant. *)
MatchInv ==
    /\ StableInv
    /\ restarts["client"] = 0 => SeqFunctional /\ SeqIssued

(* A step keeps the bindings and next_seq. *)
SeqKept == SeqBindings' \subseteq SeqBindings /\ cseq' = cseq

(* A call takes seq_num next_seq for call number calls + 1. *)
SeqGrown ==
    /\ SeqBindings' \subseteq SeqBindings \cup {<<cseq, calls + 1>>}
    /\ cseq' = cseq + 1

-----------------------------------------------------------------------------
(* A reply adds at most the binding the response carries. *)
LEMMA ReplySeqs ==
    ASSUME NEW resp, rx \in Seq(Response), Reply(resp)
    PROVE  RespSeqs' \subseteq RespSeqs \cup {<<resp.rseq, resp.rid>>}
<1>1. CASE rx' = Append(rx, resp)
  <2>1. /\ Len(rx') = Len(rx) + 1
        /\ \A k \in 1 .. Len(rx) : rx'[k] = rx[k]
        /\ rx'[Len(rx) + 1] = resp
    BY <1>1
  <2>. QED
    BY <2>1 DEF RespSeqs
<1>2. CASE UNCHANGED rx
  BY <1>2 DEF RespSeqs
<1>. QED
  BY <1>1, <1>2 DEF Reply

(* send_response_ok and send_response_error copy the request's seq_num  *)
(* into request_seq.                                                     *)
LEMMA RespOfRequest ==
    ASSUME NEW req, NEW e, NEW h, NEW p
    PROVE  /\ ErrResp(req, e).rseq = req.seq /\ ErrResp(req, e).rid = req.rid
           /\ OkResp(req, h, p).rseq = req.seq /\ OkResp(req, h, p).rid = req.rid
BY DEF ErrResp, OkResp

(* Taking the head of a ring keeps the rest of its bindings. *)
LEMMA TailSeqs ==
    ASSUME NEW S, NEW s \in Seq(S), s # <<>>
    PROVE  /\ {<<Tail(s)[k].seq, Tail(s)[k].rid>> : k \in 1 .. Len(Tail(s))}
                \subseteq {<<s[k].seq, s[k].rid>> : k \in 1 .. Len(s)}
           /\ {<<Tail(s)[k].rseq, Tail(s)[k].rid>> : k \in 1 .. Len(Tail(s))}
                \subseteq {<<s[k].rseq, s[k].rid>> : k \in 1 .. Len(s)}
           /\ Head(s) = s[1] /\ 1 \in 1 .. Len(s)
<1>1. /\ Len(Tail(s)) = Len(s) - 1
      /\ \A k \in 1 .. Len(Tail(s)) : Tail(s)[k] = s[k + 1]
      /\ Head(s) = s[1] /\ 1 \in 1 .. Len(s)
  BY HeadTailProperties
<1>2. \A k \in 1 .. Len(Tail(s)) : k + 1 \in 1 .. Len(s)
  BY <1>1
<1>. QED
  BY <1>1, <1>2

(* A handler takes its request off the user->driver ring and answers it, *)
(* or sends nothing.                                                      *)
LEMMA HandlerSeqs ==
    ASSUME tx \in Seq(Request), rx \in Seq(Response), NEW t, Dispatch(t),
           \/ \E resp : /\ resp.rseq = Head(tx).seq /\ resp.rid = Head(tx).rid
                        /\ Reply(resp)
           \/ UNCHANGED rx,
           UNCHANGED <<creq, cseq>>
    PROVE  SeqKept
<1>1. /\ ReqSeqs' \subseteq ReqSeqs
      /\ <<Head(tx).seq, Head(tx).rid>> \in ReqSeqs
  BY TailSeqs DEF Dispatch, ReqSeqs
<1>2. RespSeqs' \subseteq RespSeqs \cup {<<Head(tx).seq, Head(tx).rid>>}
  <2>1. CASE UNCHANGED rx
    BY <2>1 DEF RespSeqs
  <2>2. CASE \E resp : /\ resp.rseq = Head(tx).seq /\ resp.rid = Head(tx).rid
                       /\ Reply(resp)
    BY <2>2, ReplySeqs
  <2>. QED
    BY <2>1, <2>2
<1>. QED
  BY <1>1, <1>2 DEF SeqKept, SeqBindings

(* Every handler of the driver loop answers the request it took, with  *)
(* that request's seq_num, or not at all.                                 *)
LEMMA DriverSeqs ==
    ASSUME IInv,
           \/ DriverAlloc \/ DriverFree \/ DriverCopyH2D \/ DriverCopyD2H
           \/ DriverSync \/ DriverIgnore
    PROVE  SeqKept
<1> DEFINE req == Head(tx)
           Answers == \E resp : /\ resp.rseq = req.seq /\ resp.rid = req.rid
                                /\ Reply(resp)
<1>1. tx \in Seq(Request) /\ rx \in Seq(Response)
  BY DEF IInv, ProxyTypeOK
<1>2. \A e : Reply(ErrResp(req, e)) => Answers
  BY RespOfRequest
<1>3. \A h, p : Reply(OkResp(req, h, p)) => Answers
  BY RespOfRequest
<1>4. CASE DriverAlloc
  <2>1. Answers
    BY <1>2, <1>3, <1>4 DEF DriverAlloc
  <2>. QED
    BY <1>1, <1>4, <2>1, HandlerSeqs DEF DriverAlloc, clientVars
<1>5. CASE DriverFree
  <2>1. Answers
    BY <1>2, <1>3, <1>5 DEF DriverFree
  <2>. QED
    BY <1>1, <1>5, <2>1, HandlerSeqs DEF DriverFree, clientVars
<1>6. CASE DriverCopyH2D \/ DriverCopyD2H
  <2>1. \E b \in BOOLEAN : CopyReply(req, b)
    BY <1>6 DEF DriverCopyH2D, DriverCopyD2H
  <2>2. Answers
    BY <1>2, <1>3, <2>1 DEF CopyReply
  <2>. QED
    BY <1>1, <1>6, <2>2, HandlerSeqs DEF DriverCopyH2D, DriverCopyD2H,
                                         clientVars
<1>7. CASE DriverSync
  <2>1. Answers
    BY <1>2, <1>3, <1>7 DEF DriverSync
  <2>. QED
    BY <1>1, <1>7, <2>1, HandlerSeqs DEF DriverSync, clientVars
<1>8. CASE DriverIgnore
  BY <1>1, <1>8, HandlerSeqs DEF DriverIgnore, clientVars
<1>. QED
  BY <1>4, <1>5, <1>6, <1>7, <1>8

(* A driver restart empties both rings. *)
LEMMA DriverRestartSeqs ==
    ASSUME DriverRestart
    PROVE  SeqKept
BY DEF DriverRestart, clientVars, SeqKept, SeqBindings, ReqSeqs, RespSeqs

(* Every call of the shim but cuMemcpyHtoD numbers its request with     *)
(* next_seq.                                                              *)
LEMMA CallSeq ==
    ASSUME NEW op \in ClientOps, "H2D" \notin ClientOps,
           NEW req \in CallRequests(op)
    PROVE  req.seq = cseq /\ req.rid = calls + 1
<1> DEFINE Msg(h, o, s) ==
             [type |-> op, seq |-> IF op = "H2D" THEN 1 ELSE cseq,
              zone |-> ClientZone, handle |-> h, off |-> o, size |-> s,
              rid |-> calls + 1]
<1>1. \A h, o, s : Msg(h, o, s).seq = cseq /\ Msg(h, o, s).rid = calls + 1
  OBVIOUS
<1>2. \E h, o, s : req = Msg(h, o, s)
  <2>1. CASE op = "ALLOC"
    BY <2>1 DEF CallRequests
  <2>2. CASE op = "SYNC"
    BY <2>2 DEF CallRequests
  <2>3. CASE op = "FREE"
    BY <2>3 DEF CallRequests
  <2>4. CASE op \notin {"ALLOC", "SYNC", "FREE"}
    BY <2>4 DEF CallRequests
  <2>. QED
    BY <2>1, <2>2, <2>3, <2>4
<1>. QED
  BY <1>1, <1>2

(* A call takes seq_num next_seq, or fails before building its message. *)
LEMMA ClientCallSeqs ==
    ASSUME IInv, "H2D" \notin ClientOps, ClientCall
    PROVE  SeqKept \/ SeqGrown
<1>0. PICK op \in ClientOps : \E req \in CallRequests(op) :
        /\ \/ /\ BackendFails
              /\ cres' = "OUT_OF_MEMORY"
              /\ UNCHANGED <<tx, cpc, creq, attempts, cseq>>
           \/ /\ cseq' = IF op = "H2D" THEN cseq ELSE cseq + 1
              /\ SendRequest(req)
        /\ UNCHANGED rx
  BY DEF ClientCall
<1>1. PICK req \in CallRequests(op) :
        /\ \/ /\ BackendFails
              /\ cres' = "OUT_OF_MEMORY"
              /\ UNCHANGED <<tx, cpc, creq, attempts, cseq>>
           \/ /\ cseq' = IF op = "H2D" THEN cseq ELSE cseq + 1
              /\ SendRequest(req)
        /\ UNCHANGED rx
  BY <1>0
<1>2. req.seq = cseq /\ req.rid = calls + 1
  BY CallSeq
<1>3. CASE UNCHANGED <<tx, creq, cseq>>
  BY <1>1, <1>3 DEF SeqKept, SeqBindings, ReqSeqs, RespSeqs
<1>4. CASE cseq' = cseq + 1 /\ SendRequest(req)
  <2>1. CASE tx' = Append(tx, req) /\ creq' = req
    <3>1. /\ Len(tx') = Len(tx) + 1
          /\ \A k \in 1 .. Len(tx) : tx'[k] = tx[k]
          /\ tx'[Len(tx) + 1] = req
      BY <2>1 DEF IInv, ProxyTypeOK
    <3>2. ReqSeqs' \subseteq ReqSeqs \cup {<<cseq, calls + 1>>}
      BY <1>2, <3>1 DEF ReqSeqs
    <3>. QED
      BY <1>1, <1>2, <1>4, <2>1, <3>2 DEF SeqGrown, SeqBindings, RespSeqs
  <2>2. CASE UNCHANGED <<tx, creq>>
    BY <1>1, <1>4, <2>2 DEF SeqGrown, SeqBindings, ReqSeqs, RespSeqs
  <2>. QED
    BY <1>4, <2>1, <2>2 DEF SendRequest
<1>. QED
  BY <1>1, <1>3, <1>4

(* send_and_wait takes the head of the driver->user ring, or waits. *)
LEMMA RecvSeqs ==
    ASSUME IInv, RecvMatch \/ RecvDiscard \/ RecvTimeout \/ GiveUp
    PROVE  SeqKept
<1>1. UNCHANGED <<tx, creq, cseq>>
  BY DEF RecvMatch, RecvDiscard, RecvTimeout, GiveUp
<1>2. RespSeqs' \subseteq RespSeqs
  <2>1. CASE RecvMatch \/ RecvDiscard
    <3>1. rx \in Seq(Response) /\ rx # <<>> /\ rx' = Tail(rx)
      BY <2>1 DEF IInv, ProxyTypeOK, RecvMatch, RecvDiscard
    <3>. QED
      BY <3>1, TailSeqs DEF RespSeqs
  <2>2. CASE RecvTimeout \/ GiveUp
    BY <2>2 DEF RecvTimeout, GiveUp, RespSeqs
  <2>. QED
    BY <2>1, <2>2
<1>. QED
  BY <1>1, <1>2 DEF SeqKept, SeqBindings, ReqSeqs

(* Before the application's first restart, a step keeps the bindings or *)
(* is a call taking next_seq.                                            *)
LEMMA SeqStep ==
    ASSUME IInv, "H2D" \notin ClientOps, [Next]_proxyVars, ~ClientRestart
    PROVE  SeqKept \/ SeqGrown
<1>1. CASE UNCHANGED proxyVars
  BY <1>1 DEF proxyVars, SeqKept, SeqBindings, ReqSeqs, RespSeqs
<1>. QED
  BY <1>1, DriverSeqs, DriverRestartSeqs, ClientCallSeqs, RecvSeqs DEF Next

(* MatchInv is inductive. *)
LEMMA MatchInvNext ==
    ASSUME NoWrap, "H2D" \notin ClientOps, MatchInv, [Next]_proxyVars
    PROVE  MatchInv'
<1>1. StableInv'
  BY StableInvNext DEF MatchInv
<1>2. SUFFICES ASSUME restarts'["client"] = 0
               PROVE  SeqFunctional' /\ SeqIssued'
  BY <1>1 DEF MatchInv
<1>3. ~ClientRestart /\ restarts["client"] = 0
  BY <1>2, RestartsStep DEF MatchInv, StableInv
<1>4. /\ SeqFunctional /\ SeqIssued /\ cseq \in Nat /\ IInv
  BY <1>3 DEF MatchInv, StableInv, IInv, ProxyTypeOK
<1>5. CASE SeqKept
  BY <1>4, <1>5 DEF SeqKept, SeqFunctional, SeqIssued
<1>6. CASE SeqGrown
  <2>1. /\ \A a, b \in SeqBindings' : a[1] = b[1] => a[2] = b[2]
        /\ \A a \in SeqBindings' : a[1] \in 0 .. cseq
    BY <1>4, <1>6, BindingsExtend DEF SeqGrown, SeqFunctional, SeqIssued
  <2>2. 0 .. cseq = 0 .. cseq' - 1
    BY <1>4, <1>6 DEF SeqGrown
  <2>. QED
    BY <2>1, <2>2 DEF SeqFunctional, SeqIssued
<1>7. SeqKept \/ SeqGrown
  BY <1>3, <1>4, SeqStep
<1>. QED
  BY <1>5, <1>6, <1>7

LEMMA MatchInvInit == Init => MatchInv
<1> SUFFICES ASSUME Init PROVE MatchInv
  OBVIOUS
<1>1. StableInv
  BY StableInvInit
<1>2. SeqBindings = {<<0, 0>>} /\ cseq = 1
  BY DEF Init, NoRequest, SeqBindings, ReqSeqs, RespSeqs
<1>. QED
  BY <1>1, <1>2 DEF MatchInv, SeqFunctional, SeqIssued

LEMMA MatchInvAlways ==
    ASSUME NoWrap, "H2D" \notin ClientOps
    PROVE  Spec => []MatchInv
BY MatchInvInit, MatchInvNext, PTL DEF Spec

-----------------------------------------------------------------------------
(* The answer send_and_wait returns, when its request_seq equals the     *)
(* seq_num of the waiting request, is the driver's answer to that very   *)
(* call and not to an earlier one that timed out, whatever the           *)
(* interleaving of calls, timeouts, lost responses, failed backend calls  *)
(* and driver restarts, as long as the shim numbers every request with    *)
(* idm_build_message (no cuMemcpyHtoD) and the application has not       *)
(* restarted.                                                             *)
THEOREM ResponsesMatchUntilRestart ==
    ASSUME NoWrap, "H2D" \notin ClientOps
    PROVE  Spec => [][restarts["client"] = 0 /\ RecvMatch
                        => Head(rx).rid = creq.rid]_proxyVars
<1>1. MatchInv => (restarts["client"] = 0 /\ RecvMatch
                      => Head(rx).rid = creq.rid)
  <2>1. SUFFICES ASSUME MatchInv, restarts["client"] = 0, RecvMatch
                 PROVE  Head(rx).rid = creq.rid
    OBVIOUS
  <2>2. rx \in Seq(Response) /\ rx # <<>> /\ Head(rx).rseq = creq.seq
    BY <2>1 DEF MatchInv, StableInv, IInv, ProxyTypeOK, RecvMatch
  <2>3. <<Head(rx).rseq, Head(rx).rid>> \in SeqBindings
    BY <2>2, TailSeqs DEF SeqBindings, RespSeqs
  <2>4. <<creq.seq, creq.rid>> \in SeqBindings
    BY DEF SeqBindings
  <2>. QED
    BY <2>1, <2>2, <2>3, <2>4 DEF MatchInv, SeqFunctional
<1>. QED
  BY <1>1, MatchInvAlways, PTL

(* When the application never restarts (as in run proxy_safety), every   *)
(* matched response answers the waiting call.                             *)
THEOREM ResponsesMatch ==
    ASSUME NoWrap, "H2D" \notin ClientOps, MaxClientRestarts = 0
    PROVE  Spec => ResponseMatchesRequest
<1>1. MatchInv => restarts["client"] = 0
  BY DEF MatchInv, StableInv, RestartsTyped
<1>. QED
  BY <1>1, ResponsesMatchUntilRestart, MatchInvAlways, PTL
     DEF ResponseMatchesRequest

====
