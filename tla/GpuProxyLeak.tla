---------------------------- MODULE GpuProxyLeak ----------------------------
(***************************************************************************)
(* The proxy when nothing goes wrong: the driver answers every call      *)
(* before send_and_wait gives up, no CUDA or malloc call fails and        *)
(* neither process restarts.  The first part builds the invariant LeakInv:*)
(* the application has at most one call in flight, every response it     *)
(* reads is the answer to that call, and every allocation the driver      *)
(* holds stays reachable (its handle is in the application's map, or in   *)
(* the OK answer the call waits for).  The second part uses it to prove   *)
(* that the proxy implements the remote service of GpuService.           *)
(***************************************************************************)
EXTENDS GpuProxyProofs, HandleTableRefinement

(* The environment of the run ProxyAnswers: no receive timeout, no failed *)
(* backend call, no restart.                                              *)
Quiet ==
    /\ ~ClientTimesOut
    /\ ~BackendFails
    /\ MaxDriverRestarts = 0
    /\ MaxClientRestarts = 0

(* The one call in flight has its request in the user->driver ring.      *)
Requested == tx = << creq >> /\ rx = << >>

(* The one call in flight has its answer in the driver->user ring: the   *)
(* answer carries the call's seq_num; only an OK answer to an ALLOC       *)
(* carries a handle; an OK answer to a FREE means the handle's entry is   *)
(* gone.                                                                  *)
Answered ==
    /\ tx = << >> /\ Len(rx) = 1
    /\ Head(rx).rid = creq.rid /\ Head(rx).rseq = creq.seq
    /\ Head(rx).handle # 0 => creq.type = "ALLOC" /\ Head(rx).type = "OK"
    /\ creq.type = "FREE" /\ Head(rx).type = "OK" => Found(creq.handle) = {}

(* A COPY_D2D, which the driver drops: the call waits forever. *)
Unanswered == tx = << >> /\ rx = << >> /\ creq.type = "D2D"

(* send_and_wait never overlaps itself, and never discards or times out. *)
OneCall ==
    /\ attempts = 0
    /\ restarts = [s \in {"driver", "client"} |-> 0]
    /\ cpc = "idle" => tx = << >> /\ rx = << >>
    /\ cpc = "wait" => Requested \/ Answered \/ Unanswered

LeakInv == IInv /\ OneCall /\ HandleLeakFree

-----------------------------------------------------------------------------
LEMMA LeakInit == Init => LeakInv
<1> SUFFICES ASSUME Init PROVE LeakInv
  OBVIOUS
<1>1. IInv
  BY InitInv
<1>2. OneCall
  BY DEF Init, OneCall
<1>3. HandleLeakFree
  BY DEF Init, HandleLeakFree
<1>. QED
  BY <1>1, <1>2, <1>3 DEF LeakInv

(* A step that leaves the table, frees at most, and keeps every table     *)
(* handle reachable keeps every allocation reachable.                     *)
LEMMA LeakKeep ==
    ASSUME HandleLeakFree, entries' = entries, dev' \subseteq dev,
           \A i \in 1 .. Len(entries) :
               Reachable(entries[i].handle) => Reachable(entries[i].handle)'
    PROVE  HandleLeakFree'
BY DEF HandleLeakFree

(* With an empty driver->user ring, only the application's map makes a   *)
(* handle reachable.                                                      *)
LEMMA ReachableIdle ==
    ASSUME rx = << >>, NEW h, Reachable(h)
    PROVE  h \in DOMAIN cmap
BY DEF Reachable

(* A step that leaves the table, the device memory and the application's  *)
(* map alone, taken while no response is queued, keeps every allocation   *)
(* reachable.                                                              *)
LEMMA MapKept ==
    ASSUME HandleLeakFree, rx = << >>, cmap' = cmap, entries' = entries,
           dev' \subseteq dev
    PROVE  HandleLeakFree'
<1>1. \A i \in 1 .. Len(entries) :
          Reachable(entries[i].handle) => Reachable(entries[i].handle)'
  BY DEF Reachable
<1>. QED
  BY <1>1, LeakKeep

(* A request in the user->driver ring is the call in flight, and the      *)
(* driver->user ring is empty.                                            *)
LEMMA InFlight ==
    ASSUME LeakInv, tx # << >>
    PROVE  cpc = "wait" /\ tx = << creq >> /\ rx = << >>
BY DEF LeakInv, IInv, ProxyTypeOK, OneCall, Requested, Answered, Unanswered

(* With no failing idm_send and an empty ring, the reply is queued. *)
LEMMA ReplyOne ==
    ASSUME Quiet, rx = << >>, NEW resp, Reply(resp)
    PROVE  rx' = << resp >>
BY ProxyAssumption DEF Quiet, Reply

(* The driver's answer to the call in flight becomes the one queued      *)
(* response, as Answered describes.                                       *)
LEMMA AnswerCall ==
    ASSUME OneCall, cpc = "wait", NEW resp,
           tx' = << >>, rx' = << resp >>, UNCHANGED <<clientVars, restarts>>,
           resp.rid = creq.rid, resp.rseq = creq.seq,
           resp.handle # 0 => creq.type = "ALLOC" /\ resp.type = "OK",
           creq.type = "FREE" /\ resp.type = "OK" => (Found(creq.handle) = {})'
    PROVE  OneCall'
BY DEF OneCall, Answered, clientVars

(* handle_gpu_copy_h2d and handle_gpu_copy_d2h answer the call without a *)
(* handle and change neither the table nor the device memory.             *)
LEMMA CopyLeak ==
    ASSUME LeakInv, Quiet, DriverCopyH2D \/ DriverCopyD2H
    PROVE  OneCall' /\ HandleLeakFree'
<1>1. cpc = "wait" /\ tx = << creq >> /\ rx = << >>
  BY InFlight DEF Dispatch, DriverCopyH2D, DriverCopyD2H
<1>2. /\ Head(tx) = creq /\ tx' = << >> /\ creq.type \in {"H2D", "D2H"}
      /\ CopyReply(Head(tx), FALSE) \/ CopyReply(Head(tx), TRUE)
      /\ UNCHANGED <<dev, nallocs, tableVars, clientVars, restarts>>
  <2>1. Head(tx) = creq
    BY <1>1
  <2>2. CASE DriverCopyH2D
    <3>1. Head(tx).type = "H2D" /\ tx' = Tail(tx)
      BY <2>2 DEF Dispatch, DriverCopyH2D
    <3>2. tx' = << >>
      BY <1>1, <3>1
    <3>3. CopyReply(Head(tx), FALSE)
      BY <2>2 DEF DriverCopyH2D
    <3>4. UNCHANGED <<dev, nallocs, tableVars, clientVars, restarts>>
      BY <2>2 DEF DriverCopyH2D
    <3>. QED
      BY <2>1, <3>1, <3>2, <3>3, <3>4
  <2>3. CASE DriverCopyD2H
    <3>1. Head(tx).type = "D2H" /\ tx' = Tail(tx)
      BY <2>3 DEF Dispatch, DriverCopyD2H
    <3>2. tx' = << >>
      BY <1>1, <3>1
    <3>3. CopyReply(Head(tx), TRUE)
      BY <2>3 DEF DriverCopyD2H
    <3>4. UNCHANGED <<dev, nallocs, tableVars, clientVars, restarts>>
      BY <2>3 DEF DriverCopyD2H
    <3>. QED
      BY <2>1, <3>1, <3>2, <3>3, <3>4
  <2>. QED
    BY <2>2, <2>3
<1>3. PICK resp : /\ Reply(resp) /\ resp.handle = 0
                  /\ resp.rid = creq.rid /\ resp.rseq = creq.seq
  BY <1>2 DEF CopyReply, Quiet, ErrResp, OkResp
<1>4. rx' = << resp >>
  BY <1>1, <1>3, ReplyOne
<1>5. OneCall'
  BY <1>1, <1>2, <1>3, <1>4, AnswerCall DEF LeakInv
<1>6. HandleLeakFree'
  BY <1>1, <1>2, MapKept DEF LeakInv, clientVars, tableVars
<1>. QED
  BY <1>5, <1>6

(* handle_gpu_sync answers OK, without a handle. *)
LEMMA SyncLeak ==
    ASSUME LeakInv, Quiet, DriverSync
    PROVE  OneCall' /\ HandleLeakFree'
<1>1. cpc = "wait" /\ tx = << creq >> /\ rx = << >>
  BY InFlight DEF Dispatch, DriverSync
<1>2. /\ Head(tx) = creq /\ tx' = << >> /\ creq.type = "SYNC"
      /\ Reply(OkResp(creq, 0, 0))
      /\ UNCHANGED <<dev, nallocs, tableVars, clientVars, restarts>>
  BY <1>1 DEF Dispatch, DriverSync, Quiet
<1>3. rx' = << OkResp(creq, 0, 0) >>
  BY <1>1, <1>2, ReplyOne
<1>4. OneCall'
  BY <1>1, <1>2, <1>3, AnswerCall DEF LeakInv, OkResp
<1>5. HandleLeakFree'
  BY <1>1, <1>2, MapKept DEF LeakInv, clientVars, tableVars
<1>. QED
  BY <1>4, <1>5

(* The driver drops a COPY_D2D: the call waits with nothing queued. *)
LEMMA IgnoreLeak ==
    ASSUME LeakInv, DriverIgnore
    PROVE  OneCall' /\ HandleLeakFree'
<1>1. cpc = "wait" /\ tx = << creq >> /\ rx = << >>
  BY InFlight DEF Dispatch, DriverIgnore
<1>2. /\ Head(tx) = creq /\ tx' = << >> /\ creq.type = "D2D"
      /\ UNCHANGED <<rx, dev, nallocs, tableVars, clientVars, restarts>>
  BY <1>1 DEF Dispatch, DriverIgnore
<1>3. OneCall'
  BY <1>1, <1>2 DEF LeakInv, OneCall, Unanswered, clientVars
<1>4. HandleLeakFree'
  BY <1>1, <1>2, MapKept DEF LeakInv, clientVars, tableVars
<1>. QED
  BY <1>3, <1>4

(* handle_gpu_alloc, with no failing call and next_handle not wrapped:    *)
(* the new entry's handle travels in the OK answer to the waiting call,   *)
(* and the older entries keep their place in the application's map.      *)
LEMMA AllocLeak ==
    ASSUME NoWrap, LeakInv, Quiet, DriverAlloc
    PROVE  OneCall' /\ HandleLeakFree'
<1> DEFINE req == Head(tx)
<1> DEFINE p == nallocs + 1
<1> DEFINE e == [handle |-> nextHandle, zone |-> req.zone, ptr |-> p,
                 size |-> req.size]
<1>1. cpc = "wait" /\ tx = << creq >> /\ rx = << >>
  BY InFlight DEF Dispatch, DriverAlloc
<1>2. /\ req = creq /\ tx' = << >> /\ creq.type = "ALLOC"
      /\ UNCHANGED <<clientVars, restarts>>
  <2>1. Dispatch("ALLOC") /\ UNCHANGED <<clientVars, restarts>>
    BY DEF DriverAlloc
  <2>. QED
    BY <1>1, <2>1 DEF Dispatch
<1>3. nextHandle \in 1 .. Word - 1
  BY DEF LeakInv, IInv, TableInv, TableTypeOK, CounterBound
<1>4. /\ Insert(req.zone, p, req.size)
      /\ Reply(OkResp(req, nextHandle, p))
      /\ dev' = dev \cup {p}
  BY <1>3 DEF DriverAlloc, Quiet, NewHandle
<1>5. rx' = << OkResp(creq, nextHandle, p) >>
  BY <1>1, <1>2, <1>4, ReplyOne
<1>6. OneCall'
  BY <1>1, <1>2, <1>3, <1>5, AnswerCall DEF LeakInv, OkResp
<1>7. HandleLeakFree'
  <2>1. /\ entries \in Seq(Entry) /\ e \in Entry
    <3>1. /\ tx \in Seq(Request) /\ TxWellFormed /\ nallocs \in Nat
          /\ calls \in 0 .. MaxCalls /\ nallocs + Len(tx) <= calls
          /\ entries \in Seq(Entry)
      BY ProxyAssumption DEF LeakInv, IInv, ProxyTypeOK, Fresh, TableInv,
                             TableTypeOK
    <3>2. req \in Request /\ req.size \in Sizes
      BY <1>1, <1>2, <3>1 DEF TxWellFormed
    <3>3. p \in Ptrs
      BY <1>1, <3>1, ProxyAssumption
    <3>. QED
      BY <1>3, <3>1, <3>2, <3>3 DEF Request, Entry
  <2>2. /\ Len(entries') = Len(entries) + 1
        /\ entries'[1] = e
        /\ \A k \in 2 .. Len(entries) + 1 : entries'[k] = entries[k - 1]
    BY <1>4, <2>1, PushProperties DEF Insert
  <2>3. SUFFICES ASSUME NEW q \in dev'
                 PROVE  (\E i \in 1 .. Len(entries) :
                            entries[i].ptr = q /\ Reachable(entries[i].handle))'
    BY DEF HandleLeakFree
  <2>4. CASE q = p
    <3>1. (Reachable(entries[1].handle))'
      BY <1>1, <1>2, <1>5, <2>2 DEF Reachable, OkResp, clientVars
    <3>. QED
      BY <2>2, <2>4, <3>1
  <2>5. CASE q \in dev
    <3>1. PICK i \in 1 .. Len(entries) :
              entries[i].ptr = q /\ Reachable(entries[i].handle)
      BY <2>5 DEF LeakInv, HandleLeakFree
    <3>2. entries[i].handle \in DOMAIN cmap
      BY <1>1, <3>1, ReachableIdle
    <3>3. i + 1 \in 1 .. Len(entries') /\ entries'[i + 1] = entries[i]
      BY <2>1, <2>2
    <3>4. (Reachable(entries[i + 1].handle))'
      BY <1>2, <3>2, <3>3 DEF Reachable, clientVars
    <3>. QED
      BY <3>1, <3>3, <3>4
  <2>. QED
    BY <1>4, <2>4, <2>5
<1>. QED
  BY <1>6, <1>7

(* handle_gpu_free: an unknown handle is answered INVALID_HANDLE with    *)
(* nothing changed; a known one loses its one entry before cuMemFree      *)
(* frees its memory, so the OK answer finds the handle gone and every     *)
(* remaining allocation keeps its entry and its place in the map.         *)
LEMMA FreeLeak ==
    ASSUME LeakInv, Quiet, DriverFree
    PROVE  OneCall' /\ HandleLeakFree'
<1> DEFINE req == Head(tx)
<1> DEFINE h == req.handle
<1>1. cpc = "wait" /\ tx = << creq >> /\ rx = << >>
  BY InFlight DEF Dispatch, DriverFree
<1>2. /\ req = creq /\ tx' = << >> /\ creq.type = "FREE"
      /\ UNCHANGED <<nallocs, clientVars, restarts>>
  <2>1. Dispatch("FREE") /\ UNCHANGED <<nallocs, clientVars, restarts>>
    BY DEF DriverFree
  <2>. QED
    BY <1>1, <2>1 DEF Dispatch
<1>3. CASE /\ ~Owned(req.zone, h)
           /\ Reply(ErrResp(req, "INVALID_HANDLE"))
           /\ UNCHANGED <<dev, tableVars>>
  <2>1. rx' = << ErrResp(creq, "INVALID_HANDLE") >>
    BY <1>1, <1>2, <1>3, ReplyOne
  <2>2. OneCall'
    BY <1>1, <1>2, <2>1, AnswerCall DEF LeakInv, ErrResp
  <2>3. HandleLeakFree'
    BY <1>1, <1>2, <1>3, MapKept DEF LeakInv, clientVars, tableVars
  <2>. QED
    BY <2>2, <2>3
<1>4. CASE /\ Remove(req.zone, h)
           /\ dev' = dev \ {LookupPtr(req.zone, h)}
           /\ Reply(OkResp(req, 0, 0))
  <2> DEFINE f == First(h)
  <2> DEFINE m(k) == IF k < f THEN k ELSE k + 1
  <2>1. /\ TableInv /\ entries \in Seq(Entry)
        /\ f \in 1 .. Len(entries) /\ Found(h) = {f}
    <3>1. TableInv /\ entries \in Seq(Entry)
      BY DEF LeakInv, IInv, TableInv, TableTypeOK
    <3>2. Found(h) # {}
      BY <1>4 DEF Remove, Owned
    <3>. QED
      BY <3>1, <3>2, FirstFound DEF Found
  <2>2. /\ Len(entries') = Len(entries) - 1
        /\ \A k \in 1 .. Len(entries) - 1 : entries'[k] = entries[m(k)]
        /\ \A k \in 1 .. Len(entries) - 1 : m(k) \in 1 .. Len(entries) /\ m(k) # f
  <3>1. /\ Len(entries') = Len(entries) - 1
        /\ \A k \in 1 .. Len(entries) - 1 : entries'[k] = entries[m(k)]
    BY <1>4, <2>1, WithoutProperties DEF Remove
  <3>2. \A k \in 1 .. Len(entries) - 1 : m(k) \in 1 .. Len(entries) /\ m(k) # f
    BY <2>1
  <3>. QED
    BY <3>1, <3>2
  <2>3. rx' = << OkResp(creq, 0, 0) >>
    BY <1>1, <1>2, <1>4, ReplyOne
  <2>4. (Found(creq.handle) = {})'
    <3>1. \A k \in 1 .. Len(entries) - 1 : entries[m(k)].handle # h
      BY <2>1, <2>2 DEF Found
    <3>2. \A k \in 1 .. Len(entries') : entries'[k].handle # h
      BY <2>2, <3>1
    <3>. QED
      BY <1>2, <3>2 DEF Found, clientVars
  <2>5. OneCall'
    BY <1>1, <1>2, <2>3, <2>4, AnswerCall DEF LeakInv, OkResp
  <2>6. HandleLeakFree'
    <3>1. SUFFICES ASSUME NEW q \in dev'
                   PROVE  (\E i \in 1 .. Len(entries) :
                              entries[i].ptr = q /\ Reachable(entries[i].handle))'
      BY DEF HandleLeakFree
    <3>2. PICK i \in 1 .. Len(entries) :
              entries[i].ptr = q /\ Reachable(entries[i].handle)
      BY <1>4 DEF LeakInv, HandleLeakFree
    <3>3. i # f
      BY <1>4, <3>2 DEF LookupPtr
    <3>4. entries[i].handle \in DOMAIN cmap
      BY <1>1, <3>2, ReachableIdle
    <3>5. PICK pos \in 1 .. Len(entries') : entries'[pos] = entries[i]
      <4>1. PICK j \in 1 .. Len(entries) - 1 : m(j) = i
        <5>1. (IF i < f THEN i ELSE i - 1) \in 1 .. Len(entries) - 1
          BY <2>1, <3>3
        <5>2. m(IF i < f THEN i ELSE i - 1) = i
          BY <2>1, <3>3
        <5>. QED
          BY <5>1, <5>2
      <4>. QED
        BY <2>2, <4>1
    <3>6. (Reachable(entries[pos].handle))'
      BY <1>2, <3>4, <3>5 DEF Reachable, clientVars
    <3>. QED
      BY <3>2, <3>5, <3>6
  <2>. QED
    BY <2>5, <2>6
<1>. QED
  BY <1>3, <1>4 DEF DriverFree, Quiet

(* A new cuMem* call sends its request into the empty user->driver ring: *)
(* with no failing malloc and room in the ring, send_and_wait waits on    *)
(* it.                                                                    *)
LEMMA CallLeak ==
    ASSUME LeakInv, Quiet, ClientCall
    PROVE  OneCall' /\ HandleLeakFree'
<1>1. cpc = "idle" /\ tx = << >> /\ rx = << >>
  BY DEF ClientCall, LeakInv, OneCall
<1>2. /\ UNCHANGED <<rx, dev, cmap, restarts, tableVars>>
      /\ \E req : SendRequest(req)
  BY DEF ClientCall, Quiet
<1>3. PICK req : SendRequest(req)
  BY <1>2
<1>4. /\ tx' = << req >> /\ cpc' = "wait" /\ creq' = req /\ attempts' = 0
  BY <1>1, <1>3, ProxyAssumption DEF SendRequest
<1>5. OneCall'
  BY <1>1, <1>2, <1>4 DEF LeakInv, OneCall, Requested
<1>6. HandleLeakFree'
  BY <1>1, <1>2, MapKept DEF LeakInv, tableVars
<1>. QED
  BY <1>5, <1>6

(* send_and_wait reads the answer to its call: the ALLOC's handle goes   *)
(* into the application's map, a freed handle leaves it only once its    *)
(* entry is gone, and both rings are empty again.                        *)
LEMMA MatchLeak ==
    ASSUME LeakInv, RecvMatch
    PROVE  OneCall' /\ HandleLeakFree'
<1> DEFINE r == Head(rx)
<1>1. /\ cpc = "wait" /\ rx # << >> /\ r.rseq = creq.seq
      /\ rx' = Tail(rx) /\ cpc' = "idle" /\ cmap' = Keep(creq, r)
      /\ UNCHANGED <<tx, dev, creq, attempts, restarts, tableVars>>
  BY DEF RecvMatch
<1>2. Answered
  BY <1>1 DEF LeakInv, OneCall, Requested, Unanswered
<1>3. rx \in Seq(Response)
  BY DEF LeakInv, IInv, ProxyTypeOK
<1>4. rx' = << >> /\ tx' = << >>
  BY <1>1, <1>2, <1>3 DEF Answered
<1>5. OneCall'
  BY <1>1, <1>4 DEF LeakInv, OneCall
<1>6. HandleLeakFree'
  <2>1. SUFFICES ASSUME NEW i \in 1 .. Len(entries),
                        Reachable(entries[i].handle)
                 PROVE  entries[i].handle \in DOMAIN Keep(creq, r)
    BY <1>1, LeakKeep DEF LeakInv, Reachable, tableVars
  <2> DEFINE g == entries[i].handle
  <2>2. g # 0
    BY InvDistinct DEF LeakInv, IInv, HandlesDistinct
  <2>3. CASE r.type = "OK" /\ creq.type = "ALLOC"
    BY <2>1, <1>2, <2>3 DEF Reachable, Keep, Answered
  <2>4. CASE r.type = "OK" /\ creq.type = "FREE"
    <3>1. g # creq.handle
      BY <1>2, <2>4 DEF Answered, Found
    <3>2. g \in DOMAIN cmap
      <4>1. ~(\E k \in 1 .. Len(rx) : rx[k].handle = g /\ rx[k].rid = creq.rid)
        BY <1>2, <2>2, <2>4 DEF Answered
      <4>. QED
        BY <2>1, <4>1 DEF Reachable
    <3>. QED
      BY <2>4, <3>1, <3>2 DEF Keep
  <2>5. CASE ~(r.type = "OK" /\ creq.type \in {"ALLOC", "FREE"})
    <3>1. g \in DOMAIN cmap
      <4>1. ~(\E k \in 1 .. Len(rx) : rx[k].handle = g /\ rx[k].rid = creq.rid)
        BY <1>2, <2>2, <2>5 DEF Answered
      <4>. QED
        BY <2>1, <4>1 DEF Reachable
    <3>. QED
      BY <2>5, <3>1 DEF Keep
  <2>. QED
    BY <2>3, <2>4, <2>5
<1>. QED
  BY <1>5, <1>6

(* None of these steps is possible: send_and_wait discards nothing, never *)
(* times out or gives up, and no process restarts.                        *)
LEMMA NoOtherStep ==
    ASSUME LeakInv, Quiet,
           RecvDiscard \/ RecvTimeout \/ GiveUp \/ DriverRestart \/ ClientRestart
    PROVE  FALSE
<1>1. CASE RecvDiscard
  BY <1>1 DEF RecvDiscard, LeakInv, OneCall, Requested, Answered, Unanswered
<1>2. CASE RecvTimeout
  BY <1>2 DEF RecvTimeout, Quiet
<1>3. CASE GiveUp
  BY <1>3, ProxyAssumption DEF GiveUp, LeakInv, OneCall
<1>4. CASE DriverRestart \/ ClientRestart
  BY <1>4 DEF DriverRestart, ClientRestart, Quiet, LeakInv, OneCall
<1>. QED
  BY <1>1, <1>2, <1>3, <1>4

LEMMA StutterLeak ==
    ASSUME LeakInv, UNCHANGED proxyVars
    PROVE  OneCall' /\ HandleLeakFree'
BY DEF LeakInv, OneCall, Requested, Answered, Unanswered, Found, HandleLeakFree,
       Reachable, proxyVars

LEMMA NextLeak ==
    ASSUME NoWrap, Quiet, LeakInv, [Next]_proxyVars
    PROVE  LeakInv'
<1>1. IInv'
  BY NextInv DEF LeakInv
<1>2. OneCall' /\ HandleLeakFree'
  <2>1. CASE DriverAlloc
    BY <2>1, AllocLeak
  <2>2. CASE DriverFree
    BY <2>2, FreeLeak
  <2>3. CASE DriverCopyH2D \/ DriverCopyD2H
    BY <2>3, CopyLeak
  <2>4. CASE DriverSync
    BY <2>4, SyncLeak
  <2>5. CASE DriverIgnore
    BY <2>5, IgnoreLeak
  <2>6. CASE ClientCall
    BY <2>6, CallLeak
  <2>7. CASE RecvMatch
    BY <2>7, MatchLeak
  <2>8. CASE RecvDiscard \/ RecvTimeout \/ GiveUp \/ DriverRestart \/ ClientRestart
    BY <2>8, NoOtherStep
  <2>9. CASE UNCHANGED proxyVars
    BY <2>9, StutterLeak
  <2>. QED
    BY <2>1, <2>2, <2>3, <2>4, <2>5, <2>6, <2>7, <2>8, <2>9 DEF Next
<1>. QED
  BY <1>1, <1>2 DEF LeakInv

-----------------------------------------------------------------------------
-----------------------------------------------------------------------------
(***************************************************************************)
(* Under the same environment the proxy implements the service of         *)
(* GpuService (ServiceRefinement).  The handle map is the table's         *)
(* abstract map (HandleTableRefinement); the call is "sent" while its     *)
(* request or nothing is queued and "done" once its answer is queued.      *)
(* Beyond LeakInv the proof needs that a copy in flight has an offset and *)
(* a size the application chose, and that these do not wrap the uint64_t *)
(* sum of the handlers' bounds check: otherwise a too large copy passes   *)
(* it, which the service forbids.                                          *)
(***************************************************************************)

(* The offsets and sizes of the copies do not wrap offset + size. *)
NoOffsetWrap == \A o \in Offsets, s \in Sizes : o + s < Word

(* The copy in flight has one of the offsets and sizes of the application. *)
CopyShape ==
    creq.type \in {"H2D", "D2H", "D2D"} => creq.off \in Offsets /\ creq.size \in Sizes

ServiceInv == LeakInv /\ CopyShape

(* The requests of a cuMem* call are the calls of the service, without   *)
(* seq_num, zone and id.                                                   *)
LEMMA CallOfCalls ==
    ASSUME NEW op \in ClientOps, NEW req \in CallRequests(op)
    PROVE  /\ CallOf(req) \in Service!Calls
           /\ req.type = op
           /\ op \in {"H2D", "D2H", "D2D"} => req.off \in Offsets /\ req.size \in Sizes
<1> DEFINE Msg(h, o, s) ==
             [type |-> op, seq |-> IF op = "H2D" THEN 1 ELSE cseq,
              zone |-> ClientZone, handle |-> h, off |-> o, size |-> s,
              rid |-> calls + 1]
<1>1. \A h, o, s : /\ CallOf(Msg(h, o, s)) = [type |-> op, handle |-> h, off |-> o, size |-> s]
                   /\ Msg(h, o, s).type = op
                   /\ Msg(h, o, s).off = o /\ Msg(h, o, s).size = s
  BY DEF CallOf
<1>2. CASE op = "ALLOC"
  <2>1. PICK s \in Sizes : req = Msg(0, 0, s)
    BY <1>2 DEF CallRequests
  <2>2. CallOf(req) = [type |-> "ALLOC", handle |-> 0, off |-> 0, size |-> s]
    BY <1>2, <2>1 DEF CallOf
  <2>3. [type |-> "ALLOC", handle |-> 0, off |-> 0, size |-> s] \in Service!Calls
    BY <1>2 DEF Service!Calls
  <2>. QED
    BY <1>1, <1>2, <2>1, <2>2, <2>3
<1>3. CASE op = "SYNC"
  <2>1. req = Msg(0, 0, 0)
    BY <1>3 DEF CallRequests
  <2>2. CallOf(req) = [type |-> "SYNC", handle |-> 0, off |-> 0, size |-> 0]
    BY <1>3, <2>1 DEF CallOf
  <2>3. [type |-> "SYNC", handle |-> 0, off |-> 0, size |-> 0] \in Service!Calls
    BY <1>3 DEF Service!Calls
  <2>. QED
    BY <1>1, <1>3, <2>1, <2>2, <2>3
<1>4. CASE op = "FREE"
  <2>1. PICK h \in DOMAIN cmap : req = Msg(h, 0, 0)
    BY <1>4 DEF CallRequests
  <2>2. CallOf(req) = [type |-> "FREE", handle |-> h, off |-> 0, size |-> 0]
    BY <1>4, <2>1 DEF CallOf
  <2>3. [type |-> "FREE", handle |-> h, off |-> 0, size |-> 0] \in Service!Calls
    BY <1>4 DEF Service!Calls
  <2>. QED
    BY <1>1, <1>4, <2>1, <2>2, <2>3
<1>5. CASE op \notin {"ALLOC", "SYNC", "FREE"}
  <2>1. PICK h \in DOMAIN cmap, o \in Offsets, s \in Sizes : req = Msg(h, o, s)
    BY <1>5 DEF CallRequests
  <2>2. op \in {"H2D", "D2H", "D2D"}
    BY <1>5, ProxyAssumption
  <2>3. CallOf(req) = [type |-> op, handle |-> h, off |-> o, size |-> s]
    BY <2>1 DEF CallOf
  <2>4. [type |-> op, handle |-> h, off |-> o, size |-> s] \in Service!Calls
    BY <2>2 DEF Service!Calls
  <2>. QED
    BY <1>1, <2>1, <2>3, <2>4
<1>. QED
  BY <1>2, <1>3, <1>4, <1>5

LEMMA ServiceInvInit == Init => ServiceInv
BY LeakInit DEF Init, CopyShape, NoRequest, ServiceInv

LEMMA CopyShapeNext ==
    ASSUME Quiet, ServiceInv, [Next]_proxyVars
    PROVE  CopyShape'
<1>1. CASE ClientCall
  <2>1. PICK op \in ClientOps : \E req \in CallRequests(op) :
            \/ BackendFails /\ UNCHANGED creq
            \/ SendRequest(req)
    BY <1>1 DEF ClientCall
  <2>2. PICK req \in CallRequests(op) :
            \/ BackendFails /\ UNCHANGED creq
            \/ SendRequest(req)
    BY <2>1
  <2>3. creq' = creq \/ creq' = req
    BY <2>2 DEF SendRequest
  <2>. QED
    BY <2>3, CallOfCalls DEF ServiceInv, CopyShape
<1>2. CASE DriverAlloc \/ DriverFree \/ DriverCopyH2D \/ DriverCopyD2H
           \/ DriverSync \/ DriverIgnore \/ RecvMatch \/ UNCHANGED proxyVars
  <2>1. creq' = creq
    BY <1>2 DEF DriverAlloc, DriverFree, DriverCopyH2D, DriverCopyD2H,
                DriverSync, DriverIgnore, RecvMatch, clientVars, proxyVars
  <2>. QED
    BY <2>1 DEF ServiceInv, CopyShape
<1>3. CASE RecvDiscard \/ RecvTimeout \/ GiveUp \/ DriverRestart \/ ClientRestart
  BY <1>3, NoOtherStep DEF ServiceInv
<1>. QED
  BY <1>1, <1>2, <1>3 DEF Next

LEMMA ServiceInvNext ==
    ASSUME NoWrap, Quiet, ServiceInv, [Next]_proxyVars
    PROVE  ServiceInv'
BY NextLeak, CopyShapeNext DEF ServiceInv

-----------------------------------------------------------------------------
(* A driver start with an idle application is the service's start. *)
LEMMA ServiceInit == Init => Service!Init
<1> SUFFICES ASSUME Init PROVE Service!Init
  OBVIOUS
<1>1. Abstract!Init
  BY InitRefines DEF Init
<1>. QED
  BY <1>1 DEF Init, Abstract!Init, Service!Init, Service!Table!Init,
             ServicePhase, ServiceCall, ServiceAnswer, Service!NoCall,
             Service!NoAnswer

(* A cuMem* call that sends its request makes a call of the service. *)
LEMMA CallRefines ==
    ASSUME Quiet, ServiceInv, ClientCall
    PROVE  Service!Call
<1>1. cpc = "idle" /\ tx = << >> /\ rx = << >>
  BY DEF ClientCall, ServiceInv, LeakInv, OneCall
<1>2. PICK op \in ClientOps : \E req \in CallRequests(op) :
          \/ BackendFails /\ UNCHANGED tx
          \/ SendRequest(req)
  BY DEF ClientCall
<1>8. PICK req \in CallRequests(op) :
          \/ BackendFails /\ UNCHANGED tx
          \/ SendRequest(req)
  BY <1>2
<1>3. /\ tx' = Append(tx, req) /\ cpc' = "wait" /\ creq' = req
      /\ UNCHANGED cres
  BY <1>1, <1>8, ProxyAssumption DEF Quiet, SendRequest
<1>4. UNCHANGED <<rx, dev, cmap, entries, nextHandle>>
  BY DEF ClientCall, tableVars
<1>5. /\ ServicePhase = "idle" /\ ServicePhase' = "sent"
      /\ ServiceCall' = CallOf(req) /\ ServiceAnswer' = ServiceAnswer
  BY <1>1, <1>3, <1>4 DEF ServicePhase, ServiceCall, ServiceAnswer
<1>6. CallOf(req) \in Service!Calls
  BY CallOfCalls
<1>7. AbstractMap' = AbstractMap
  BY <1>4 DEF AbstractMap, LiveHandles, First, Found
<1>. QED
  BY <1>3, <1>4, <1>5, <1>6, <1>7 DEF Service!Call

(* A driver step that queues the answer resp to the waiting call, in an   *)
(* empty driver->user ring, is the service's answer AnswerOf(resp) to the *)
(* call in flight.                                                        *)
LEMMA DriverAnswers ==
    ASSUME cpc = "wait", rx = << >>, NEW resp, rx' = << resp >>,
           UNCHANGED clientVars
    PROVE  /\ ServicePhase = "sent" /\ ServiceCall = CallOf(creq)
           /\ Service!Answer(AnswerOf(resp))
BY DEF ServicePhase, ServiceCall, ServiceAnswer, clientVars, Service!Answer

(* A step that leaves the handle table alone leaves the handle map and   *)
(* the handles issued alone.                                              *)
LEMMA TableKept ==
    ASSUME UNCHANGED tableVars
    PROVE  AbstractMap' = AbstractMap /\ (1 .. nextHandle - 1)' = 1 .. nextHandle - 1
BY AbstractMapIsMapOf DEF tableVars

(* handle_gpu_alloc with no failing call: cuMemAlloc returns a pointer  *)
(* not allocated before, handle_table_insert binds it to next_handle, and *)
(* the answer carries both.                                               *)
LEMMA AllocRefines ==
    ASSUME NoWrap, Quiet, ServiceInv, DriverAlloc
    PROVE  Service!DoAlloc
<1> DEFINE req == Head(tx)
<1> DEFINE p == nallocs + 1
<1>1. cpc = "wait" /\ tx = << creq >> /\ rx = << >>
  BY InFlight DEF ServiceInv, Dispatch, DriverAlloc
<1>2. /\ req = creq /\ creq.type = "ALLOC"
      /\ UNCHANGED <<clientVars, restarts>>
  <2>1. Dispatch("ALLOC") /\ UNCHANGED <<clientVars, restarts>>
    BY DEF DriverAlloc
  <2>. QED
    BY <1>1, <2>1 DEF Dispatch
<1>3. nextHandle \in 1 .. Word - 1
  BY DEF ServiceInv, LeakInv, IInv, TableInv, TableTypeOK, CounterBound
<1>4. /\ Insert(req.zone, p, req.size)
      /\ Reply(OkResp(req, nextHandle, p))
      /\ dev' = dev \cup {p}
  BY <1>3 DEF DriverAlloc, Quiet, NewHandle
<1>5. rx' = << OkResp(creq, nextHandle, p) >>
  BY <1>1, <1>2, <1>4, ReplyOne
<1>6. /\ req.zone = ClientZone /\ req.size \in Sizes
      /\ p \in Ptrs \ dev /\ TableInv
  <2>1. /\ tx \in Seq(Request) /\ TxWellFormed /\ nallocs \in Nat
        /\ calls \in 0 .. MaxCalls /\ nallocs + Len(tx) <= calls
        /\ dev \subseteq 1 .. nallocs /\ TableInv
    BY ProxyAssumption DEF ServiceInv, LeakInv, IInv, ProxyTypeOK, Fresh
  <2>2. req \in Request /\ req.size \in Sizes
    BY <1>1, <1>2, <2>1 DEF TxWellFormed
  <2>. QED
    BY <1>1, <2>1, <2>2, ProxyAssumption DEF Request
<1>7. Abstract!InsertAs(ClientZone, p, req.size, nextHandle)
  BY <1>4, <1>6, InsertRefines, ProxyAssumption
<1>8. /\ ServicePhase = "sent" /\ ServiceCall = CallOf(creq)
      /\ Service!Answer(AnswerOf(OkResp(creq, nextHandle, p)))
  BY <1>1, <1>2, <1>5, DriverAnswers
<1>9. AnswerOf(OkResp(creq, nextHandle, p)) = Service!Ok(nextHandle, p)
  BY DEF AnswerOf, OkResp, Service!Ok
<1>10. /\ ServiceCall.type = "ALLOC" /\ ServiceCall.size = req.size
  BY <1>2, <1>8 DEF CallOf
<1>. QED
  BY <1>3, <1>4, <1>6, <1>7, <1>8, <1>9, <1>10
  DEF Service!DoAlloc, Abstract!InsertAs, Service!Table!InsertAs

(* A handle is owned in the table exactly when the application's zone   *)
(* owns it in the handle map.                                            *)
LEMMA OwnedIsOwns ==
    ASSUME NEW h
    PROVE  Owned(ClientZone, h) <=> Service!Owns(h)
BY DEF Owned, Service!Owns, AbstractMap, LiveHandles, Found

(* handle_gpu_free with no failing call: an unknown or foreign handle is *)
(* answered INVALID_HANDLE; an owned one leaves the map, and the memory   *)
(* it stood for is freed.                                                 *)
LEMMA FreeRefines ==
    ASSUME Quiet, ServiceInv, DriverFree
    PROVE  Service!DoFree
<1> DEFINE req == Head(tx)
<1> DEFINE h == req.handle
<1>1. cpc = "wait" /\ tx = << creq >> /\ rx = << >>
  BY InFlight DEF ServiceInv, Dispatch, DriverFree
<1>2. /\ req = creq /\ creq.type = "FREE"
      /\ UNCHANGED <<nallocs, clientVars, restarts>>
  <2>1. Dispatch("FREE") /\ UNCHANGED <<nallocs, clientVars, restarts>>
    BY DEF DriverFree
  <2>. QED
    BY <1>1, <2>1 DEF Dispatch
<1>3. /\ req.zone = ClientZone /\ h \in 0 .. Word - 1 /\ TableInv
  <2>1. tx \in Seq(Request) /\ TxWellFormed /\ TableInv
    BY DEF ServiceInv, LeakInv, IInv, ProxyTypeOK
  <2>. QED
    BY <1>1, <2>1, ProxyAssumption DEF TxWellFormed, Request
<1>4. ServiceCall.type = "FREE" /\ ServiceCall.handle = h
  BY <1>1, <1>2 DEF ServiceCall, CallOf
<1>5. CASE /\ ~Owned(req.zone, h)
           /\ Reply(ErrResp(req, "INVALID_HANDLE"))
           /\ UNCHANGED <<dev, tableVars>>
  <2>1. rx' = << ErrResp(creq, "INVALID_HANDLE") >>
    BY <1>1, <1>2, <1>5, ReplyOne
  <2>2. /\ ServicePhase = "sent"
        /\ Service!Answer(AnswerOf(ErrResp(creq, "INVALID_HANDLE")))
    BY <1>1, <1>2, <2>1, DriverAnswers
  <2>3. AnswerOf(ErrResp(creq, "INVALID_HANDLE")) = Service!Err("INVALID_HANDLE")
    BY DEF AnswerOf, ErrResp, Service!Err
  <2>4. ~Service!Owns(h)
    BY <1>3, <1>5, OwnedIsOwns
  <2>5. AbstractMap' = AbstractMap /\ (1 .. nextHandle - 1)' = 1 .. nextHandle - 1
    BY <1>5, TableKept
  <2>. QED
    BY <1>4, <1>5, <2>2, <2>3, <2>4, <2>5 DEF Service!DoFree
<1>6. CASE /\ Remove(req.zone, h)
           /\ dev' = dev \ {LookupPtr(req.zone, h)}
           /\ Reply(OkResp(req, 0, 0))
  <2>1. h \in 1 .. Word - 1 /\ Abstract!Remove(ClientZone, h)
    BY <1>3, <1>6, RemoveRefines, ProxyAssumption
  <2>2. Service!Table!Remove(ClientZone, h)
    BY <2>1 DEF Abstract!Remove, Service!Table!Remove
  <2>3. AbstractMap[h].ptr = LookupPtr(req.zone, h)
    BY <2>1 DEF Abstract!Remove, AbstractMap, LookupPtr
  <2>4. rx' = << OkResp(creq, 0, 0) >>
    BY <1>1, <1>2, <1>6, ReplyOne
  <2>5. /\ ServicePhase = "sent"
        /\ Service!Answer(AnswerOf(OkResp(creq, 0, 0)))
    BY <1>1, <1>2, <2>4, DriverAnswers
  <2>6. AnswerOf(OkResp(creq, 0, 0)) = Service!Ok(0, 0)
    BY DEF AnswerOf, OkResp, Service!Ok
  <2>. QED
    BY <1>4, <1>6, <2>2, <2>3, <2>5, <2>6 DEF Service!DoFree
<1>. QED
  BY <1>5, <1>6 DEF DriverFree, Quiet

(* handle_gpu_copy_h2d and handle_gpu_copy_d2h with no failing call:     *)
(* INVALID_HANDLE for a handle the application's zone does not own,       *)
(* INVALID_SIZE past the allocation, OK otherwise; with offset + size     *)
(* below 2^64 the uint64_t bounds check is the service's.                 *)
LEMMA CopyRefines ==
    ASSUME NoOffsetWrap, Quiet, ServiceInv, DriverCopyH2D \/ DriverCopyD2H
    PROVE  Service!DoCopy
<1> DEFINE req == Head(tx)
<1>1. cpc = "wait" /\ tx = << creq >> /\ rx = << >>
  BY InFlight DEF ServiceInv, Dispatch, DriverCopyH2D, DriverCopyD2H
<1>2. /\ req = creq /\ creq.type \in {"H2D", "D2H"}
      /\ CopyReply(req, FALSE) \/ CopyReply(req, TRUE)
      /\ UNCHANGED <<dev, nallocs, tableVars, clientVars, restarts>>
  <2>1. req = creq
    BY <1>1
  <2>2. CASE DriverCopyH2D
    <3>1. req.type = "H2D"
      BY <2>2 DEF Dispatch, DriverCopyH2D
    <3>2. CopyReply(req, FALSE)
      BY <2>2 DEF DriverCopyH2D
    <3>3. UNCHANGED <<dev, nallocs, tableVars, clientVars, restarts>>
      BY <2>2 DEF DriverCopyH2D
    <3>. QED
      BY <2>1, <3>1, <3>2, <3>3
  <2>3. CASE DriverCopyD2H
    <3>1. req.type = "D2H"
      BY <2>3 DEF Dispatch, DriverCopyD2H
    <3>2. CopyReply(req, TRUE)
      BY <2>3 DEF DriverCopyD2H
    <3>3. UNCHANGED <<dev, nallocs, tableVars, clientVars, restarts>>
      BY <2>3 DEF DriverCopyD2H
    <3>. QED
      BY <2>1, <3>1, <3>2, <3>3
  <2>. QED
    BY <2>2, <2>3
<1>3. /\ req.zone = ClientZone /\ req.off + req.size \in Nat
      /\ (req.off + req.size) % Word = req.off + req.size
  <2>1. req \in Request
    BY <1>1 DEF ServiceInv, LeakInv, IInv, ProxyTypeOK
  <2>2. req.off \in Offsets /\ req.size \in Sizes
    BY <1>1, <1>2 DEF ServiceInv, CopyShape
  <2>3. req.off \in Nat /\ req.size \in Nat /\ req.off + req.size < Word
    <3>1. Offsets \subseteq Nat /\ Sizes \subseteq Nat /\ Word \in Nat
      BY ProxyAssumption, HandleTableAssumption
    <3>. QED
      BY <2>2, <3>1 DEF NoOffsetWrap
  <2>4. req.zone = ClientZone
    BY <2>1, ProxyAssumption DEF Request
  <2>5. (req.off + req.size) % Word = req.off + req.size
    BY <2>3, HandleTableAssumption
  <2>. QED
    BY <2>3, <2>4, <2>5
<1>4. Owned(req.zone, req.handle) =>
        (PassesBoundsCheck(req) <=>
           req.off + req.size <= AbstractMap[req.handle].size)
  BY <1>3 DEF PassesBoundsCheck, LookupSize, Owned, AbstractMap, LiveHandles, Found
<1>5. /\ ServiceCall = CallOf(creq) /\ ServiceCall.type \in {"H2D", "D2H", "D2D"}
      /\ ServiceCall.handle = req.handle
      /\ ServiceCall.off = req.off /\ ServiceCall.size = req.size
  BY <1>1, <1>2 DEF ServiceCall, CallOf
<1>6. AbstractMap' = AbstractMap /\ (1 .. nextHandle - 1)' = 1 .. nextHandle - 1
  BY <1>2, TableKept
<1>7. \A resp : rx' = << resp >> =>
         ServicePhase = "sent" /\ Service!Answer(AnswerOf(resp))
  BY <1>1, <1>2, DriverAnswers
<1>8. (Owned(req.zone, req.handle) <=> Service!Owns(req.handle))
  BY <1>3, OwnedIsOwns
<1>9. CASE ~Owned(req.zone, req.handle)
  <2>1. Reply(ErrResp(req, "INVALID_HANDLE"))
    BY <1>2, <1>9 DEF CopyReply
  <2>2. rx' = << ErrResp(req, "INVALID_HANDLE") >>
    BY <1>1, <2>1, ReplyOne
  <2>3. AnswerOf(ErrResp(req, "INVALID_HANDLE")) = Service!Err("INVALID_HANDLE")
    BY DEF AnswerOf, ErrResp, Service!Err
  <2>. QED
    BY <1>2, <1>5, <1>6, <1>7, <1>8, <1>9, <2>2, <2>3 DEF Service!DoCopy
<1>10. CASE Owned(req.zone, req.handle) /\ ~PassesBoundsCheck(req)
  <2>1. Reply(ErrResp(req, "INVALID_SIZE"))
    BY <1>2, <1>10 DEF CopyReply
  <2>2. rx' = << ErrResp(req, "INVALID_SIZE") >>
    BY <1>1, <2>1, ReplyOne
  <2>3. AnswerOf(ErrResp(req, "INVALID_SIZE")) = Service!Err("INVALID_SIZE")
    BY DEF AnswerOf, ErrResp, Service!Err
  <2>4. req.off + req.size > AbstractMap[req.handle].size
    <3>1. req.off + req.size \in Nat /\ AbstractMap[req.handle].size \in Nat
      <4>1. /\ Found(req.handle) # {} /\ entries \in Seq(Entry) /\ TableInv
        BY <1>10 DEF Owned, ServiceInv, LeakInv, IInv, TableInv, TableTypeOK
      <4>2. First(req.handle) \in 1 .. Len(entries)
        BY <4>1, FirstFound DEF Found
      <4>3. entries[First(req.handle)] \in Entry
        BY <4>1, <4>2, ElementOfSeq
      <4>4. entries[First(req.handle)].size \in Nat
        BY <4>3, HandleTableAssumption DEF Entry
      <4>. QED
        BY <1>3, <4>1, <4>4 DEF AbstractMap, LiveHandles, Found
    <3>. QED
      BY <1>4, <1>10, <3>1
  <2>. QED
    BY <1>2, <1>5, <1>6, <1>7, <1>8, <1>10, <2>2, <2>3, <2>4 DEF Service!DoCopy
<1>11. CASE Owned(req.zone, req.handle) /\ PassesBoundsCheck(req)
  <2>1. Reply(OkResp(req, 0, 0))
    BY <1>2, <1>11 DEF CopyReply, Quiet
  <2>2. rx' = << OkResp(req, 0, 0) >>
    BY <1>1, <2>1, ReplyOne
  <2>3. AnswerOf(OkResp(req, 0, 0)) = Service!Ok(0, 0)
    BY DEF AnswerOf, OkResp, Service!Ok
  <2>4. req.off + req.size <= AbstractMap[req.handle].size
    BY <1>4, <1>11
  <2>. QED
    BY <1>2, <1>5, <1>6, <1>7, <1>8, <1>11, <2>2, <2>3, <2>4 DEF Service!DoCopy
<1>. QED
  BY <1>9, <1>10, <1>11

(* handle_gpu_sync with no failing call answers OK. *)
LEMMA SyncRefines ==
    ASSUME Quiet, ServiceInv, DriverSync
    PROVE  Service!DoSync
<1>1. cpc = "wait" /\ tx = << creq >> /\ rx = << >>
  BY InFlight DEF ServiceInv, Dispatch, DriverSync
<1>2. /\ creq.type = "SYNC" /\ Reply(OkResp(creq, 0, 0))
      /\ UNCHANGED <<dev, nallocs, tableVars, clientVars, restarts>>
  BY <1>1 DEF Dispatch, DriverSync, Quiet
<1>3. rx' = << OkResp(creq, 0, 0) >>
  BY <1>1, <1>2, ReplyOne
<1>4. /\ ServicePhase = "sent" /\ ServiceCall = CallOf(creq)
      /\ Service!Answer(AnswerOf(OkResp(creq, 0, 0)))
  BY <1>1, <1>2, <1>3, DriverAnswers
<1>5. AnswerOf(OkResp(creq, 0, 0)) = Service!Ok(0, 0)
  BY DEF AnswerOf, OkResp, Service!Ok
<1>6. AbstractMap' = AbstractMap /\ (1 .. nextHandle - 1)' = 1 .. nextHandle - 1
  BY <1>2, TableKept
<1>. QED
  BY <1>2, <1>4, <1>5, <1>6 DEF Service!DoSync, CallOf

(* The driver drops a COPY_D2D: nothing the service shows changes, the  *)
(* call stays "sent".                                                     *)
LEMMA IgnoreRefines ==
    ASSUME ServiceInv, DriverIgnore
    PROVE  UNCHANGED Service!serviceVars
<1>1. cpc = "wait" /\ tx = << creq >> /\ rx = << >>
  BY InFlight DEF ServiceInv, Dispatch, DriverIgnore
<1>2. UNCHANGED <<rx, dev, nallocs, tableVars, clientVars, restarts>>
  BY DEF DriverIgnore
<1>3. AbstractMap' = AbstractMap /\ (1 .. nextHandle - 1)' = 1 .. nextHandle - 1
  BY <1>2, TableKept
<1>. QED
  BY <1>2, <1>3 DEF Service!serviceVars, ServicePhase, ServiceCall,
                    ServiceAnswer, clientVars

(* send_and_wait's error mapping is the service's, on the answer as the *)
(* service names its errors.                                             *)
LEMMA TranslateAgrees ==
    ASSUME NEW r \in Response, RespWellFormed(r)
    PROVE  Translate(r) = Service!Translate(AnswerOf(r))
<1>1. CASE r.type = "OK"
  BY <1>1 DEF Translate, Service!Translate, AnswerOf
<1>2. CASE r.type = "ERROR"
  <2>1. r.err \in Errors
    BY <1>2 DEF RespWellFormed
  <2>2. CASE r.err \in {"OUT_OF_MEMORY", "INVALID_HANDLE"}
    BY <1>2, <2>1, <2>2 DEF Translate, CudaError, Service!Translate, AnswerOf
  <2>3. CASE r.err \in {"INVALID_SIZE", "CUDA_ERROR"}
    BY <1>2, <2>1, <2>3 DEF Translate, CudaError, Service!Translate, AnswerOf
  <2>. QED
    BY <2>1, <2>2, <2>3 DEF Errors
<1>. QED
  BY <1>1, <1>2 DEF Response

(* What the application keeps from an answer is what the service keeps. *)
LEMMA KeepAgrees ==
    ASSUME NEW req, NEW r
    PROVE  Keep(req, r) = Service!Keep(CallOf(req), AnswerOf(r))
BY DEF Keep, Service!Keep, CallOf, AnswerOf

(* send_and_wait returns the one queued answer to its call. *)
LEMMA MatchRefines ==
    ASSUME ServiceInv, RecvMatch
    PROVE  Service!Return
<1>1. cpc = "wait" /\ rx # << >>
  BY DEF RecvMatch
<1>2. tx = << >> /\ Len(rx) = 1
  BY <1>1 DEF ServiceInv, LeakInv, OneCall, Requested, Answered, Unanswered
<1>3. /\ rx \in Seq(Response) /\ Head(rx) \in Response
      /\ RespWellFormed(Head(rx))
  <2>1. rx \in Seq(Response) /\ RxWellFormed
    BY DEF ServiceInv, LeakInv, IInv, ProxyTypeOK
  <2>. QED
    BY <1>2, <2>1 DEF RxWellFormed
<1>4. /\ rx' = << >> /\ cpc' = "idle"
      /\ cmap' = Keep(creq, Head(rx)) /\ cres' = Translate(Head(rx))
      /\ UNCHANGED <<dev, creq, tableVars>>
  BY <1>2, <1>3 DEF RecvMatch
<1>5. /\ ServicePhase = "done" /\ ServicePhase' = "idle"
      /\ ServiceCall = CallOf(creq) /\ ServiceAnswer = AnswerOf(Head(rx))
      /\ ServiceCall' = Service!NoCall /\ ServiceAnswer' = Service!NoAnswer
  BY <1>1, <1>4 DEF ServicePhase, ServiceCall, ServiceAnswer, Service!NoCall,
                    Service!NoAnswer
<1>6. AbstractMap' = AbstractMap /\ (1 .. nextHandle - 1)' = 1 .. nextHandle - 1
  BY <1>4, TableKept
<1>. QED
  BY <1>3, <1>4, <1>5, <1>6, KeepAgrees, TranslateAgrees DEF Service!Return

(* A step that changes nothing of the proxy changes nothing of the      *)
(* service.                                                              *)
LEMMA StutterRefines ==
    ASSUME UNCHANGED proxyVars
    PROVE  UNCHANGED Service!serviceVars
<1>1. AbstractMap' = AbstractMap /\ (1 .. nextHandle - 1)' = 1 .. nextHandle - 1
  BY TableKept DEF proxyVars, tableVars
<1>. QED
  BY <1>1 DEF proxyVars, Service!serviceVars, ServicePhase, ServiceCall,
              ServiceAnswer

LEMMA ServiceNext ==
    ASSUME NoWrap, NoOffsetWrap, Quiet, ServiceInv, [Next]_proxyVars
    PROVE  [Service!Next]_Service!serviceVars
<1>1. CASE ClientCall
  BY <1>1, CallRefines DEF Service!Next
<1>2. CASE DriverAlloc
  BY <1>2, AllocRefines DEF Service!Next
<1>3. CASE DriverFree
  BY <1>3, FreeRefines DEF Service!Next
<1>4. CASE DriverCopyH2D \/ DriverCopyD2H
  BY <1>4, CopyRefines DEF Service!Next
<1>5. CASE DriverSync
  BY <1>5, SyncRefines DEF Service!Next
<1>6. CASE DriverIgnore
  BY <1>6, IgnoreRefines
<1>7. CASE RecvMatch
  BY <1>7, MatchRefines DEF Service!Next
<1>8. CASE RecvDiscard \/ RecvTimeout \/ GiveUp \/ DriverRestart \/ ClientRestart
  BY <1>8, NoOtherStep DEF ServiceInv
<1>9. CASE UNCHANGED proxyVars
  BY <1>9, StutterRefines
<1>. QED
  BY <1>1, <1>2, <1>3, <1>4, <1>5, <1>6, <1>7, <1>8, <1>9 DEF Next

-----------------------------------------------------------------------------
(* While the driver answers every call in time and no CUDA or malloc call *)
(* fails, the proxy implements the remote service of spec 4.4 and 4.5:    *)
(* each cuMem* call is performed once by the driver's handlers on the     *)
(* handle table and device memory, and send_and_wait returns that         *)
(* operation's answer, mapped to a CUresult; for every ring size, call    *)
(* bound, size set and offset set whose copies stay below 2^64.  The      *)
(* dropped COPY_D2D is a step of no operation: the call stays sent.        *)
THEOREM ProxyIsService ==
    ASSUME NoWrap, NoOffsetWrap, Quiet
    PROVE  Spec => ServiceRefinement
<1>1. Init => ServiceInv /\ Service!Init
  BY ServiceInvInit, ServiceInit
<1>2. ServiceInv /\ [Next]_proxyVars => ServiceInv'
  BY ServiceInvNext
<1>3. ServiceInv /\ [Next]_proxyVars => [Service!Next]_Service!serviceVars
  BY ServiceNext
<1>. QED
  BY <1>1, <1>2, <1>3, PTL DEF Spec, ServiceRefinement, Service!Spec

====
