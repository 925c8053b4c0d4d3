--------------------------- MODULE GpuProxyStable ---------------------------
(***************************************************************************)
(* TLAPS proof that a handle the application holds keeps naming the      *)
(* allocation cuMemAlloc returned it for (ClientHandlesStable), until the *)
(* driver first restarts.  A driver restart resets next_handle to 1       *)
(* (handle_table_init) while the application keeps its handles, and the   *)
(* run proxy_driver_restart_alias shows the property then fails; so the   *)
(* invariant is stated for the states before the first driver restart,    *)
(* and holds in every state when the driver never restarts.               *)
(*                                                                         *)
(* The argument: a handle reaches the application only inside an OK       *)
(* response of handle_gpu_alloc, which carries the handle together with   *)
(* the pointer the table entry holds.  So every binding of a handle to a  *)
(* pointer that exists anywhere (a table entry, an OK response in the    *)
(* driver->user ring, a handle the application holds) agrees with every   *)
(* other binding of the same handle, and every bound handle is below      *)
(* next_handle, so the next insert binds a handle nobody has seen.        *)
(***************************************************************************)
EXTENDS GpuProxyProofs

(* The handle-to-pointer bindings of the table entries, of the OK        *)
(* responses in the driver->user ring, and of the application's handles. *)
TableBindings == {<<entries[i].handle, entries[i].ptr>> : i \in 1 .. Len(entries)}

RespBindings ==
    {<<rx[k].handle, rx[k].ptr>> : k \in {j \in 1 .. Len(rx) : rx[j].type = "OK"}}

HeldBindings == {<<h, cmap[h]>> : h \in DOMAIN cmap}

(* Every handle-to-pointer binding in the system.  The pair <<0, 0>>     *)
(* stands for the OK responses of FREE, the copies and SYNC, which carry  *)
(* handle 0 and pointer 0 (and which send_and_wait may match to an ALLOC  *)
(* call by request_seq).                                                 *)
Bindings == {<<0, 0>>} \cup TableBindings \cup RespBindings \cup HeldBindings

(* No handle is bound to two pointers. *)
BindingsFunctional ==
    \A a, b \in Bindings : a[1] = b[1] => a[2] = b[2]

(* Every bound handle was issued in this lifetime of the driver. *)
BindingsIssued == \A a \in Bindings : a[1] \in 0 .. nextHandle - 1

(* The restart counts, within their bounds. *)
RestartsTyped ==
    /\ restarts \in [{"driver", "client"} -> Nat]
    /\ restarts["driver"] <= MaxDriverRestarts
    /\ restarts["client"] <= MaxClientRestarts

(* The inductive invariant. *)
StableInv ==
    /\ IInv
    /\ RestartsTyped
    /\ restarts["driver"] = 0 => BindingsFunctional /\ BindingsIssued

-----------------------------------------------------------------------------
(* A set of bindings stays functional and issued when it grows by at    *)
(* most one binding of the handle next_handle, which is then advanced.   *)
LEMMA BindingsExtend ==
    ASSUME NEW B, NEW C, NEW n \in Nat, NEW q,
           \A a, b \in B : a[1] = b[1] => a[2] = b[2],
           \A a \in B : a[1] \in 0 .. n - 1,
           C \subseteq B \cup {<<n, q>>}
    PROVE  /\ \A a, b \in C : a[1] = b[1] => a[2] = b[2]
           /\ \A a \in C : a[1] \in 0 .. n
<1>1. \A a \in B : a[1] # n
  OBVIOUS
<1>. QED
  BY <1>1

(* A reply adds at most the binding the response carries. *)
LEMMA ReplyBindings ==
    ASSUME NEW resp, rx \in Seq(Response), Reply(resp)
    PROVE  RespBindings' \subseteq RespBindings \cup {<<resp.handle, resp.ptr>>}
<1>1. CASE rx' = Append(rx, resp)
  <2>1. /\ Len(rx') = Len(rx) + 1
        /\ \A k \in 1 .. Len(rx) : rx'[k] = rx[k]
        /\ rx'[Len(rx) + 1] = resp
    BY <1>1
  <2>. QED
    BY <2>1 DEF RespBindings
<1>2. CASE UNCHANGED rx
  BY <1>2 DEF RespBindings
<1>. QED
  BY <1>1, <1>2 DEF Reply

(* Taking the head of the driver->user ring loses its binding, if any. *)
LEMMA TailBindings ==
    ASSUME rx \in Seq(Response), rx # <<>>
    PROVE  /\ {<<Tail(rx)[k].handle, Tail(rx)[k].ptr>> :
                 k \in {j \in 1 .. Len(Tail(rx)) : Tail(rx)[j].type = "OK"}}
                \subseteq RespBindings
           /\ Head(rx).type = "OK" =>
                <<Head(rx).handle, Head(rx).ptr>> \in RespBindings
<1>1. /\ Len(Tail(rx)) = Len(rx) - 1
      /\ \A k \in 1 .. Len(Tail(rx)) : Tail(rx)[k] = rx[k + 1]
      /\ Head(rx) = rx[1] /\ 1 \in 1 .. Len(rx)
  BY HeadTailProperties
<1>2. \A k \in 1 .. Len(Tail(rx)) : k + 1 \in 1 .. Len(rx)
  BY <1>1
<1>. QED
  BY <1>1, <1>2 DEF RespBindings

(* What the application keeps after a call holds the bindings it held,  *)
(* and at most the one an OK response carried.                           *)
LEMMA KeepBindings ==
    ASSUME NEW req, NEW r
    PROVE  \A a \in {<<h, Keep(req, r)[h]>> : h \in DOMAIN Keep(req, r)} :
              a \in HeldBindings \/ (r.type = "OK" /\ a = <<r.handle, r.ptr>>)
BY DEF Keep, HeldBindings

(* handle_table_insert adds the binding of next_handle to the pointer. *)
LEMMA InsertBindings ==
    ASSUME TableTypeOK, NEW z \in Zones, NEW p \in Ptrs, NEW s \in Sizes,
           Insert(z, p, s)
    PROVE  TableBindings' \subseteq TableBindings \cup {<<nextHandle, p>>}
<1> DEFINE e == [handle |-> nextHandle, zone |-> z, ptr |-> p, size |-> s]
<1>1. e \in Entry /\ entries \in Seq(Entry)
  BY DEF TableTypeOK, Entry
<1>2. /\ entries' = <<e>> \o entries
      /\ Len(entries') = Len(entries) + 1
      /\ entries'[1] = e
      /\ \A k \in 2 .. Len(entries) + 1 : entries'[k] = entries[k - 1]
  BY <1>1, PushProperties DEF Insert
<1>. QED
  BY <1>2 DEF TableBindings

(* handle_table_remove only drops bindings. *)
LEMMA RemoveBindings ==
    ASSUME TableInv, NEW z, NEW h, Remove(z, h)
    PROVE  TableBindings' \subseteq TableBindings
<1> DEFINE f == First(h)
<1>1. f \in 1 .. Len(entries) /\ entries \in Seq(Entry)
  BY FirstFound DEF Remove, Owned, Found, TableInv, TableTypeOK
<1>2. /\ entries' = Without(entries, f)
      /\ Len(entries') = Len(entries) - 1
      /\ \A k \in 1 .. Len(entries) - 1 :
            entries'[k] = IF k < f THEN entries[k] ELSE entries[k + 1]
  BY <1>1, WithoutProperties DEF Remove
<1>3. \A k \in 1 .. Len(entries) - 1 :
         (IF k < f THEN k ELSE k + 1) \in 1 .. Len(entries)
  BY <1>1
<1>. QED
  BY <1>2, <1>3 DEF TableBindings

(* A step keeps the bindings: it adds none and next_handle stays. *)
BindingsKept == Bindings' \subseteq Bindings /\ nextHandle' = nextHandle

(* A handler that answers with handle 0 and pointer 0 (every error, and  *)
(* the OK of FREE, the copies and SYNC), or not at all, and does not add *)
(* to the table, keeps the bindings.                                     *)
LEMMA AnswerKept ==
    ASSUME rx \in Seq(Response), NEW resp,
           \/ resp.handle = 0 /\ resp.ptr = 0 /\ Reply(resp)
           \/ UNCHANGED rx,
           TableBindings' \subseteq TableBindings,
           UNCHANGED <<cmap, nextHandle>>
    PROVE  BindingsKept
<1>1. RespBindings' \subseteq RespBindings \cup {<<0, 0>>}
  <2>1. CASE UNCHANGED rx
    BY <2>1 DEF RespBindings
  <2>2. CASE resp.handle = 0 /\ resp.ptr = 0 /\ Reply(resp)
    BY <2>2, ReplyBindings
  <2>. QED
    BY <2>1, <2>2
<1>2. HeldBindings' = HeldBindings
  BY DEF HeldBindings
<1>. QED
  BY <1>1, <1>2 DEF BindingsKept, Bindings

(* The responses send_response_error and the handle-less                 *)
(* send_response_ok build carry handle 0 and pointer 0.                   *)
LEMMA ZeroResp ==
    ASSUME NEW req, NEW e
    PROVE  /\ ErrResp(req, e).handle = 0 /\ ErrResp(req, e).ptr = 0
           /\ OkResp(req, 0, 0).handle = 0 /\ OkResp(req, 0, 0).ptr = 0
BY DEF ErrResp, OkResp

-----------------------------------------------------------------------------
(* The steps of the driver.                                               *)

(* A step adds at most the binding of next_handle to the fresh pointer, *)
(* and advances next_handle.                                             *)
BindingsGrown ==
    /\ Bindings' \subseteq Bindings \cup {<<nextHandle, nallocs + 1>>}
    /\ nextHandle' = nextHandle + 1

(* handle_gpu_alloc: the failure paths before handle_table_insert answer *)
(* with an error; after it, the OK response carries the handle just      *)
(* inserted and the pointer of its entry (and the "handle == 0" path,    *)
(* an error, adds the entry alone).                                       *)
LEMMA AllocBindings ==
    ASSUME NoWrap, IInv, DriverAlloc
    PROVE  BindingsKept \/ BindingsGrown
<1> DEFINE req == Head(tx)
<1> DEFINE p == nallocs + 1
<1>1. /\ req \in Request /\ req.size \in Sizes /\ req.zone \in Zones
      /\ p \in Ptrs /\ rx \in Seq(Response) /\ TableInv
      /\ UNCHANGED <<cmap, restarts>>
  <2>1. /\ tx \in Seq(Request) /\ Len(tx) <= Capacity /\ TxWellFormed
        /\ nallocs \in Nat /\ calls \in 0 .. MaxCalls
        /\ nallocs + Len(tx) <= calls
    BY ProxyAssumption DEF IInv, ProxyTypeOK, Fresh
  <2>2. req \in Request /\ req.size \in Sizes /\ nallocs + 1 <= calls
    BY <2>1, DispatchTyped DEF DriverAlloc
  <2>3. req.zone \in Zones
    BY <2>2 DEF Request
  <2>4. p \in Ptrs
    BY <2>1, <2>2, ProxyAssumption
  <2>5. rx \in Seq(Response) /\ TableInv
    BY DEF IInv, ProxyTypeOK
  <2>6. UNCHANGED <<cmap, restarts>>
    BY DEF DriverAlloc, clientVars
  <2>. QED
    BY <2>2, <2>3, <2>4, <2>5, <2>6
<1>2. CASE /\ Reply(ErrResp(req, "CUDA_ERROR"))
           /\ UNCHANGED <<dev, nallocs, tableVars>>
  <2>1. TableBindings' \subseteq TableBindings /\ UNCHANGED nextHandle
    BY <1>2 DEF TableBindings, tableVars
  <2>. QED
    BY <1>1, <1>2, <2>1, ZeroResp, AnswerKept
<1>3. CASE /\ nallocs' = nallocs + 1
           /\ Reply(ErrResp(req, "OUT_OF_MEMORY"))
           /\ UNCHANGED <<dev, tableVars>>
  <2>1. TableBindings' \subseteq TableBindings /\ UNCHANGED nextHandle
    BY <1>3 DEF TableBindings, tableVars
  <2>. QED
    BY <1>1, <1>3, <2>1, ZeroResp, AnswerKept
<1>4. CASE /\ Insert(req.zone, p, req.size)
           /\ nallocs' = nallocs + 1
           /\ IF NewHandle = 0
                THEN Reply(ErrResp(req, "OUT_OF_MEMORY")) /\ UNCHANGED dev
                ELSE Reply(OkResp(req, NewHandle, p)) /\ dev' = dev \cup {p}
  <2>1. TableBindings' \subseteq TableBindings \cup {<<nextHandle, p>>}
    BY <1>1, <1>4, InsertBindings DEF TableInv
  <2>2. RespBindings' \subseteq RespBindings \cup {<<0, 0>>, <<nextHandle, p>>}
    <3>1. CASE NewHandle = 0
      BY <1>1, <1>4, <3>1, ZeroResp, ReplyBindings
    <3>2. CASE NewHandle # 0
      <4>1. OkResp(req, NewHandle, p).handle = nextHandle
            /\ OkResp(req, NewHandle, p).ptr = p
        BY DEF OkResp, NewHandle
      <4>. QED
        BY <1>1, <1>4, <3>2, <4>1, ReplyBindings
    <3>. QED
      BY <3>1, <3>2
  <2>3. HeldBindings' = HeldBindings
    BY <1>1 DEF HeldBindings
  <2>4. nextHandle' = nextHandle + 1
    <3>1. nextHandle \in 1 .. MaxInserts /\ nextHandle + 1 < Word
      BY <1>1, <1>4, HandleTableAssumption
         DEF NoWrap, TableInv, TableTypeOK, CounterBound, Insert
    <3>2. nextHandle' = (nextHandle + 1) % Word
      BY <1>4 DEF Insert
    <3>. QED
      BY <3>1, <3>2, HandleTableAssumption
  <2>. QED
    BY <2>1, <2>2, <2>3, <2>4 DEF BindingsGrown, Bindings
<1>. QED
  BY <1>2, <1>3, <1>4 DEF DriverAlloc

(* handle_gpu_free: an unknown or foreign handle is answered with an     *)
(* error; otherwise the entry is removed and the answer carries handle 0. *)
LEMMA FreeBindings ==
    ASSUME IInv, DriverFree
    PROVE  BindingsKept
<1> DEFINE req == Head(tx)
<1>1. rx \in Seq(Response) /\ TableInv /\ UNCHANGED cmap
  BY DEF IInv, ProxyTypeOK, DriverFree, clientVars
<1>2. CASE Reply(ErrResp(req, "INVALID_HANDLE")) /\ UNCHANGED tableVars
  <2>1. TableBindings' \subseteq TableBindings /\ UNCHANGED nextHandle
    BY <1>2 DEF TableBindings, tableVars
  <2>. QED
    BY <1>1, <1>2, <2>1, ZeroResp, AnswerKept
<1>3. CASE Remove(req.zone, req.handle) /\ Reply(OkResp(req, 0, 0))
  <2>1. TableBindings' \subseteq TableBindings /\ UNCHANGED nextHandle
    BY <1>1, <1>3, RemoveBindings DEF Remove
  <2>. QED
    BY <1>1, <1>3, <2>1, ZeroResp, AnswerKept
<1>4. CASE Remove(req.zone, req.handle) /\ Reply(ErrResp(req, "CUDA_ERROR"))
  <2>1. TableBindings' \subseteq TableBindings /\ UNCHANGED nextHandle
    BY <1>1, <1>4, RemoveBindings DEF Remove
  <2>. QED
    BY <1>1, <1>4, <2>1, ZeroResp, AnswerKept
<1>. QED
  BY <1>2, <1>3, <1>4 DEF DriverFree

(* The copy handlers answer with an error or with handle 0. *)
LEMMA CopyBindings ==
    ASSUME IInv, DriverCopyH2D \/ DriverCopyD2H
    PROVE  BindingsKept
<1> DEFINE req == Head(tx)
<1>1. /\ rx \in Seq(Response) /\ UNCHANGED <<cmap, tableVars>>
      /\ \E b \in BOOLEAN : CopyReply(req, b)
  BY DEF IInv, ProxyTypeOK, DriverCopyH2D, DriverCopyD2H, clientVars
<1>2. TableBindings' \subseteq TableBindings /\ UNCHANGED nextHandle
  BY <1>1 DEF TableBindings, tableVars
<1>3. \E resp : resp.handle = 0 /\ resp.ptr = 0 /\ Reply(resp)
  BY <1>1, ZeroResp DEF CopyReply
<1>. QED
  BY <1>1, <1>2, <1>3, AnswerKept

(* handle_gpu_sync answers OK with handle 0, or an error. *)
LEMMA SyncBindings ==
    ASSUME IInv, DriverSync
    PROVE  BindingsKept
<1>1. rx \in Seq(Response) /\ UNCHANGED <<cmap, tableVars>>
  BY DEF IInv, ProxyTypeOK, DriverSync, clientVars
<1>2. TableBindings' \subseteq TableBindings /\ UNCHANGED nextHandle
  BY <1>1 DEF TableBindings, tableVars
<1>3. \E resp : resp.handle = 0 /\ resp.ptr = 0 /\ Reply(resp)
  BY ZeroResp DEF DriverSync
<1>. QED
  BY <1>1, <1>2, <1>3, AnswerKept

(* COPY_D2D has no handler and gets no answer. *)
LEMMA IgnoreBindings ==
    ASSUME DriverIgnore
    PROVE  BindingsKept
BY DEF DriverIgnore, clientVars, tableVars, BindingsKept, Bindings,
       TableBindings, RespBindings, HeldBindings

-----------------------------------------------------------------------------
(* The steps of the application.                                          *)

(* A call only sends a request. *)
LEMMA ClientCallBindings ==
    ASSUME ClientCall
    PROVE  BindingsKept
BY DEF ClientCall, tableVars, BindingsKept, Bindings, TableBindings,
       RespBindings, HeldBindings

(* send_and_wait takes the matching response; after a successful         *)
(* cuMemAlloc the application keeps the handle and pointer the response  *)
(* carried, and after a successful cuMemFree it drops the handle.        *)
LEMMA RecvMatchBindings ==
    ASSUME IInv, RecvMatch
    PROVE  BindingsKept
<1>1. rx \in Seq(Response) /\ rx # <<>> /\ rx' = Tail(rx)
      /\ cmap' = Keep(creq, Head(rx)) /\ UNCHANGED tableVars
  BY DEF IInv, ProxyTypeOK, RecvMatch
<1>2. RespBindings' \subseteq RespBindings
  BY <1>1, TailBindings DEF RespBindings
<1>3. HeldBindings' \subseteq HeldBindings \cup RespBindings
  BY <1>1, TailBindings, KeepBindings DEF HeldBindings
<1>4. TableBindings' = TableBindings /\ UNCHANGED nextHandle
  BY <1>1 DEF TableBindings, tableVars
<1>. QED
  BY <1>2, <1>3, <1>4 DEF BindingsKept, Bindings

(* send_and_wait frees a response for another request. *)
LEMMA RecvDiscardBindings ==
    ASSUME IInv, RecvDiscard
    PROVE  BindingsKept
<1>1. rx \in Seq(Response) /\ rx # <<>> /\ rx' = Tail(rx)
      /\ UNCHANGED <<cmap, tableVars>>
  BY DEF IInv, ProxyTypeOK, RecvDiscard
<1>2. RespBindings' \subseteq RespBindings
  BY <1>1, TailBindings DEF RespBindings
<1>. QED
  BY <1>1, <1>2 DEF BindingsKept, Bindings, TableBindings, HeldBindings,
                    tableVars

(* A timeout or giving up changes no binding. *)
LEMMA WaitBindings ==
    ASSUME RecvTimeout \/ GiveUp
    PROVE  BindingsKept
BY DEF RecvTimeout, GiveUp, tableVars, BindingsKept, Bindings,
       TableBindings, RespBindings, HeldBindings

(* A new application holds no handles. *)
LEMMA ClientRestartBindings ==
    ASSUME ClientRestart
    PROVE  BindingsKept
<1>1. HeldBindings' = {}
  BY DEF ClientRestart, HeldBindings
<1>. QED
  BY <1>1 DEF ClientRestart, tableVars, BindingsKept, Bindings,
              TableBindings, RespBindings

-----------------------------------------------------------------------------
(* The restart counts are numbers, and every step but a driver restart   *)
(* leaves the driver's count alone.                                       *)
LEMMA RestartsStep ==
    ASSUME RestartsTyped, [Next]_proxyVars
    PROVE  /\ RestartsTyped'
           /\ ~DriverRestart => restarts'["driver"] = restarts["driver"]
           /\ DriverRestart => restarts'["driver"] # 0
           /\ ~ClientRestart => restarts'["client"] = restarts["client"]
           /\ ClientRestart => restarts'["client"] # 0
<1>1. CASE DriverRestart \/ ClientRestart
  BY <1>1, ProxyAssumption DEF RestartsTyped, DriverRestart, ClientRestart
<1>2. CASE ~(DriverRestart \/ ClientRestart)
  <2>1. UNCHANGED restarts
    BY <1>2 DEF Next, proxyVars, DriverAlloc, DriverFree, DriverCopyH2D,
                DriverCopyD2H, DriverSync, DriverIgnore, ClientCall,
                RecvMatch, RecvDiscard, RecvTimeout, GiveUp
  <2>. QED
    BY <1>2, <2>1 DEF RestartsTyped
<1>. QED
  BY <1>1, <1>2

(* Before the driver's first restart, a step either keeps the bindings   *)
(* or is handle_gpu_alloc binding next_handle afresh.                    *)
LEMMA BindingsStep ==
    ASSUME NoWrap, IInv, [Next]_proxyVars, ~DriverRestart
    PROVE  BindingsKept \/ BindingsGrown
<1>1. CASE UNCHANGED proxyVars
  BY <1>1 DEF proxyVars, tableVars, BindingsKept, Bindings, TableBindings,
              RespBindings, HeldBindings
<1>. QED
  BY <1>1, AllocBindings, FreeBindings, CopyBindings, SyncBindings,
     IgnoreBindings, ClientCallBindings, RecvMatchBindings,
     RecvDiscardBindings, WaitBindings, ClientRestartBindings DEF Next

(* StableInv is inductive. *)
LEMMA StableInvNext ==
    ASSUME NoWrap, StableInv, [Next]_proxyVars
    PROVE  StableInv'
<1>1. IInv' /\ RestartsTyped'
  BY NextInv, RestartsStep DEF StableInv
<1>2. SUFFICES ASSUME restarts'["driver"] = 0
               PROVE  BindingsFunctional' /\ BindingsIssued'
  BY <1>1 DEF StableInv
<1>3. ~DriverRestart /\ restarts["driver"] = 0
  BY <1>2, RestartsStep DEF StableInv
<1>4. BindingsFunctional /\ BindingsIssued /\ nextHandle \in Nat
  BY <1>3 DEF StableInv, IInv, ProxyTypeOK, TableTypeOK
<1>5. CASE BindingsKept
  BY <1>4, <1>5 DEF BindingsKept, BindingsFunctional, BindingsIssued
<1>6. CASE BindingsGrown
  <2>1. /\ \A a, b \in Bindings' : a[1] = b[1] => a[2] = b[2]
        /\ \A a \in Bindings' : a[1] \in 0 .. nextHandle
    BY <1>4, <1>6, BindingsExtend DEF BindingsGrown, BindingsFunctional,
                                      BindingsIssued
  <2>2. 0 .. nextHandle = 0 .. nextHandle' - 1
    BY <1>4, <1>6 DEF BindingsGrown
  <2>. QED
    BY <2>1, <2>2 DEF BindingsFunctional, BindingsIssued
<1>7. BindingsKept \/ BindingsGrown
  BY <1>3, BindingsStep DEF StableInv
<1>. QED
  BY <1>5, <1>6, <1>7

LEMMA StableInvInit == Init => StableInv
<1> SUFFICES ASSUME Init PROVE StableInv
  OBVIOUS
<1>1. IInv
  BY InitInv
<1>2. Bindings = {<<0, 0>>} /\ nextHandle = 1
  BY DEF Init, TableInit, Bindings, TableBindings, RespBindings, HeldBindings
<1>. QED
  BY <1>1, <1>2, ProxyAssumption DEF StableInv, RestartsTyped, Init,
                                     BindingsFunctional, BindingsIssued

LEMMA StableInvAlways ==
    ASSUME NoWrap
    PROVE  Spec => []StableInv
BY StableInvInit, StableInvNext, PTL DEF Spec

-----------------------------------------------------------------------------
(* Until the driver first restarts, a handle the application holds that  *)
(* the driver's table knows stands for the allocation cuMemAlloc         *)
(* returned it for: handle_gpu_alloc's answer pairs the handle with the  *)
(* pointer of its entry, next_handle never hands out a handle twice, and *)
(* no request_seq mix-up in send_and_wait can bind a handle to another   *)
(* pointer, whatever the interleaving of calls, lost and late responses,  *)
(* failed backend calls and restarts of the application.                 *)
THEOREM HandlesStableUntilRestart ==
    ASSUME NoWrap
    PROVE  Spec => [](restarts["driver"] = 0 => ClientHandlesStable)
<1>1. StableInv => (restarts["driver"] = 0 => ClientHandlesStable)
  <2>1. SUFFICES ASSUME StableInv, restarts["driver"] = 0,
                        NEW i \in 1 .. Len(entries),
                        entries[i].handle \in DOMAIN cmap
                 PROVE  entries[i].ptr = cmap[entries[i].handle]
    BY DEF ClientHandlesStable
  <2>2. /\ <<entries[i].handle, entries[i].ptr>> \in Bindings
        /\ <<entries[i].handle, cmap[entries[i].handle]>> \in Bindings
    BY <2>1 DEF Bindings, TableBindings, HeldBindings
  <2>. QED
    BY <2>1, <2>2 DEF StableInv, BindingsFunctional
<1>. QED
  BY <1>1, StableInvAlways, PTL

(* When the driver never restarts (as in run proxy_client_restart), the  *)
(* application's handles are stable in every state.                      *)
THEOREM HandlesStable ==
    ASSUME NoWrap, MaxDriverRestarts = 0
    PROVE  Spec => []ClientHandlesStable
<1>1. StableInv => restarts["driver"] = 0
  <2>1. SUFFICES ASSUME StableInv, restarts["driver"] # 0 PROVE FALSE
    OBVIOUS
  <2>. QED
    BY <2>1 DEF StableInv, RestartsTyped
<1>. QED
  BY <1>1, HandlesStableUntilRestart, StableInvAlways, PTL

====
