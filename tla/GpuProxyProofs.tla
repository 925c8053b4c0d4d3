--------------------------- MODULE GpuProxyProofs ---------------------------
(***************************************************************************)
(* TLAPS proofs about the GPU proxy (GpuProxy): every reachable state is  *)
(* well typed, and every entry of the driver's handle table stands for    *)
(* its own live device allocation, for every ring size, every bound on    *)
(* calls and restarts, and with or without failing backend calls.         *)
(*                                                                         *)
(* As for the table alone (HandleTableProofs) the results need NoWrap:    *)
(* next_handle must not wrap to 0, or handle_gpu_alloc's "handle == 0"    *)
(* rollback leaves a table entry whose memory it has freed.               *)
(***************************************************************************)
EXTENDS GpuProxy, HandleTableProofs, TLAPS

(* Device pointers are fresh: cuMemAlloc has returned nallocs of them so  *)
(* far, and every queued request may still make one more, within the     *)
(* calls the application made.                                            *)
Fresh ==
    /\ dev \subseteq 1 .. nallocs
    /\ nallocs + Len(tx) <= calls

(* A queued request names a 64-bit handle, and an ALLOC one a size of    *)
(* Sizes: what cuMemAlloc and the other calls put into the message.       *)
TxWellFormed ==
    \A k \in 1 .. Len(tx) :
        /\ tx[k].handle \in 0 .. Word - 1
        /\ tx[k].type = "ALLOC" => tx[k].size \in Sizes

(* A queued response carries a 64-bit handle, a pointer cuMemAlloc      *)
(* returned (or 0), and, if it is an error, one of the driver's error     *)
(* codes, which send_and_wait's mapping knows.                            *)
RespWellFormed(r) ==
    /\ r.handle \in 0 .. Word - 1
    /\ r.ptr \in 0 .. MaxCalls
    /\ r.type = "ERROR" => r.err \in Errors

RxWellFormed == \A k \in 1 .. Len(rx) : RespWellFormed(rx[k])

(* The inductive invariant. *)
IInv ==
    /\ ProxyTypeOK
    /\ TableInv
    /\ TableEntriesBacked
    /\ Fresh
    /\ TxWellFormed
    /\ RxWellFormed

-----------------------------------------------------------------------------
(* The responses send_response_ok and send_response_error build. *)
LEMMA RespTyped ==
    ASSUME NEW req \in Request, NEW e \in Errors,
           NEW h \in 0 .. Word - 1, NEW p \in 0 .. MaxCalls
    PROVE  /\ ErrResp(req, e) \in Response /\ RespWellFormed(ErrResp(req, e))
           /\ OkResp(req, h, p) \in Response /\ RespWellFormed(OkResp(req, h, p))
BY ProxyAssumption, HandleTableAssumption
   DEF ErrResp, OkResp, Request, Response, Errors, RespWellFormed

(* A reply keeps the driver->user ring a bounded sequence of well-formed  *)
(* responses.                                                             *)
LEMMA ReplyTyped ==
    ASSUME NEW resp \in Response, RespWellFormed(resp),
           rx \in Seq(Response), Len(rx) <= Capacity, RxWellFormed,
           Reply(resp)
    PROVE  /\ rx' \in Seq(Response) /\ Len(rx') <= Capacity
           /\ RxWellFormed'
<1>1. CASE Len(rx) < Capacity /\ rx' = Append(rx, resp)
  BY <1>1, ProxyAssumption DEF RxWellFormed
<1>2. CASE UNCHANGED rx
  BY <1>2 DEF RxWellFormed
<1>. QED
  BY <1>1, <1>2 DEF Reply

(* idm_recv in the driver's loop: the head of the user->driver ring is   *)
(* taken off and handled.                                                 *)
LEMMA DispatchTyped ==
    ASSUME NEW t, tx \in Seq(Request), Len(tx) <= Capacity, TxWellFormed,
           nallocs \in Nat, calls \in Nat, nallocs + Len(tx) <= calls,
           Dispatch(t)
    PROVE  /\ Head(tx) \in Request /\ Head(tx).type = t
           /\ Head(tx).handle \in 0 .. Word - 1
           /\ t = "ALLOC" => Head(tx).size \in Sizes
           /\ tx' \in Seq(Request) /\ Len(tx') <= Capacity /\ TxWellFormed'
           /\ nallocs + 1 + Len(tx') <= calls
<1>1. tx # <<>> /\ Head(tx).type = t /\ tx' = Tail(tx)
  BY DEF Dispatch
<1>2. /\ Len(tx) \in 1 .. Capacity
      /\ Head(tx) = tx[1] /\ Head(tx) \in Request
      /\ tx' \in Seq(Request) /\ Len(tx') = Len(tx) - 1
      /\ \A k \in 1 .. Len(tx') : tx'[k] = tx[k + 1]
  BY <1>1, HeadTailProperties
<1>3. TxWellFormed'
  BY <1>2 DEF TxWellFormed
<1>4. Head(tx).handle \in 0 .. Word - 1 /\ (t = "ALLOC" => Head(tx).size \in Sizes)
  BY <1>1, <1>2 DEF TxWellFormed
<1>5. Len(tx') <= Capacity /\ nallocs + 1 + Len(tx') <= calls
  BY <1>2, ProxyAssumption
<1>. QED
  BY <1>1, <1>2, <1>3, <1>4, <1>5

LEMMA InitInv == Init => IInv
<1> SUFFICES ASSUME Init PROVE IInv
  OBVIOUS
<1>1. TableInv /\ TableTypeOK
  BY TableInvInit DEF Init, TableInv
<1>2. NoRequest \in Request
  BY ProxyAssumption DEF NoRequest, Request, Ops
<1>3. ProxyTypeOK
  BY <1>1, <1>2, ProxyAssumption DEF Init, ProxyTypeOK
<1>4. TableEntriesBacked /\ Fresh /\ TxWellFormed /\ RxWellFormed
  BY DEF Init, TableInit, TableEntriesBacked, Fresh, TxWellFormed,
         RxWellFormed
<1>. QED
  BY <1>1, <1>3, <1>4 DEF IInv

(* A handler step: it takes its request off the ring, may append a       *)
(* well-formed response and allocate one fresh pointer, keeps the table   *)
(* invariant and every entry backed, and leaves the application alone.    *)
LEMMA DriverStepInv ==
    ASSUME IInv, NEW t, Dispatch(t),
           rx' \in Seq(Response), Len(rx') <= Capacity, RxWellFormed',
           TableInv', TableEntriesBacked',
           nallocs' \in {nallocs, nallocs + 1}, dev' \subseteq 1 .. nallocs',
           UNCHANGED <<clientVars, restarts>>
    PROVE  IInv'
<1>1. /\ tx \in Seq(Request) /\ Len(tx) <= Capacity /\ TxWellFormed
      /\ nallocs \in Nat /\ calls \in 0 .. MaxCalls /\ nallocs + Len(tx) <= calls
  BY ProxyAssumption DEF IInv, ProxyTypeOK, Fresh
<1>2. /\ tx' \in Seq(Request) /\ Len(tx') <= Capacity /\ TxWellFormed'
      /\ nallocs + 1 + Len(tx') <= calls
  BY <1>1, DispatchTyped
<1>3. nallocs' \in 0 .. MaxCalls /\ nallocs' + Len(tx') <= calls'
  BY <1>1, <1>2, ProxyAssumption DEF clientVars
<1>4. dev' \subseteq Ptrs
  BY <1>3, ProxyAssumption
<1>5. ProxyTypeOK'
  BY <1>2, <1>3, <1>4 DEF IInv, ProxyTypeOK, TableInv, clientVars
<1>. QED
  BY <1>2, <1>3, <1>5 DEF IInv, Fresh

(* A handler that only answers: the table, the device memory and the     *)
(* allocation count are left alone.                                       *)
LEMMA AnswerOnlyInv ==
    ASSUME IInv, NEW t, Dispatch(t),
           rx' \in Seq(Response), Len(rx') <= Capacity, RxWellFormed',
           UNCHANGED <<dev, nallocs, tableVars, clientVars, restarts>>
    PROVE  IInv'
<1>1. TableInv' /\ TableEntriesBacked'
  BY DEF IInv, TableInv, TableTypeOK, CounterBound, Issued, Ordered,
         TableEntriesBacked, tableVars
<1>2. dev' \subseteq 1 .. nallocs'
  BY DEF IInv, Fresh
<1>. QED
  BY <1>1, <1>2, DriverStepInv

(* The request a copy, sync or ignore handler works on. *)
LEMMA HeadTyped ==
    ASSUME IInv, NEW t, Dispatch(t)
    PROVE  Head(tx) \in Request
BY ProxyAssumption, DispatchTyped DEF IInv, ProxyTypeOK, Fresh

LEMMA CopyInv ==
    ASSUME IInv, DriverCopyH2D \/ DriverCopyD2H
    PROVE  IInv'
<1>1. PICK t \in {"H2D", "D2H"}, hb \in BOOLEAN :
           /\ Dispatch(t) /\ CopyReply(Head(tx), hb)
           /\ UNCHANGED <<dev, nallocs, tableVars, clientVars, restarts>>
  BY DEF DriverCopyH2D, DriverCopyD2H
<1>2. Head(tx) \in Request
  BY <1>1, HeadTyped
<1>3. rx \in Seq(Response) /\ Len(rx) <= Capacity /\ RxWellFormed
  BY DEF IInv, ProxyTypeOK
<1>4. /\ rx' \in Seq(Response) /\ Len(rx') <= Capacity /\ RxWellFormed'
  <2>1. \E e \in Errors : Reply(ErrResp(Head(tx), e)) \/ Reply(OkResp(Head(tx), 0, 0))
    BY <1>1 DEF CopyReply, Errors
  <2>2. 0 \in 0 .. Word - 1 /\ 0 \in 0 .. MaxCalls
    BY HandleTableAssumption, ProxyAssumption
  <2>. QED
    BY <1>2, <1>3, <2>1, <2>2, RespTyped, ReplyTyped
<1>. QED
  BY <1>1, <1>4, AnswerOnlyInv

LEMMA SyncInv ==
    ASSUME IInv, DriverSync
    PROVE  IInv'
<1>1. Head(tx) \in Request
  BY HeadTyped DEF DriverSync
<1>2. rx \in Seq(Response) /\ Len(rx) <= Capacity /\ RxWellFormed
  BY DEF IInv, ProxyTypeOK
<1>3. 0 \in 0 .. Word - 1 /\ 0 \in 0 .. MaxCalls /\ "CUDA_ERROR" \in Errors
  BY HandleTableAssumption, ProxyAssumption DEF Errors
<1>4. rx' \in Seq(Response) /\ Len(rx') <= Capacity /\ RxWellFormed'
  BY <1>1, <1>2, <1>3, RespTyped, ReplyTyped DEF DriverSync
<1>. QED
  BY <1>4, AnswerOnlyInv DEF DriverSync

LEMMA IgnoreInv ==
    ASSUME IInv, DriverIgnore
    PROVE  IInv'
<1>1. rx' \in Seq(Response) /\ Len(rx') <= Capacity /\ RxWellFormed'
  BY DEF IInv, ProxyTypeOK, RxWellFormed, DriverIgnore
<1>. QED
  BY <1>1, AnswerOnlyInv DEF DriverIgnore

(* handle_gpu_alloc: the fresh pointer nallocs + 1 is in no entry, so    *)
(* pushing it keeps the entries' pointers distinct; next_handle is at     *)
(* least 1, so the "handle == 0" rollback that would leave an entry       *)
(* without memory is never taken.                                         *)
LEMMA AllocInv ==
    ASSUME NoWrap, IInv, DriverAlloc
    PROVE  IInv'
<1> DEFINE req == Head(tx)
<1> DEFINE p == nallocs + 1
<1>1. /\ Dispatch("ALLOC")
      /\ UNCHANGED <<clientVars, restarts>>
  BY DEF DriverAlloc
<1>2. /\ req \in Request /\ req.size \in Sizes /\ req.zone \in Zones
      /\ nallocs \in Nat /\ p \in Ptrs
  <2>1. /\ tx \in Seq(Request) /\ Len(tx) <= Capacity /\ TxWellFormed
        /\ nallocs \in Nat /\ calls \in 0 .. MaxCalls
        /\ nallocs + Len(tx) <= calls
    BY ProxyAssumption DEF IInv, ProxyTypeOK, Fresh
  <2>2. req \in Request /\ req.size \in Sizes /\ nallocs + 1 <= calls
    BY <1>1, <2>1, DispatchTyped
  <2>3. req.zone \in Zones
    BY <2>2 DEF Request
  <2>4. p \in Ptrs
    BY <2>1, <2>2, ProxyAssumption
  <2>. QED
    BY <2>1, <2>2, <2>3, <2>4
<1>3. /\ rx \in Seq(Response) /\ Len(rx) <= Capacity /\ RxWellFormed
      /\ TableInv /\ TableEntriesBacked /\ dev \subseteq 1 .. nallocs
  BY DEF IInv, ProxyTypeOK, Fresh
<1>4. /\ 0 \in 0 .. Word - 1 /\ 0 \in 0 .. MaxCalls /\ p \in 0 .. MaxCalls
      /\ "CUDA_ERROR" \in Errors /\ "OUT_OF_MEMORY" \in Errors
  BY <1>2, HandleTableAssumption, ProxyAssumption DEF Errors
<1>5. CASE /\ Reply(ErrResp(req, "CUDA_ERROR"))
           /\ UNCHANGED <<dev, nallocs, tableVars>>
  <2>1. rx' \in Seq(Response) /\ Len(rx') <= Capacity /\ RxWellFormed'
    BY <1>2, <1>3, <1>4, <1>5, RespTyped, ReplyTyped
  <2>. QED
    BY <1>1, <1>5, <2>1, AnswerOnlyInv
<1>6. CASE /\ nallocs' = nallocs + 1
           /\ Reply(ErrResp(req, "OUT_OF_MEMORY"))
           /\ UNCHANGED <<dev, tableVars>>
  <2>1. rx' \in Seq(Response) /\ Len(rx') <= Capacity /\ RxWellFormed'
    BY <1>2, <1>3, <1>4, <1>6, RespTyped, ReplyTyped
  <2>2. TableInv' /\ TableEntriesBacked'
    BY <1>3, <1>6 DEF TableInv, TableTypeOK, CounterBound, Issued, Ordered,
                     TableEntriesBacked, tableVars
  <2>3. dev' \subseteq 1 .. nallocs'
    BY <1>2, <1>3, <1>6
  <2>. QED
    BY <1>1, <1>6, <2>1, <2>2, <2>3, DriverStepInv
<1>7. CASE /\ Insert(req.zone, p, req.size)
           /\ nallocs' = nallocs + 1
           /\ IF NewHandle = 0
                THEN Reply(ErrResp(req, "OUT_OF_MEMORY")) /\ UNCHANGED dev
                ELSE Reply(OkResp(req, NewHandle, p)) /\ dev' = dev \cup {p}
  <2>1. nextHandle \in 1 .. Word - 1
    BY <1>3 DEF TableInv, TableTypeOK, CounterBound
  <2>2. Reply(OkResp(req, NewHandle, p)) /\ dev' = dev \cup {p}
    BY <1>7, <2>1 DEF NewHandle
  <2>3. rx' \in Seq(Response) /\ Len(rx') <= Capacity /\ RxWellFormed'
    BY <1>2, <1>3, <1>4, <2>1, <2>2, RespTyped, ReplyTyped DEF NewHandle
  <2>4. TableInv'
    BY <1>2, <1>3, <1>7, InsertInv
  <2>5. TableEntriesBacked'
    <3> DEFINE e == [handle |-> nextHandle, zone |-> req.zone, ptr |-> p,
                      size |-> req.size]
    <3>1. e \in Entry
      BY <1>2, <2>1 DEF Entry
    <3>2. /\ entries \in Seq(Entry)
          /\ \A i \in 1 .. Len(entries) : entries[i].ptr \in 1 .. nallocs
      BY <1>3 DEF TableInv, TableTypeOK, TableEntriesBacked
    <3>3. /\ Len(entries') = Len(entries) + 1
          /\ entries'[1].ptr = p
          /\ \A k \in 2 .. Len(entries) + 1 : entries'[k] = entries[k - 1]
      BY <1>7, <3>1, <3>2, PushProperties DEF Insert
    <3>4. SUFFICES ASSUME NEW i \in 1 .. Len(entries'),
                          NEW j \in 1 .. Len(entries')
                   PROVE  /\ entries'[i].ptr \in dev'
                          /\ i # j => entries'[i].ptr # entries'[j].ptr
      BY DEF TableEntriesBacked
    <3>5. /\ \A k \in 1 .. Len(entries) : entries[k].ptr \in dev
          /\ \A k, l \in 1 .. Len(entries) : k # l => entries[k].ptr # entries[l].ptr
      BY <1>3 DEF TableEntriesBacked
    <3>6. \A k \in 1 .. Len(entries') :
             \/ k = 1 /\ entries'[k].ptr = p
             \/ k - 1 \in 1 .. Len(entries) /\ entries'[k] = entries[k - 1]
      BY <3>2, <3>3
    <3>7. entries'[i].ptr \in dev'
      BY <2>2, <3>5, <3>6
    <3>8. i # j => entries'[i].ptr # entries'[j].ptr
      <4>1. CASE i = 1 \/ j = 1
        <5>1. \A k \in 2 .. Len(entries') : entries'[k].ptr # p
          BY <1>2, <3>2, <3>3
        <5>. QED
          BY <4>1, <3>3, <5>1
      <4>2. CASE i # 1 /\ j # 1
        BY <4>2, <3>3, <3>5
      <4>. QED
        BY <4>1, <4>2
    <3>. QED
      BY <3>7, <3>8
  <2>6. dev' \subseteq 1 .. nallocs'
    BY <1>2, <1>3, <1>7, <2>2
  <2>. QED
    BY <1>1, <1>7, <2>3, <2>4, <2>5, <2>6, DriverStepInv
<1>. QED
  BY <1>5, <1>6, <1>7 DEF DriverAlloc

(* handle_table_remove unlinks the one entry of the handle, and the other *)
(* entries hold other pointers: freeing that entry's pointer (or not      *)
(* freeing it) leaves every remaining entry backed.                       *)
LEMMA RemoveBacked ==
    ASSUME TableInv, TableEntriesBacked, NEW z, NEW h, Remove(z, h),
           dev \ {LookupPtr(z, h)} \subseteq dev'
    PROVE  TableEntriesBacked'
<1> DEFINE f == First(h)
<1> DEFINE m(k) == IF k < f THEN k ELSE k + 1
<1>1. entries \in Seq(Entry)
  BY DEF TableInv, TableTypeOK
<1>2. f \in 1 .. Len(entries)
  <2>1. Found(h) # {}
    BY DEF Remove, Owned
  <2>. QED
    BY <2>1, FirstFound DEF Found
<1>3. /\ Len(entries') = Len(entries) - 1
      /\ \A k \in 1 .. Len(entries) - 1 : entries'[k] = entries[m(k)]
  BY <1>1, <1>2, WithoutProperties DEF Remove
<1>4. /\ \A k \in 1 .. Len(entries) - 1 : m(k) \in 1 .. Len(entries) /\ m(k) # f
      /\ \A k, l \in 1 .. Len(entries) - 1 : k # l => m(k) # m(l)
  BY <1>1, <1>2
<1>5. /\ \A k \in 1 .. Len(entries) : entries[k].ptr \in dev
      /\ \A k, l \in 1 .. Len(entries) : k # l => entries[k].ptr # entries[l].ptr
  BY DEF TableEntriesBacked
<1>6. \A k \in 1 .. Len(entries) - 1 : entries'[k].ptr \in dev \ {LookupPtr(z, h)}
  BY <1>2, <1>3, <1>4, <1>5 DEF LookupPtr
<1>7. SUFFICES ASSUME NEW i \in 1 .. Len(entries'), NEW j \in 1 .. Len(entries')
               PROVE  /\ entries'[i].ptr \in dev'
                      /\ i # j => entries'[i].ptr # entries'[j].ptr
  BY DEF TableEntriesBacked
<1>8. entries'[i].ptr \in dev'
  BY <1>3, <1>6
<1>9. i # j => entries'[i].ptr # entries'[j].ptr
  <2>1. /\ entries'[i] = entries[m(i)] /\ entries'[j] = entries[m(j)]
        /\ m(i) \in 1 .. Len(entries) /\ m(j) \in 1 .. Len(entries)
        /\ i # j => m(i) # m(j)
    BY <1>3, <1>4
  <2>. QED
    BY <2>1, <1>5
<1>. QED
  BY <1>8, <1>9

(* handle_gpu_free: remove before cuMemFree, so a failed free leaves     *)
(* memory without an entry, never an entry without memory.                *)
LEMMA FreeInv ==
    ASSUME IInv, DriverFree
    PROVE  IInv'
<1> DEFINE req == Head(tx)
<1>1. /\ Dispatch("FREE")
      /\ UNCHANGED <<nallocs, clientVars, restarts>>
  BY DEF DriverFree
<1>2. /\ req \in Request /\ req.zone \in Zones /\ req.handle \in 0 .. Word - 1
  <2>1. /\ tx \in Seq(Request) /\ Len(tx) <= Capacity /\ TxWellFormed
        /\ nallocs \in Nat /\ calls \in Nat /\ nallocs + Len(tx) <= calls
    BY ProxyAssumption DEF IInv, ProxyTypeOK, Fresh
  <2>. QED
    BY <1>1, <2>1, DispatchTyped DEF Request
<1>3. /\ rx \in Seq(Response) /\ Len(rx) <= Capacity /\ RxWellFormed
      /\ TableInv /\ TableEntriesBacked /\ dev \subseteq 1 .. nallocs
  BY DEF IInv, ProxyTypeOK, Fresh
<1>4. /\ 0 \in 0 .. Word - 1 /\ 0 \in 0 .. MaxCalls
      /\ "CUDA_ERROR" \in Errors /\ "INVALID_HANDLE" \in Errors
  BY HandleTableAssumption, ProxyAssumption DEF Errors
<1>5. CASE /\ Reply(ErrResp(req, "INVALID_HANDLE"))
           /\ UNCHANGED <<dev, tableVars>>
  <2>1. rx' \in Seq(Response) /\ Len(rx') <= Capacity /\ RxWellFormed'
    BY <1>2, <1>3, <1>4, <1>5, RespTyped, ReplyTyped
  <2>. QED
    BY <1>1, <1>5, <2>1, AnswerOnlyInv
<1>6. CASE /\ Remove(req.zone, req.handle)
           /\ dev \ {LookupPtr(req.zone, req.handle)} \subseteq dev'
           /\ dev' \subseteq dev
           /\ \/ Reply(OkResp(req, 0, 0))
              \/ Reply(ErrResp(req, "CUDA_ERROR"))
  <2>1. rx' \in Seq(Response) /\ Len(rx') <= Capacity /\ RxWellFormed'
    BY <1>2, <1>3, <1>4, <1>6, RespTyped, ReplyTyped
  <2>2. TableInv'
    BY <1>2, <1>3, <1>6, RemoveInv
  <2>3. TableEntriesBacked'
    BY <1>3, <1>6, RemoveBacked
  <2>4. dev' \subseteq 1 .. nallocs'
    BY <1>1, <1>3, <1>6
  <2>. QED
    BY <1>1, <2>1, <2>2, <2>3, <2>4, DriverStepInv
<1>. QED
  BY <1>5, <1>6 DEF DriverFree

(* A new driver process starts with empty rings, an empty table and no   *)
(* device memory.                                                         *)
LEMMA RestartInv ==
    ASSUME IInv, DriverRestart
    PROVE  IInv'
<1>1. TableInv' /\ TableTypeOK'
  BY CleanupInv DEF IInv, DriverRestart, TableInv
<1>2. TableEntriesBacked' /\ TxWellFormed' /\ RxWellFormed'
  BY DEF DriverRestart, Cleanup, TableEntriesBacked, TxWellFormed, RxWellFormed
<1>3. Fresh'
  BY DEF IInv, ProxyTypeOK, Fresh, DriverRestart, clientVars
<1>4. ProxyTypeOK'
  BY <1>1, ProxyAssumption DEF IInv, ProxyTypeOK, DriverRestart, clientVars
<1>. QED
  BY <1>1, <1>2, <1>3, <1>4 DEF IInv

CResults == {"SUCCESS", "INVALID_VALUE", "OUT_OF_MEMORY", "INVALID_HANDLE"}

(* The error mapping of send_and_wait yields a CUresult the shim knows. *)
LEMMA TranslateTyped ==
    ASSUME NEW r \in Response, RespWellFormed(r)
    PROVE  Translate(r) \in CResults
BY DEF Translate, CudaError, Response, Errors, CResults, RespWellFormed

(* What the application keeps is a map from 64-bit handles to pointers   *)
(* cuMemAlloc returned.                                                   *)
LEMMA KeepTyped ==
    ASSUME NEW req, NEW r, RespWellFormed(r),
           DOMAIN cmap \subseteq 0 .. Word - 1,
           \A h \in DOMAIN cmap : cmap[h] \in 0 .. MaxCalls
    PROVE  /\ DOMAIN Keep(req, r) \subseteq 0 .. Word - 1
           /\ \A h \in DOMAIN Keep(req, r) : Keep(req, r)[h] \in 0 .. MaxCalls
BY DEF Keep, RespWellFormed

(* idm_recv in send_and_wait takes the head of the driver->user ring. *)
LEMMA TailWellFormed ==
    ASSUME rx \in Seq(Response), rx # <<>>, RxWellFormed
    PROVE  /\ Tail(rx) \in Seq(Response) /\ Len(Tail(rx)) < Len(rx)
           /\ \A k \in 1 .. Len(Tail(rx)) : RespWellFormed(Tail(rx)[k])
<1>1. /\ Tail(rx) \in Seq(Response) /\ Len(Tail(rx)) = Len(rx) - 1
      /\ \A k \in 1 .. Len(Tail(rx)) : Tail(rx)[k] = rx[k + 1]
  BY HeadTailProperties
<1>2. \A k \in 1 .. Len(Tail(rx)) : k + 1 \in 1 .. Len(rx)
  BY <1>1
<1>. QED
  BY <1>1, <1>2 DEF RxWellFormed

(* A step of the application that sends nothing: it may take the head of *)
(* the driver->user ring, and changes only its own state.                 *)
LEMMA ClientStepInv ==
    ASSUME IInv, UNCHANGED <<tx, dev, nallocs, calls, tableVars>>,
           \/ rx' = rx
           \/ rx # <<>> /\ rx' = Tail(rx),
           cpc' \in {"idle", "wait"}, creq' \in Request,
           attempts' \in 0 .. MaxAttempts, cseq' \in Nat \ {0},
           DOMAIN cmap' \subseteq 0 .. Word - 1,
           \A h \in DOMAIN cmap' : cmap'[h] \in 0 .. MaxCalls,
           cres' \in CResults
    PROVE  IInv'
<1>1. /\ rx \in Seq(Response) /\ Len(rx) <= Capacity /\ RxWellFormed
  BY DEF IInv, ProxyTypeOK
<1>2. /\ rx' \in Seq(Response) /\ Len(rx') <= Capacity /\ RxWellFormed'
  <2>1. CASE rx' = rx
    BY <1>1, <2>1 DEF RxWellFormed
  <2>2. CASE rx # <<>> /\ rx' = Tail(rx)
    <3>1. rx' = Tail(rx) /\ rx # <<>>
      BY <2>2
    <3>2. /\ Tail(rx) \in Seq(Response) /\ Len(Tail(rx)) < Len(rx)
          /\ \A k \in 1 .. Len(Tail(rx)) : RespWellFormed(Tail(rx)[k])
      BY <1>1, <3>1, TailWellFormed
    <3>3. Len(rx') <= Capacity
      BY <1>1, <3>1, <3>2, ProxyAssumption
    <3>. QED
      BY <3>1, <3>2, <3>3 DEF RxWellFormed
  <2>. QED
    BY <2>1, <2>2
<1>3. TableInv' /\ TableEntriesBacked' /\ Fresh' /\ TxWellFormed'
  BY DEF IInv, TableInv, TableTypeOK, CounterBound, Issued, Ordered,
         TableEntriesBacked, Fresh, TxWellFormed, tableVars
<1>4. ProxyTypeOK'
  BY <1>2, <1>3 DEF IInv, ProxyTypeOK, TableInv, CResults
<1>. QED
  BY <1>2, <1>3, <1>4 DEF IInv

(* The application's own state, as the type invariant has it. *)
LEMMA ClientTyped ==
    ASSUME IInv
    PROVE  /\ cpc \in {"idle", "wait"} /\ creq \in Request
           /\ attempts \in 0 .. MaxAttempts /\ cseq \in Nat \ {0}
           /\ DOMAIN cmap \subseteq 0 .. Word - 1
           /\ \A h \in DOMAIN cmap : cmap[h] \in 0 .. MaxCalls
           /\ cres \in CResults
           /\ rx \in Seq(Response) /\ RxWellFormed
BY DEF IInv, ProxyTypeOK, CResults

(* The response send_and_wait looks at is well formed. *)
LEMMA HeadWellFormed ==
    ASSUME rx \in Seq(Response), rx # <<>>, RxWellFormed
    PROVE  Head(rx) \in Response /\ RespWellFormed(Head(rx))
<1>1. Head(rx) = rx[1] /\ 1 \in 1 .. Len(rx) /\ Head(rx) \in Response
  BY HeadTailProperties
<1>. QED
  BY <1>1 DEF RxWellFormed

LEMMA RecvMatchInv ==
    ASSUME IInv, RecvMatch
    PROVE  IInv'
<1>1. Head(rx) \in Response /\ RespWellFormed(Head(rx))
  BY ClientTyped, HeadWellFormed DEF RecvMatch
<1>2. /\ DOMAIN cmap' \subseteq 0 .. Word - 1
      /\ \A h \in DOMAIN cmap' : cmap'[h] \in 0 .. MaxCalls
  BY <1>1, ClientTyped, KeepTyped DEF RecvMatch
<1>3. cres' \in CResults
  BY <1>1, TranslateTyped DEF RecvMatch
<1>. QED
  BY <1>2, <1>3, ClientTyped, ClientStepInv DEF RecvMatch

LEMMA RecvDiscardInv ==
    ASSUME IInv, RecvDiscard
    PROVE  IInv'
<1>1. attempts' \in 0 .. MaxAttempts
  BY ClientTyped, ProxyAssumption DEF RecvDiscard
<1>. QED
  BY <1>1, ClientTyped, ClientStepInv DEF RecvDiscard

LEMMA RecvTimeoutInv ==
    ASSUME IInv, RecvTimeout
    PROVE  IInv'
<1>1. attempts' \in 0 .. MaxAttempts
  BY ClientTyped, ProxyAssumption DEF RecvTimeout
<1>. QED
  BY <1>1, ClientTyped, ClientStepInv DEF RecvTimeout

LEMMA GiveUpInv ==
    ASSUME IInv, GiveUp
    PROVE  IInv'
BY ClientTyped, ClientStepInv DEF GiveUp, CResults

LEMMA ClientRestartInv ==
    ASSUME IInv, ClientRestart
    PROVE  IInv'
<1>1. NoRequest \in Request
  BY ProxyAssumption DEF NoRequest, Request, Ops
<1>2. /\ DOMAIN cmap' \subseteq 0 .. Word - 1
      /\ \A h \in DOMAIN cmap' : cmap'[h] \in 0 .. MaxCalls
      /\ attempts' \in 0 .. MaxAttempts /\ cseq' \in Nat \ {0}
  BY ProxyAssumption DEF ClientRestart
<1>. QED
  BY <1>1, <1>2, ClientTyped, ClientStepInv DEF ClientRestart

(* The requests the shim builds are well formed: a 64-bit handle the     *)
(* application holds, and an ALLOC a size of Sizes.                       *)
LEMMA CallRequestsTyped ==
    ASSUME IInv, calls \in Nat, NEW op \in ClientOps, NEW req \in CallRequests(op)
    PROVE  /\ req \in Request /\ req.handle \in 0 .. Word - 1
           /\ req.type = "ALLOC" => req.size \in Sizes
<1> DEFINE Msg(h, o, s) ==
             [type |-> op, seq |-> IF op = "H2D" THEN 1 ELSE cseq,
              zone |-> ClientZone, handle |-> h, off |-> o, size |-> s,
              rid |-> calls + 1]
<1>1. \A h \in 0 .. Word - 1, o \in Nat, s \in Nat :
         /\ Msg(h, o, s) \in Request /\ Msg(h, o, s).handle = h
         /\ Msg(h, o, s).type = op /\ Msg(h, o, s).size = s
  BY ClientTyped, ProxyAssumption DEF Request, Ops
<1>2. /\ 0 \in 0 .. Word - 1 /\ DOMAIN cmap \subseteq 0 .. Word - 1
      /\ Offsets \subseteq Nat /\ Sizes \subseteq Nat
  BY ClientTyped, ProxyAssumption, HandleTableAssumption
<1>3. CASE op = "ALLOC"
  <2>1. PICK s \in Sizes : req = Msg(0, 0, s)
    BY <1>3 DEF CallRequests
  <2>. QED
    BY <1>1, <1>2, <2>1
<1>4. CASE op = "SYNC"
  <2>1. req = Msg(0, 0, 0)
    BY <1>4 DEF CallRequests
  <2>. QED
    BY <1>1, <1>2, <1>4, <2>1
<1>5. CASE op = "FREE"
  <2>1. PICK h \in DOMAIN cmap : req = Msg(h, 0, 0)
    BY <1>5 DEF CallRequests
  <2>. QED
    BY <1>1, <1>2, <1>5, <2>1
<1>6. CASE op \notin {"ALLOC", "SYNC", "FREE"}
  <2>1. PICK h \in DOMAIN cmap, o \in Offsets, s \in Sizes : req = Msg(h, o, s)
    BY <1>6 DEF CallRequests
  <2>. QED
    BY <1>1, <1>2, <1>6, <2>1
<1>. QED
  BY <1>3, <1>4, <1>5, <1>6

(* cuMem* up to idm_send: a call is counted; if its message is sent, the *)
(* ring gains one request that may still allocate one pointer.            *)
LEMMA ClientCallInv ==
    ASSUME IInv, ClientCall
    PROVE  IInv'
<1>0. PICK op \in ClientOps : \E req \in CallRequests(op) :
         /\ calls' = calls + 1
         /\ \/ /\ BackendFails
               /\ cres' = "OUT_OF_MEMORY"
               /\ UNCHANGED <<tx, cpc, creq, attempts, cseq>>
            \/ /\ cseq' = IF op = "H2D" THEN cseq ELSE cseq + 1
               /\ SendRequest(req)
  BY DEF ClientCall
<1>1. PICK req \in CallRequests(op) :
         /\ calls' = calls + 1
         /\ \/ /\ BackendFails
               /\ cres' = "OUT_OF_MEMORY"
               /\ UNCHANGED <<tx, cpc, creq, attempts, cseq>>
            \/ /\ cseq' = IF op = "H2D" THEN cseq ELSE cseq + 1
               /\ SendRequest(req)
  BY <1>0
<1>2. /\ tx \in Seq(Request) /\ Len(tx) <= Capacity /\ TxWellFormed
      /\ nallocs \in Nat /\ calls \in 0 .. MaxCalls - 1
      /\ nallocs + Len(tx) <= calls
  BY ProxyAssumption DEF IInv, ProxyTypeOK, Fresh, ClientCall
<1>3. /\ req \in Request /\ req.handle \in 0 .. Word - 1
      /\ req.type = "ALLOC" => req.size \in Sizes
  BY <1>1, <1>2, CallRequestsTyped
<1>4. /\ tx' \in Seq(Request) /\ Len(tx') <= Capacity /\ TxWellFormed'
      /\ nallocs + Len(tx') <= calls'
      /\ creq' \in Request /\ cpc' \in {"idle", "wait"}
      /\ attempts' \in 0 .. MaxAttempts /\ cseq' \in Nat \ {0}
      /\ cres' \in CResults
  <2>1. CASE UNCHANGED <<tx, cpc, creq, attempts, cseq>> /\ cres' = "OUT_OF_MEMORY"
    BY <1>1, <1>2, <2>1, ClientTyped DEF TxWellFormed, CResults
  <2>2. CASE /\ cseq' = IF op = "H2D" THEN cseq ELSE cseq + 1
             /\ Len(tx) < Capacity /\ tx' = Append(tx, req)
             /\ cpc' = "wait" /\ creq' = req /\ attempts' = 0
             /\ UNCHANGED cres
    <3>1. /\ Len(tx') = Len(tx) + 1
          /\ \A k \in 1 .. Len(tx) : tx'[k] = tx[k]
          /\ tx'[Len(tx) + 1] = req
      BY <1>2, <2>2
    <3>2. TxWellFormed'
      BY <1>2, <1>3, <3>1 DEF TxWellFormed
    <3>. QED
      BY <1>1, <1>2, <1>3, <2>2, <3>1, <3>2, ClientTyped, ProxyAssumption
  <2>3. CASE /\ cseq' = IF op = "H2D" THEN cseq ELSE cseq + 1
             /\ Len(tx) >= Capacity /\ cres' = "INVALID_VALUE"
             /\ UNCHANGED <<tx, cpc, creq, attempts>>
    BY <1>1, <1>2, <2>3, ClientTyped DEF TxWellFormed, CResults
  <2>. QED
    BY <1>1, <2>1, <2>2, <2>3 DEF SendRequest
<1>5. /\ TableInv' /\ TableEntriesBacked' /\ RxWellFormed'
      /\ dev' \subseteq 1 .. nallocs'
  <2>1. UNCHANGED <<rx, dev, nallocs, cmap, tableVars>>
    BY DEF ClientCall
  <2>. QED
    BY <2>1 DEF IInv, TableInv, TableTypeOK, CounterBound, Issued,
                Ordered, TableEntriesBacked, RxWellFormed, Fresh, tableVars
<1>6. /\ UNCHANGED <<rx, dev, nallocs, cmap>> /\ calls' \in 0 .. MaxCalls
      /\ TableTypeOK'
  BY <1>1, <1>2, <1>5, ProxyAssumption DEF ClientCall, TableInv
<1>7. ProxyTypeOK'
  <2>1. /\ rx' \in Seq(Response) /\ Len(rx') <= Capacity
        /\ dev' \subseteq Ptrs /\ nallocs' \in 0 .. MaxCalls
        /\ DOMAIN cmap' \subseteq 0 .. Word - 1
        /\ \A h \in DOMAIN cmap' : cmap'[h] \in 0 .. MaxCalls
    BY <1>6 DEF IInv, ProxyTypeOK
  <2>. QED
    BY <1>4, <1>6, <2>1 DEF ProxyTypeOK, CResults
<1>8. Fresh'
  BY <1>4, <1>5, <1>6 DEF Fresh
<1>. QED
  BY <1>4, <1>5, <1>7, <1>8 DEF IInv

LEMMA StutterInv ==
    ASSUME IInv, UNCHANGED proxyVars
    PROVE  IInv'
BY DEF IInv, proxyVars, ProxyTypeOK, TableInv, TableTypeOK, CounterBound,
       Issued, Ordered, TableEntriesBacked, Fresh, TxWellFormed, RxWellFormed

LEMMA NextInv ==
    ASSUME NoWrap, IInv, [Next]_proxyVars
    PROVE  IInv'
<1>1. CASE DriverAlloc
  BY <1>1, AllocInv
<1>2. CASE DriverFree
  BY <1>2, FreeInv
<1>3. CASE DriverCopyH2D \/ DriverCopyD2H
  BY <1>3, CopyInv
<1>4. CASE DriverSync
  BY <1>4, SyncInv
<1>5. CASE DriverIgnore
  BY <1>5, IgnoreInv
<1>6. CASE DriverRestart
  BY <1>6, RestartInv
<1>7. CASE ClientCall
  BY <1>7, ClientCallInv
<1>8. CASE RecvMatch
  BY <1>8, RecvMatchInv
<1>9. CASE RecvDiscard
  BY <1>9, RecvDiscardInv
<1>10. CASE RecvTimeout
  BY <1>10, RecvTimeoutInv
<1>11. CASE GiveUp
  BY <1>11, GiveUpInv
<1>12. CASE ClientRestart
  BY <1>12, ClientRestartInv
<1>13. CASE UNCHANGED proxyVars
  BY <1>13, StutterInv
<1>. QED
  BY <1>1, <1>2, <1>3, <1>4, <1>5, <1>6, <1>7, <1>8, <1>9, <1>10, <1>11,
     <1>12, <1>13 DEF Next

LEMMA IInvAlways ==
    ASSUME NoWrap
    PROVE  Spec => []IInv
BY InitInv, NextInv, PTL DEF Spec

-----------------------------------------------------------------------------
(* Every reachable state of the proxy is well typed: the rings hold at   *)
(* most IDM_RING_SIZE well-formed messages, the application's handles    *)
(* are 64-bit values naming pointers cuMemAlloc returned, and the table's *)
(* counters stay 64-bit, for every ring size, call bound and restart      *)
(* bound, with or without failing CUDA and malloc calls.                  *)
THEOREM ProxyTyped ==
    ASSUME NoWrap
    PROVE  Spec => []ProxyTypeOK
<1>1. IInv => ProxyTypeOK
  BY DEF IInv
<1>. QED
  BY <1>1, IInvAlways, PTL

(* Every table entry stands for device memory that is still allocated,   *)
(* and no two entries share it: the rollback of handle_gpu_alloc and the *)
(* remove-before-cuMemFree order of handle_gpu_free never leave a handle  *)
(* that a later lookup would turn into a freed or shared pointer.         *)
THEOREM EntriesBacked ==
    ASSUME NoWrap
    PROVE  Spec => []TableEntriesBacked
<1>1. IInv => TableEntriesBacked
  BY DEF IInv
<1>. QED
  BY <1>1, IInvAlways, PTL

====
