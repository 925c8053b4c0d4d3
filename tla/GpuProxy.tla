----------------------------- MODULE GpuProxy -----------------------------
(***************************************************************************)
(* The GPU proxy end to end: the user-zone shim of                         *)
(* src/gpu-proxy/libvgpu/libvgpu.c (cuMem* calls and send_and_wait), the   *)
(* driver-zone loop of src/gpu-proxy/main.c with the handlers of           *)
(* src/gpu-proxy/handlers.c, and the handle table (HandleTable).           *)
(*                                                                         *)
(* The two rings are taken at the level of IdmQueue, which RingChannel is  *)
(* checked to implement: tx is the user->driver ring, rx the driver->user  *)
(* ring, each a bounded FIFO of Capacity messages; idm_send on a full ring *)
(* fails.  The client is one application thread with one call in flight.  *)
(* A message carries, besides its header fields, a ghost id rid: the call  *)
(* a request belongs to, or the call whose request a response answers.     *)
(* Device pointers are ghost allocation ids, fresh for every cuMemAlloc.   *)
(***************************************************************************)
EXTENDS HandleTable

CONSTANTS
    ClientZone,         \* USER_ZONE_ID: the src_zone of every request
    Capacity,           \* IDM_RING_SIZE
    MaxAttempts,        \* send_and_wait's 10 receive attempts
    MaxCalls,           \* bound on the calls the application makes
    ClientOps,          \* the cuMem* calls the application uses
    Offsets,            \* the dst_offset / src_offset values of its copies
    ClientTimesOut,     \* TRUE: a receive may time out (the driver is slow)
    BackendFails,       \* TRUE: CUDA and malloc calls (driver and shim) may fail
    MaxDriverRestarts,  \* bound on restarts of the driver process
    MaxClientRestarts   \* bound on restarts of the application

ASSUME ProxyAssumption ==
    /\ Zones = {ClientZone}
    /\ Capacity \in Nat \ {0}
    /\ MaxAttempts \in Nat \ {0}
    /\ MaxCalls \in Nat
    /\ Ptrs = 1 .. MaxCalls
    /\ ClientOps \subseteq {"ALLOC", "FREE", "H2D", "D2H", "D2D", "SYNC"}
    /\ Offsets \subseteq 0 .. Word - 1
    /\ ClientTimesOut \in BOOLEAN
    /\ BackendFails \in BOOLEAN
    /\ MaxDriverRestarts \in Nat
    /\ MaxClientRestarts \in Nat

VARIABLES
    tx,         \* user->driver ring: requests
    rx,         \* driver->user ring: responses
    dev,        \* device memory allocated by the driver (cuMemAlloc'd)
    nallocs,    \* ghost: device allocations so far (the next pointer id)
    cpc,        \* the application: "idle" or "wait" (inside send_and_wait)
    creq,       \* the request send_and_wait is waiting for
    attempts,   \* loop counter i of send_and_wait
    cseq,       \* the client connection's next_seq
    cmap,       \* the handles the application holds -> ghost pointer
    cres,       \* the CUresult of the last call
    calls,      \* ghost: calls made so far
    restarts    \* ghost: restarts so far, of "driver" and "client"

proxyVars == <<tx, rx, dev, nallocs, cpc, creq, attempts, cseq, cmap, cres,
               calls, restarts, entries, nextHandle, totalHandles,
               totalMemory, inserts>>

Ops == {"ALLOC", "FREE", "H2D", "D2H", "D2D", "SYNC"}

Errors == {"INVALID_HANDLE", "OUT_OF_MEMORY", "INVALID_SIZE", "CUDA_ERROR"}

Request == [type : Ops, seq : Nat, zone : Zones, handle : Nat,
            off : Nat, size : Nat, rid : Nat]

Response == [type : {"OK", "ERROR"}, rseq : Nat, handle : Nat,
             err : Errors \cup {"NONE"}, rid : Nat, ptr : Nat]

NoRequest == [type |-> "SYNC", seq |-> 0, zone |-> ClientZone, handle |-> 0,
              off |-> 0, size |-> 0, rid |-> 0]

(* send_response_ok and send_response_error: the response a handler       *)
(* builds for request req, with the request's seq_num as request_seq.     *)
OkResp(req, h, p) ==
    [type |-> "OK", rseq |-> req.seq, handle |-> h, err |-> "NONE",
     rid |-> req.rid, ptr |-> p]

ErrResp(req, e) ==
    [type |-> "ERROR", rseq |-> req.seq, handle |-> 0, err |-> e,
     rid |-> req.rid, ptr |-> 0]

(* send_response_ok / send_response_error: the response is appended if   *)
(* the ring has room; it is lost if idm_send fails with -ENOSPC or the    *)
(* malloc of idm_build_message fails, and the handlers ignore both.       *)
Reply(resp) ==
    \/ Len(rx) < Capacity /\ rx' = Append(rx, resp)
    \/ (Len(rx) >= Capacity \/ BackendFails) /\ UNCHANGED rx

(* The error mapping at the end of send_and_wait. *)
CudaError ==
    [e \in Errors |-> IF e \in {"OUT_OF_MEMORY", "INVALID_HANDLE"}
                      THEN e ELSE "INVALID_VALUE"]

Translate(r) == IF r.type = "OK" THEN "SUCCESS" ELSE CudaError[r.err]

-----------------------------------------------------------------------------
Init ==
    /\ TableInit
    /\ tx = <<>>
    /\ rx = <<>>
    /\ dev = {}
    /\ nallocs = 0
    /\ cpc = "idle"
    /\ creq = NoRequest
    /\ attempts = 0
    /\ cseq = 1
    /\ cmap = [h \in {} |-> 0]
    /\ cres = "SUCCESS"
    /\ calls = 0
    /\ restarts = [s \in {"driver", "client"} |-> 0]

-----------------------------------------------------------------------------
(* The driver's main loop: idm_recv returned request req, dispatched on    *)
(* msg_type.  Each handler runs to its end before the next idm_recv; its   *)
(* reply is the last thing it does.                                        *)

clientVars == <<cpc, creq, attempts, cseq, cmap, cres, calls>>

(* The request at the head of the user->driver ring, of type t. *)
Dispatch(t) == tx # <<>> /\ Head(tx).type = t /\ tx' = Tail(tx)

(* handle_gpu_alloc: cuMemAlloc (may fail: CUDA error); insert into the   *)
(* table (malloc may fail: cuMemFree and OUT_OF_MEMORY; a returned handle *)
(* of 0 is also treated as failure, after the entry was inserted);        *)
(* answer with the handle.                                                *)
DriverAlloc ==
    LET req == Head(tx)
        p == nallocs + 1
    IN
    /\ Dispatch("ALLOC")
    /\ \/ /\ BackendFails
          /\ Reply(ErrResp(req, "CUDA_ERROR"))
          /\ UNCHANGED <<dev, nallocs, tableVars>>
       \/ /\ BackendFails
          /\ nallocs' = nallocs + 1
          /\ Reply(ErrResp(req, "OUT_OF_MEMORY"))
          /\ UNCHANGED <<dev, tableVars>>
       \/ /\ Insert(req.zone, p, req.size)
          /\ nallocs' = nallocs + 1
          /\ IF NewHandle = 0
               THEN /\ Reply(ErrResp(req, "OUT_OF_MEMORY"))
                    /\ UNCHANGED dev
               ELSE /\ Reply(OkResp(req, NewHandle, p))
                    /\ dev' = dev \cup {p}
    /\ UNCHANGED <<clientVars, restarts>>

(* Mutant: cuMemFree on the looked-up pointer, without removing the     *)
(* handle from the table.                                                 *)
DriverFreeLookupOnly ==
    LET req == Head(tx) IN
    /\ Dispatch("FREE")
    /\ \/ /\ ~Owned(req.zone, req.handle)
          /\ Reply(ErrResp(req, "INVALID_HANDLE"))
          /\ UNCHANGED dev
       \/ /\ Owned(req.zone, req.handle)
          /\ dev' = dev \ {LookupPtr(req.zone, req.handle)}
          /\ Reply(OkResp(req, 0, 0))
    /\ UNCHANGED <<nallocs, tableVars, clientVars, restarts>>

(* handle_gpu_free: remove the handle (INVALID_HANDLE if absent or not    *)
(* owned), then cuMemFree the pointer it stood for (a CUDA error leaves   *)
(* the memory allocated, the entry already gone).                         *)
DriverFree ==
    LET req == Head(tx) IN
    /\ Dispatch("FREE")
    /\ \/ /\ ~Owned(req.zone, req.handle)
          /\ Reply(ErrResp(req, "INVALID_HANDLE"))
          /\ UNCHANGED <<dev, tableVars>>
       \/ /\ Remove(req.zone, req.handle)
          /\ dev' = dev \ {LookupPtr(req.zone, req.handle)}
          /\ Reply(OkResp(req, 0, 0))
       \/ /\ BackendFails
          /\ Remove(req.zone, req.handle)
          /\ Reply(ErrResp(req, "CUDA_ERROR"))
          /\ UNCHANGED dev
    /\ UNCHANGED <<nallocs, clientVars, restarts>>

(* The bounds check of the copy handlers, "offset + size > alloc_size"    *)
(* on uint64_t: the sum is taken modulo 2^64.                             *)
PassesBoundsCheck(req) ==
    (req.off + req.size) % Word <= LookupSize(req.zone, req.handle)

(* handle_gpu_copy_h2d and handle_gpu_copy_d2h: look the handle up        *)
(* (INVALID_HANDLE), check offset + size against the allocation           *)
(* (INVALID_SIZE), for D2H malloc the host buffer (OUT_OF_MEMORY), copy   *)
(* at device_ptr + offset (CUDA error), answer OK.  Neither changes the   *)
(* table or the device memory.                                            *)
CopyReply(req, hostBuffer) ==
    \/ /\ ~Owned(req.zone, req.handle)
       /\ Reply(ErrResp(req, "INVALID_HANDLE"))
    \/ /\ Owned(req.zone, req.handle)
       /\ ~PassesBoundsCheck(req)
       /\ Reply(ErrResp(req, "INVALID_SIZE"))
    \/ /\ Owned(req.zone, req.handle)
       /\ PassesBoundsCheck(req)
       /\ \/ Reply(OkResp(req, 0, 0))
          \/ BackendFails /\ Reply(ErrResp(req, "CUDA_ERROR"))
          \/ BackendFails /\ hostBuffer /\ Reply(ErrResp(req, "OUT_OF_MEMORY"))

DriverCopyH2D ==
    /\ Dispatch("H2D")
    /\ CopyReply(Head(tx), FALSE)
    /\ UNCHANGED <<dev, nallocs, tableVars, clientVars, restarts>>

DriverCopyD2H ==
    /\ Dispatch("D2H")
    /\ CopyReply(Head(tx), TRUE)
    /\ UNCHANGED <<dev, nallocs, tableVars, clientVars, restarts>>

(* Mutant: the success path returns without send_response_ok. *)
DriverSyncNoReply ==
    LET req == Head(tx) IN
    /\ Dispatch("SYNC")
    /\ \/ UNCHANGED rx
       \/ BackendFails /\ Reply(ErrResp(req, "CUDA_ERROR"))
    /\ UNCHANGED <<dev, nallocs, tableVars, clientVars, restarts>>

(* handle_gpu_sync: cuCtxSynchronize, answer OK or the CUDA error. *)
DriverSync ==
    LET req == Head(tx) IN
    /\ Dispatch("SYNC")
    /\ \/ Reply(OkResp(req, 0, 0))
       \/ BackendFails /\ Reply(ErrResp(req, "CUDA_ERROR"))
    /\ UNCHANGED <<dev, nallocs, tableVars, clientVars, restarts>>

(* The default branch of the switch (COPY_D2D, which has no handler):     *)
(* log "Unknown message type", free the message, send nothing.            *)
DriverIgnore ==
    /\ Dispatch("D2D")
    /\ UNCHANGED <<rx, dev, nallocs, tableVars, clientVars, restarts>>

(* The driver process dies and run_server starts again: init_shm zeroes  *)
(* both rings, handle_table_init empties the table and sets next_handle  *)
(* to 1, and the device memory of the dead process is released.          *)
DriverRestart ==
    /\ restarts["driver"] < MaxDriverRestarts
    /\ restarts' = [restarts EXCEPT !["driver"] = @ + 1]
    /\ tx' = <<>>
    /\ rx' = <<>>
    /\ dev' = {}
    /\ Cleanup
    /\ UNCHANGED <<nallocs, clientVars>>

-----------------------------------------------------------------------------
(* The application.  A call builds its request with idm_build_message,    *)
(* which takes seq_num = next_seq++, except cuMemcpyHtoD, which builds    *)
(* the message by hand with seq_num = 1 and leaves next_seq alone.  Then  *)
(* send_and_wait: if idm_send fails (ring full) the call returns          *)
(* CUDA_ERROR_INVALID_VALUE at once; otherwise it waits for the answer.   *)

(* The requests the application can build for operation op, as call      *)
(* number calls + 1: FREE and the copies name a handle it holds, and the  *)
(* copies an offset of Offsets (libvgpu always sends 0; a user-zone       *)
(* program that builds its requests itself, as test_client.c does, may    *)
(* send any 64-bit offset).                                               *)
CallRequests(op) ==
    LET Msg(h, o, s) ==
            [type |-> op, seq |-> IF op = "H2D" THEN 1 ELSE cseq,
             zone |-> ClientZone, handle |-> h, off |-> o, size |-> s,
             rid |-> calls + 1]
    IN  CASE op = "ALLOC" -> {Msg(0, 0, s) : s \in Sizes}
          [] op = "SYNC"  -> {Msg(0, 0, 0)}
          [] op = "FREE"  -> {Msg(h, 0, 0) : h \in DOMAIN cmap}
          [] OTHER        -> {Msg(h, o, s) : h \in DOMAIN cmap, o \in Offsets,
                                             s \in Sizes}

(* Mutant: send_and_wait ignores idm_send's result, as if the ring never *)
(* filled.                                                                *)
SendRequestNoFullCheck(req) ==
    /\ tx' = Append(tx, req)
    /\ cpc' = "wait"
    /\ creq' = req
    /\ attempts' = 0
    /\ UNCHANGED cres

(* send_and_wait's idm_send: on a full ring it returns                   *)
(* CUDA_ERROR_INVALID_VALUE at once, else the call waits for its answer.  *)
SendRequest(req) ==
    \/ /\ Len(tx) < Capacity
       /\ tx' = Append(tx, req)
       /\ cpc' = "wait"
       /\ creq' = req
       /\ attempts' = 0
       /\ UNCHANGED cres
    \/ /\ Len(tx) >= Capacity
       /\ cres' = "INVALID_VALUE"
       /\ UNCHANGED <<tx, cpc, creq, attempts>>

(* cuMemAlloc, cuMemFree, cuMemcpyHtoD, cuMemcpyDtoH, cuMemcpyDtoD,       *)
(* cuCtxSynchronize up to the first idm_send.  If the malloc of the       *)
(* message fails, the call returns CUDA_ERROR_OUT_OF_MEMORY before a      *)
(* sequence number is taken.                                              *)
ClientCall ==
    /\ cpc = "idle"
    /\ calls < MaxCalls
    /\ \E op \in ClientOps : \E req \in CallRequests(op) :
        /\ calls' = calls + 1
        /\ \/ /\ BackendFails
              /\ cres' = "OUT_OF_MEMORY"
              /\ UNCHANGED <<tx, cpc, creq, attempts, cseq>>
           \/ /\ cseq' = IF op = "H2D" THEN cseq ELSE cseq + 1
              /\ SendRequest(req)
    /\ UNCHANGED <<rx, dev, nallocs, cmap, restarts, tableVars>>

(* Mutant: cuMemAlloc returns SUCCESS but does not store the handle. *)
KeepIgnoringAlloc(req, r) ==
    IF r.type = "OK" /\ req.type = "FREE"
    THEN [h \in DOMAIN cmap \ {req.handle} |-> cmap[h]]
    ELSE cmap

(* What the application keeps after a successful call: cuMemAlloc stores  *)
(* the returned handle as its device pointer; after a successful          *)
(* cuMemFree it no longer uses the handle.                                *)
Keep(req, r) ==
    CASE r.type = "OK" /\ req.type = "ALLOC" ->
            [h \in DOMAIN cmap \cup {r.handle} |->
                IF h = r.handle THEN r.ptr ELSE cmap[h]]
      [] r.type = "OK" /\ req.type = "FREE" ->
            [h \in DOMAIN cmap \ {req.handle} |-> cmap[h]]
      [] OTHER -> cmap

(* Mutant: any response is taken as the answer, without comparing        *)
(* request_seq.                                                           *)
RecvMatchAnySeq ==
    /\ cpc = "wait"
    /\ attempts < MaxAttempts
    /\ rx # <<>>
    /\ rx' = Tail(rx)
    /\ cpc' = "idle"
    /\ cres' = Translate(Head(rx))
    /\ cmap' = Keep(creq, Head(rx))
    /\ UNCHANGED <<tx, dev, nallocs, creq, attempts, cseq, calls, restarts,
                   tableVars>>

(* send_and_wait: idm_recv returned a response whose request_seq is the   *)
(* seq_num of the request: the call returns its result.                   *)
RecvMatch ==
    /\ cpc = "wait"
    /\ attempts < MaxAttempts
    /\ rx # <<>>
    /\ Head(rx).rseq = creq.seq
    /\ rx' = Tail(rx)
    /\ cpc' = "idle"
    /\ cres' = Translate(Head(rx))
    /\ cmap' = Keep(creq, Head(rx))
    /\ UNCHANGED <<tx, dev, nallocs, creq, attempts, cseq, calls, restarts,
                   tableVars>>

(* send_and_wait: a response for another request is freed and the loop   *)
(* goes on.                                                               *)
RecvDiscard ==
    /\ cpc = "wait"
    /\ attempts < MaxAttempts
    /\ rx # <<>>
    /\ Head(rx).rseq # creq.seq
    /\ rx' = Tail(rx)
    /\ attempts' = attempts + 1
    /\ UNCHANGED <<tx, dev, nallocs, cpc, creq, cseq, cmap, cres, calls,
                   restarts, tableVars>>

(* send_and_wait: idm_recv(1000) times out with nothing to read. *)
RecvTimeout ==
    /\ cpc = "wait"
    /\ attempts < MaxAttempts
    /\ ClientTimesOut
    /\ rx = <<>>
    /\ attempts' = attempts + 1
    /\ UNCHANGED <<tx, rx, dev, nallocs, cpc, creq, cseq, cmap, cres, calls,
                   restarts, tableVars>>

(* send_and_wait: after 10 attempts, "Timeout waiting for response". *)
GiveUp ==
    /\ cpc = "wait"
    /\ attempts = MaxAttempts
    /\ cpc' = "idle"
    /\ cres' = "INVALID_VALUE"
    /\ UNCHANGED <<tx, rx, dev, nallocs, creq, attempts, cseq, cmap, calls,
                   restarts, tableVars>>

(* The application dies and a new one starts: idm_init sets next_seq to  *)
(* 1; the new process holds no handles; the rings are left as they are.  *)
ClientRestart ==
    /\ restarts["client"] < MaxClientRestarts
    /\ restarts' = [restarts EXCEPT !["client"] = @ + 1]
    /\ cpc' = "idle"
    /\ creq' = NoRequest
    /\ attempts' = 0
    /\ cseq' = 1
    /\ cmap' = [h \in {} |-> 0]
    /\ UNCHANGED <<tx, rx, dev, nallocs, cres, calls, tableVars>>

Next ==
    \/ DriverAlloc \/ DriverFree \/ DriverCopyH2D \/ DriverCopyD2H
    \/ DriverSync \/ DriverIgnore \/ DriverRestart
    \/ ClientCall \/ RecvMatch \/ RecvDiscard \/ RecvTimeout \/ GiveUp
    \/ ClientRestart

(* The driver loop runs forever and handles whatever idm_recv returns;    *)
(* a waiting send_and_wait keeps calling idm_recv.                        *)
Fairness ==
    /\ WF_proxyVars(DriverAlloc) /\ WF_proxyVars(DriverFree)
    /\ WF_proxyVars(DriverCopyH2D) /\ WF_proxyVars(DriverCopyD2H)
    /\ WF_proxyVars(DriverSync) /\ WF_proxyVars(DriverIgnore)
    /\ WF_proxyVars(RecvMatch) /\ WF_proxyVars(RecvDiscard)
    /\ WF_proxyVars(RecvTimeout) /\ WF_proxyVars(GiveUp)

Spec == Init /\ [][Next]_proxyVars

FairSpec == Spec /\ Fairness

-----------------------------------------------------------------------------
ProxyTypeOK ==
    /\ TableTypeOK
    /\ tx \in Seq(Request) /\ Len(tx) <= Capacity
    /\ rx \in Seq(Response) /\ Len(rx) <= Capacity
    /\ dev \subseteq Ptrs
    /\ nallocs \in 0 .. MaxCalls
    /\ cpc \in {"idle", "wait"}
    /\ creq \in Request
    /\ attempts \in 0 .. MaxAttempts
    /\ cseq \in Nat \ {0}
    /\ DOMAIN cmap \subseteq 0 .. Word - 1
    /\ \A h \in DOMAIN cmap : cmap[h] \in 0 .. MaxCalls
    /\ cres \in {"SUCCESS", "INVALID_VALUE", "OUT_OF_MEMORY", "INVALID_HANDLE"}
    /\ calls \in 0 .. MaxCalls

(* send_and_wait returns the driver's answer to its own request and never *)
(* one meant for an earlier call that timed out: matching by request_seq  *)
(* is sound only while no two requests in flight share a seq_num         *)
(* (spec 4.5, steps 4 and 5).                                             *)
ResponseMatchesRequest ==
    [][RecvMatch => Head(rx).rid = creq.rid]_proxyVars

(* Every entry of the driver's handle table stands for device memory that *)
(* is still allocated, and no two entries share it: after any sequence of *)
(* ALLOC, FREE and failed backend calls, a lookup never hands a handler a *)
(* freed pointer (the rollback of handle_gpu_alloc, and "remove before    *)
(* free" of handle_gpu_free, spec 4.4).                                   *)
TableEntriesBacked ==
    \A i, j \in 1 .. Len(entries) :
        /\ entries[i].ptr \in dev
        /\ i # j => entries[i].ptr # entries[j].ptr

(* A handle the application holds, if the driver knows it, still stands  *)
(* for the allocation cuMemAlloc returned it for: a stale handle never    *)
(* reaches somebody else's memory (spec 3: handles are not recycled).     *)
ClientHandlesStable ==
    \A i \in 1 .. Len(entries) :
        entries[i].handle \in DOMAIN cmap =>
            entries[i].ptr = cmap[entries[i].handle]

(* The application can still free handle h: it holds it, or the OK      *)
(* response carrying it is on its way to the call waiting for it.         *)
Reachable(h) ==
    \/ h \in DOMAIN cmap
    \/ /\ cpc = "wait"
       /\ \E k \in 1 .. Len(rx) : rx[k].handle = h /\ rx[k].rid = creq.rid

(* Every allocation the driver holds is named by a table entry whose      *)
(* handle the application can still free.  The code keeps this only      *)
(* while every call is answered in time, no CUDA or malloc call fails and *)
(* no process restarts (Quiet in GpuProxyLeak): a timed-out ALLOC, a lost *)
(* response, a failed cuMemFree after remove, or an application restart   *)
(* each leave memory no handle reaches.  It is a conjunct of the          *)
(* invariant behind the refinement proof ProxyIsService, not a run's      *)
(* property.                                                              *)
HandleLeakFree ==
    \A p \in dev : \E i \in 1 .. Len(entries) :
        entries[i].ptr = p /\ Reachable(entries[i].handle)

(* Spec invariant 8: a copy whose offset + size exceeds the allocation is *)
(* answered INVALID_SIZE and never reaches cuMemcpyHtoD / cuMemcpyDtoH:   *)
(* the handlers never read or write device memory outside the            *)
(* allocation a handle names, whatever offset the request carries.        *)
OutOfBounds(req) ==
    /\ Owned(req.zone, req.handle)
    /\ req.off + req.size > LookupSize(req.zone, req.handle)

OutOfBoundsRejected ==
    [][(DriverCopyH2D \/ DriverCopyD2H) /\ OutOfBounds(Head(tx))
           => \/ rx' = rx
              \/ rx'[Len(rx')] = ErrResp(Head(tx), "INVALID_SIZE")]_proxyVars

(* Every cuMem* call that reaches send_and_wait eventually returns.      *)
EveryCallReturns == cpc = "wait" ~> cpc = "idle"

(* The proxy as the service of GpuService: a waiting call has been        *)
(* performed once its answer is in the driver->user ring; the request in  *)
(* flight and the answer are taken without their seq_num, and the        *)
(* driver's CUDA error is the spec's DRIVER_ERROR.                        *)
CallOf(req) ==
    [type |-> req.type, handle |-> req.handle, off |-> req.off, size |-> req.size]

AnswerOf(r) ==
    [type |-> r.type, handle |-> r.handle, ptr |-> r.ptr,
     err |-> IF r.err = "CUDA_ERROR" THEN "DRIVER_ERROR" ELSE r.err]

ServicePhase ==
    IF cpc = "idle" THEN "idle" ELSE IF rx = << >> THEN "sent" ELSE "done"

ServiceCall ==
    IF cpc = "idle" THEN [type |-> "NONE", handle |-> 0, off |-> 0, size |-> 0]
    ELSE CallOf(creq)

ServiceAnswer ==
    IF rx = << >> THEN [type |-> "NONE", handle |-> 0, ptr |-> 0, err |-> "NONE"]
    ELSE AnswerOf(Head(rx))

Service == INSTANCE GpuService
    WITH map <- AbstractMap, issued <- 1 .. nextHandle - 1,
         Handles <- 1 .. Word - 1, held <- cmap, phase <- ServicePhase,
         call <- ServiceCall, answer <- ServiceAnswer, result <- cres

(* While the driver answers in time and nothing fails, every cuMem* call *)
(* is one remote operation of the service spec 4.4 and 4.5 describe: the  *)
(* driver performs it once, on the handle map and device memory, and the  *)
(* answer send_and_wait returns is that operation's, translated as spec   *)
(* 4.5 says; the rings, seq_num matching and the copy bounds check in     *)
(* uint64_t are invisible to the application.                             *)
ServiceRefinement == Service!Spec

====
