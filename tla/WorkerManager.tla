---------------------------- MODULE WorkerManager ----------------------------
(***************************************************************************)
(* worker_lib::Manager (src/src/worker/lib/manager.cpp): the function-     *)
(* worker side of the IPC with the gateway and the watchdog.  Both peers   *)
(* write byte streams; the event loop hands the Manager any non-empty      *)
(* prefix of what is in flight.  A message is MsgUnits units (a handshake  *)
(* response HsUnits), and a unit carries its message and its position, so  *)
(* bytes framed at the wrong offset decode to Garbage.  The Manager's      *)
(* members are the fields of the record mgr; each handler is an operator   *)
(* from a record to a record, so a handler that loops over messages and    *)
(* calls the others is one step.  The environment is the gateway, the      *)
(* watchdog and the user function behind the callbacks.                    *)
(***************************************************************************)
EXTENDS Integers, Sequences, FiniteSets, SequencesExt, Functions, TLC

CONSTANTS
    Invokes,        \* full_call_ids the watchdog sends, in its order
    InputOf,        \* id -> "valid", "no_nul" or "unknown_method" (gRPC input)
    IsGrpcService,  \* my_func_config_->is_grpc_service
    ClientId,       \* client_id of the gateway's HandshakeResponse
    MsgUnits,       \* sizeof(Message) in units
    HsUnits,        \* sizeof(HandshakeResponse) in units
    MaxOutgoing,    \* bound: outgoing calls the user function makes
    MaxRedeliveries \* bound: completions the gateway delivers a second time

VARIABLES mgr, gw_pipe, wd_pipe, wd_sent, gw_handshake_done, gw_deliveries

vars == <<mgr, gw_pipe, wd_pipe, wd_sent, gw_handshake_done, gw_deliveries>>

Handles == 0 .. Len(Invokes) + MaxOutgoing - 1

Msg(type, call, client) == [type |-> type, call |-> call, client |-> client]
Garbage == Msg("GARBAGE", 0, -1)
HandshakeResponse == Msg("HANDSHAKE_RESPONSE", 0, ClientId)

(* The units a message is written as, and the message units decode to.    *)
Encode(m, size) == [p \in 1 .. size |-> [msg |-> m, part |-> p]]
Decode(units, size) ==
    IF \A p \in 1 .. size : units[p] = [msg |-> units[1].msg, part |-> p]
    THEN units[1].msg ELSE Garbage

(* Shared-memory regions the Manager holds open.                          *)
InputRegion(id) == <<"input", id>>        \* of an incoming call, read-only
CallInput(h)    == <<"call_input", h>>    \* of an outgoing call, created
CallOutput(h)   == <<"call_output", h>>   \* of an outgoing call, read-only

Init ==
    /\ mgr = [started |-> FALSE, client_id |-> -1, next_handle_value |-> 0,
              incoming_func_calls |-> <<>>, outcoming_func_calls |-> {},
              output_regions_to_close |-> {}, regions |-> {},
              gateway_recv_buffer |-> <<>>, watchdog_recv_buffer |-> <<>>,
              to_gateway |-> <<>>, to_watchdog |-> <<>>, dispatched |-> <<>>,
              callbacks |-> <<>>]
    /\ gw_pipe = <<>> /\ wd_pipe = <<>> /\ wd_sent = 0
    /\ gw_handshake_done = FALSE /\ gw_deliveries = [h \in Handles |-> 0]

-----------------------------------------------------------------------------
(* utils::ReadMessages: data appended to the buffer, the whole messages at *)
(* its front in order (a caller hands each to its handler, FoldLeft), and  *)
(* the partial rest kept as the buffer.                                    *)
ReadMessages(buffer, data) ==
    LET buf == buffer \o data
        n   == Len(buf) \div MsgUnits
    IN  [messages |-> [i \in 1 .. n |->
                         Decode(SubSeq(buf, (i - 1) * MsgUnits + 1, i * MsgUnits), MsgUnits)],
         rest |-> SubSeq(buf, n * MsgUnits + 1, Len(buf))]

(* Mutant: the response carries the handle instead of the func_call.     *)
OnIncomingFuncCallCompleteByHandle(M, handle, success) ==
    LET response == Msg(IF success THEN "FUNC_CALL_COMPLETE" ELSE "FUNC_CALL_FAILED",
                        handle, -1)
    IN  [M EXCEPT !.incoming_func_calls = Restrict(@, DOMAIN @ \ {handle}),
                  !.regions = @ \ {InputRegion(M.incoming_func_calls[handle])},
                  !.to_gateway = IF success THEN Append(@, response) ELSE @,
                  !.to_watchdog = Append(@, response)]

(* OnIncomingFuncCallComplete: erase the context, close the input region,  *)
(* FUNC_CALL_COMPLETE to the gateway on success only, the response to the  *)
(* watchdog always (the output region is created and closed in between).  *)
OnIncomingFuncCallComplete(M, handle, success) ==
    LET func_call == M.incoming_func_calls[handle]
        response  == Msg(IF success THEN "FUNC_CALL_COMPLETE" ELSE "FUNC_CALL_FAILED",
                         func_call, -1)
    IN  [M EXCEPT !.incoming_func_calls = Restrict(@, DOMAIN @ \ {handle}),
                  !.regions = @ \ {InputRegion(func_call)},
                  !.to_gateway = IF success THEN Append(@, response) ELSE @,
                  !.to_watchdog = Append(@, response)]

(* OnIncomingFuncCall: a handle, the input region opened, the context      *)
(* stored; a gRPC input without '\0' or with an unknown method completes  *)
(* at once with failure, any other input goes to the user function.       *)
OnIncomingFuncCall(M, func_call) ==
    LET handle == M.next_handle_value
        M1 == [M EXCEPT !.next_handle_value = @ + 1,
                        !.incoming_func_calls = @ @@ (handle :> func_call),
                        !.regions = @ \cup {InputRegion(func_call)},
                        !.dispatched = Append(@, func_call)]
    IN  IF IsGrpcService /\ InputOf[func_call] # "valid"
        THEN OnIncomingFuncCallComplete(M1, handle, FALSE)
        ELSE M1

(* OnRecvWatchdogMessage: INVOKE_FUNC starts an incoming call; any other  *)
(* type is logged and dropped.                                             *)
OnRecvWatchdogMessage(M, message) ==
    IF message.type = "INVOKE_FUNC" THEN OnIncomingFuncCall(M, message.call) ELSE M

(* Mutant: a kept output is left open but not recorded for reclaim.      *)
OnOutcomingFuncCallCompleteUnrecorded(M, handle, success, reclaim_output_later) ==
    IF handle \notin M.outcoming_func_calls THEN M
    ELSE [M EXCEPT !.outcoming_func_calls = @ \ {handle},
                   !.callbacks = Append(@, handle),
                   !.regions = (@ \ {CallInput(handle)})
                     \cup (IF success /\ reclaim_output_later THEN {CallOutput(handle)} ELSE {})]

(* Mutant: the context is not erased, so a repeated completion finds it.  *)
OnOutcomingFuncCallCompleteNoErase(M, handle, success, reclaim_output_later) ==
    IF handle \notin M.outcoming_func_calls THEN M
    ELSE LET keep == success /\ reclaim_output_later
         IN  [M EXCEPT !.callbacks = Append(@, handle),
                       !.regions = (@ \ {CallInput(handle)})
                                   \cup (IF keep THEN {CallOutput(handle)} ELSE {}),
                       !.output_regions_to_close = IF keep THEN @ \cup {handle} ELSE @]

(* OnOutcomingFuncCallComplete: an unknown handle (a repeated or late     *)
(* completion) is logged and ignored; otherwise the context is erased,    *)
(* the output opened on success, the callback runs and sets               *)
(* reclaim_output_later, the input region is closed and removed, and the  *)
(* output is closed now or kept for a later reclaim.                      *)
OnOutcomingFuncCallComplete(M, handle, success, reclaim_output_later) ==
    IF handle \notin M.outcoming_func_calls THEN M
    ELSE LET keep == success /\ reclaim_output_later
         IN  [M EXCEPT !.outcoming_func_calls = @ \ {handle},
                       !.callbacks = Append(@, handle),
                       !.regions = (@ \ {CallInput(handle)})
                                   \cup (IF keep THEN {CallOutput(handle)} ELSE {}),
                       !.output_regions_to_close = IF keep THEN @ \cup {handle} ELSE @]

(* OnRecvGatewayMessage: completions of outgoing calls; others dropped.   *)
OnRecvGatewayMessage(M, message, reclaim) ==
    IF message.type \in {"FUNC_CALL_COMPLETE", "FUNC_CALL_FAILED"}
    THEN OnOutcomingFuncCallComplete(M, message.call,
                                     message.type = "FUNC_CALL_COMPLETE", reclaim[message.call])
    ELSE M

(* Mutant: the drain is an if, not a while.                               *)
DrainWatchdogBufferOnce(M) ==
    LET buf == M.watchdog_recv_buffer
    IN  IF Len(buf) < MsgUnits THEN M
        ELSE [OnRecvWatchdogMessage(M, Decode(SubSeq(buf, 1, MsgUnits), MsgUnits))
                EXCEPT !.watchdog_recv_buffer = SubSeq(buf, MsgUnits + 1, Len(buf))]

(* The loop of OnRecvGatewayData that hands the watchdog messages buffered *)
(* during the handshake to OnRecvWatchdogMessage.                          *)
RECURSIVE DrainWatchdogBuffer(_)
DrainWatchdogBuffer(M) ==
    LET buf == M.watchdog_recv_buffer
    IN  IF Len(buf) < MsgUnits THEN M
        ELSE DrainWatchdogBuffer(
               [OnRecvWatchdogMessage(M, Decode(SubSeq(buf, 1, MsgUnits), MsgUnits))
                  EXCEPT !.watchdog_recv_buffer = SubSeq(buf, MsgUnits + 1, Len(buf))])

(* OnRecvGatewayData: before the handshake, buffer until a whole response *)
(* is in, take client_id from it and drain the watchdog buffer; after it, *)
(* ReadMessages.  A response whose status is not OK is FATAL (a guard).   *)
OnRecvGatewayData(M, data, reclaim) ==
    IF M.client_id = -1
    THEN LET buf == M.gateway_recv_buffer \o data
         IN  IF Len(buf) < HsUnits THEN [M EXCEPT !.gateway_recv_buffer = buf]
             ELSE DrainWatchdogBuffer(
                    [M EXCEPT !.client_id = Decode(SubSeq(buf, 1, HsUnits), HsUnits).client,
                              !.gateway_recv_buffer = SubSeq(buf, HsUnits + 1, Len(buf))])
    ELSE LET r == ReadMessages(M.gateway_recv_buffer, data)
         IN  FoldLeft(LAMBDA S, m : OnRecvGatewayMessage(S, m, reclaim),
                      [M EXCEPT !.gateway_recv_buffer = r.rest], r.messages)

HandshakeFails(M, data) ==
    LET buf == M.gateway_recv_buffer \o data
    IN  M.client_id = -1 /\ Len(buf) >= HsUnits
        /\ Decode(SubSeq(buf, 1, HsUnits), HsUnits) # HandshakeResponse

(* Mutant: the data is read at once during the handshake.                *)
OnRecvWatchdogDataNoBuffer(M, data) ==
    LET r == ReadMessages(M.watchdog_recv_buffer, data)
    IN  FoldLeft(OnRecvWatchdogMessage, [M EXCEPT !.watchdog_recv_buffer = r.rest], r.messages)
(* OnRecvWatchdogData: buffer while the handshake is in progress.         *)
OnRecvWatchdogData(M, data) ==
    IF M.client_id = -1 THEN [M EXCEPT !.watchdog_recv_buffer = @ \o data]
    ELSE LET r == ReadMessages(M.watchdog_recv_buffer, data)
         IN  FoldLeft(OnRecvWatchdogMessage, [M EXCEPT !.watchdog_recv_buffer = r.rest],
                      r.messages)

(* OnOutcomingFuncCall past its early returns (empty input, unknown       *)
(* function name, which change nothing): a handle, the input region       *)
(* created, the context stored, INVOKE_FUNC with client_id_ to the gateway.*)
OnOutcomingFuncCall(M) ==
    LET handle == M.next_handle_value
    IN  [M EXCEPT !.next_handle_value = @ + 1,
                  !.outcoming_func_calls = @ \cup {handle},
                  !.regions = @ \cup {CallInput(handle)},
                  !.to_gateway = Append(@, Msg("INVOKE_FUNC", handle, M.client_id))]

(* OnOutcomingGrpcCall past its early returns (unknown service or method):*)
(* the same state change; only the input region's layout differs.         *)
OnOutcomingGrpcCall(M) == OnOutcomingFuncCall(M)

(* ReclaimOutcomingFuncCallOutput: a handle with no kept output region is *)
(* logged and ignored; otherwise the region is closed and forgotten.      *)
ReclaimOutcomingFuncCallOutput(M, handle) ==
    IF handle \notin M.output_regions_to_close THEN M
    ELSE [M EXCEPT !.output_regions_to_close = @ \ {handle},
                   !.regions = @ \ {CallOutput(handle)}]

-----------------------------------------------------------------------------
(* Actions.  A step of the Manager is one callback of its event loop.     *)

Start ==
    /\ ~mgr.started
    /\ mgr' = [mgr EXCEPT !.started = TRUE,
                          !.to_gateway = Append(@, Msg("HANDSHAKE", 0, -1))]
    /\ UNCHANGED <<gw_pipe, wd_pipe, wd_sent, gw_handshake_done, gw_deliveries>>

OutgoingCalls == {i \in DOMAIN mgr.to_gateway : mgr.to_gateway[i].type = "INVOKE_FUNC"}

(* The event loop reads k units of the gateway stream; the callback of a  *)
(* completion may ask for its call's output to be kept.                   *)
RecvGatewayData ==
    \E k \in 1 .. Len(gw_pipe),
       reclaim \in [{mgr.to_gateway[i].call : i \in OutgoingCalls} -> BOOLEAN] :
        /\ mgr.started
        /\ ~HandshakeFails(mgr, SubSeq(gw_pipe, 1, k))
        /\ mgr' = OnRecvGatewayData(mgr, SubSeq(gw_pipe, 1, k), reclaim)
        /\ gw_pipe' = SubSeq(gw_pipe, k + 1, Len(gw_pipe))
        /\ UNCHANGED <<wd_pipe, wd_sent, gw_handshake_done, gw_deliveries>>

RecvWatchdogData ==
    \E k \in 1 .. Len(wd_pipe) :
        /\ mgr.started
        /\ mgr' = OnRecvWatchdogData(mgr, SubSeq(wd_pipe, 1, k))
        /\ wd_pipe' = SubSeq(wd_pipe, k + 1, Len(wd_pipe))
        /\ UNCHANGED <<gw_pipe, wd_sent, gw_handshake_done, gw_deliveries>>

(* The user function, while it serves an incoming call, calls another    *)
(* function or gRPC method, returns, or releases the output of a call it  *)
(* was called back for (possibly one that was not kept, or twice).        *)

FunctionInvokes ==
    /\ mgr.incoming_func_calls # <<>>
    /\ Cardinality(OutgoingCalls) < MaxOutgoing
    /\ \/ mgr' = OnOutcomingFuncCall(mgr)
       \/ mgr' = OnOutcomingGrpcCall(mgr)
    /\ UNCHANGED <<gw_pipe, wd_pipe, wd_sent, gw_handshake_done, gw_deliveries>>

FunctionReturns ==
    \E handle \in DOMAIN mgr.incoming_func_calls, success \in BOOLEAN :
        /\ mgr' = OnIncomingFuncCallComplete(mgr, handle, success)
        /\ UNCHANGED <<gw_pipe, wd_pipe, wd_sent, gw_handshake_done, gw_deliveries>>

FunctionReclaims ==
    \E handle \in Range(mgr.callbacks) :
        /\ mgr' = ReclaimOutcomingFuncCallOutput(mgr, handle)
        /\ UNCHANGED <<gw_pipe, wd_pipe, wd_sent, gw_handshake_done, gw_deliveries>>

(* The gateway answers the handshake, then each INVOKE_FUNC, and may      *)
(* deliver a completion a second time (for up to MaxRedeliveries calls).  *)
GatewayHandshake ==
    /\ ~gw_handshake_done
    /\ Msg("HANDSHAKE", 0, -1) \in Range(mgr.to_gateway)
    /\ gw_pipe' = gw_pipe \o Encode(HandshakeResponse, HsUnits)
    /\ gw_handshake_done' = TRUE
    /\ UNCHANGED <<mgr, wd_pipe, wd_sent, gw_deliveries>>

GatewayDelivers(handle, success) ==
    /\ gw_pipe' = gw_pipe \o
           Encode(Msg(IF success THEN "FUNC_CALL_COMPLETE" ELSE "FUNC_CALL_FAILED",
                      handle, -1), MsgUnits)
    /\ gw_deliveries' = [gw_deliveries EXCEPT ![handle] = @ + 1]
    /\ UNCHANGED <<mgr, wd_pipe, wd_sent, gw_handshake_done>>

GatewayCompletes ==
    \E i \in OutgoingCalls, success \in BOOLEAN :
        /\ gw_deliveries[mgr.to_gateway[i].call] = 0
        /\ GatewayDelivers(mgr.to_gateway[i].call, success)

GatewayRedelivers ==
    \E i \in OutgoingCalls, success \in BOOLEAN :
        /\ gw_deliveries[mgr.to_gateway[i].call] = 1
        /\ Cardinality({h \in Handles : gw_deliveries[h] = 2}) < MaxRedeliveries
        /\ GatewayDelivers(mgr.to_gateway[i].call, success)

(* The watchdog writes its next INVOKE_FUNC.                              *)
WatchdogInvokes ==
    /\ wd_sent < Len(Invokes)
    /\ wd_pipe' = wd_pipe \o Encode(Msg("INVOKE_FUNC", Invokes[wd_sent + 1], -1), MsgUnits)
    /\ wd_sent' = wd_sent + 1
    /\ UNCHANGED <<mgr, gw_pipe, gw_handshake_done, gw_deliveries>>

Next ==
    \/ Start \/ RecvGatewayData \/ RecvWatchdogData
    \/ FunctionInvokes \/ FunctionReturns \/ FunctionReclaims
    \/ GatewayHandshake \/ GatewayCompletes \/ GatewayRedelivers \/ WatchdogInvokes

(* The event loop serves every readable pipe, the peers answer, and a     *)
(* user function eventually returns.                                      *)
Fairness ==
    /\ WF_vars(Start) /\ WF_vars(RecvGatewayData) /\ WF_vars(RecvWatchdogData)
    /\ WF_vars(GatewayHandshake) /\ WF_vars(GatewayCompletes)
    /\ WF_vars(WatchdogInvokes) /\ WF_vars(FunctionReturns)

Spec == Init /\ [][Next]_vars /\ Fairness

-----------------------------------------------------------------------------
Messages(Calls, Clients) ==
    [type : {"HANDSHAKE", "INVOKE_FUNC", "FUNC_CALL_COMPLETE", "FUNC_CALL_FAILED"},
     call : Calls, client : Clients]

TypeOK ==
    /\ mgr.started \in BOOLEAN
    /\ mgr.client_id \in {-1, ClientId}
    /\ mgr.next_handle_value \in 0 .. Len(Invokes) + MaxOutgoing
    /\ mgr.incoming_func_calls \in UNION {[D -> Range(Invokes)] : D \in SUBSET Handles}
    /\ mgr.outcoming_func_calls \subseteq Handles
    /\ mgr.output_regions_to_close \subseteq Handles
    /\ mgr.to_gateway \in Seq(Messages(Handles \cup Range(Invokes), {-1, ClientId}))
    /\ mgr.to_watchdog \in Seq(Messages(Range(Invokes), {-1}))
    /\ mgr.dispatched \in Seq(Range(Invokes))
    /\ mgr.callbacks \in Seq(Handles)
    /\ gw_deliveries \in [Handles -> 0 .. 2]

(* The Manager implements WorkerInvocations: the watchdog's invocations   *)
(* reach the user function in the order the watchdog wrote them, none     *)
(* lost, split or repeated, however the event loop chunks the stream and  *)
(* whether a message straddles the handshake (buffered by                  *)
(* OnRecvWatchdogData, drained by OnRecvGatewayData, its rest read by      *)
(* ReadMessages); each is answered to the watchdog once, invalid gRPC     *)
(* input failed as it arrives; and FUNC_CALL_COMPLETE reaches the gateway *)
(* for the successful ones only (OnIncomingFuncCallComplete); and each    *)
(* outgoing call's completion callback runs once, however often and late  *)
(* the gateway reports it (OnOutcomingFuncCallComplete).                   *)
IsCompletion(m) == m.type = "FUNC_CALL_COMPLETE"
Abstract == INSTANCE WorkerInvocations WITH
    written    <- wd_sent,
    dispatched <- mgr.dispatched,
    answers    <- [j \in DOMAIN mgr.to_watchdog |->
                     <<mgr.to_watchdog[j].call, mgr.to_watchdog[j].type>>],
    completed  <- LET done == SelectSeq(mgr.to_gateway, IsCompletion)
                  IN  [j \in DOMAIN done |-> done[j].call],
    calls      <- {mgr.to_gateway[i].call : i \in OutgoingCalls},
    callbacks  <- mgr.callbacks
InvocationRefinement == Abstract!Spec

(* DCHECK(client_id_ != -1) of OnOutcomingFuncCall: every INVOKE_FUNC the  *)
(* Manager sends the gateway carries the client id of the handshake, i.e.  *)
(* no user function runs before the handshake is done.                     *)
OutgoingCallsCarryClientId ==
    \A i \in OutgoingCalls : mgr.to_gateway[i].client = ClientId

(* The regions the Manager holds open are exactly those of live contexts  *)
(* and of outputs kept for ReclaimOutcomingFuncCallOutput: none leaks and  *)
(* none is closed while still in use.                                      *)
OpenRegionsOwned ==
    mgr.regions =
        {InputRegion(mgr.incoming_func_calls[h]) : h \in DOMAIN mgr.incoming_func_calls}
        \cup {CallInput(h) : h \in mgr.outcoming_func_calls}
        \cup {CallOutput(h) : h \in mgr.output_regions_to_close}

(* Every invocation the watchdog writes is eventually answered to it by   *)
(* OnIncomingFuncCallComplete, whatever chunks the pipes deliver.         *)
AllInvokesAnswered ==
    <>(\A i \in 1 .. Len(Invokes) :
         \E j \in DOMAIN mgr.to_watchdog : mgr.to_watchdog[j].call = Invokes[i])
=============================================================================
