------------------------- MODULE WorkerInvocations -------------------------
(***************************************************************************)
(* What a function worker promises the watchdog and the gateway about the *)
(* invocations it is sent, with no byte streams, buffers, handles or       *)
(* regions: the watchdog writes invocations one at a time; the worker      *)
(* starts them in the order written, none skipped or repeated, possibly    *)
(* several in one step; a gRPC invocation whose input cannot be parsed is  *)
(* failed as it starts; every started invocation is answered to the        *)
(* watchdog exactly once, and only a successful one is also reported to   *)
(* the gateway.  The function's own calls to other functions are each    *)
(* called back exactly once, however often the gateway reports them, in   *)
(* the order their reports arrive.  WorkerManager implements this specification (the         *)
(* refinement mapping is in WorkerManager.tla).                            *)
(***************************************************************************)
EXTENDS Integers, Sequences, FiniteSets, SequencesExt

CONSTANTS Invokes, InputOf, IsGrpcService

VARIABLES
    written,     \* invocations the watchdog has written
    dispatched,  \* invocations started, in order
    answers,     \* <<id, type>> answered to the watchdog, in order
    completed,   \* ids reported complete to the gateway, in order
    calls,       \* handles of the function's outgoing calls
    callbacks    \* handles whose completion callback ran, in order

vars == <<written, dispatched, answers, completed, calls, callbacks>>

Complete == "FUNC_CALL_COMPLETE"
Failed   == "FUNC_CALL_FAILED"

(* An invocation the worker fails as it starts it.                        *)
Rejected(id) == IsGrpcService /\ InputOf[id] # "valid"

Answered == {answers[j][1] : j \in DOMAIN answers}

Init ==
    /\ written = 0
    /\ dispatched = <<>>
    /\ answers = <<>>
    /\ completed = <<>>
    /\ calls = {}
    /\ callbacks = <<>>

Write ==
    /\ written < Len(Invokes)
    /\ written' = written + 1
    /\ UNCHANGED <<dispatched, answers, completed, calls, callbacks>>

(* The next n written invocations start, the rejected ones fail at once.  *)
Dispatch ==
    \E n \in Len(dispatched) + 1 .. written :
        LET new == SubSeq(Invokes, Len(dispatched) + 1, n)
        IN  /\ dispatched' = dispatched \o new
            /\ answers' = answers \o
                 [j \in 1 .. Len(SelectSeq(new, Rejected)) |->
                    <<SelectSeq(new, Rejected)[j], Failed>>]
            /\ UNCHANGED <<written, completed, calls, callbacks>>

(* A started invocation that is not yet answered returns.                 *)
Answer ==
    \E id \in Range(dispatched) \ Answered, success \in BOOLEAN :
        /\ answers' = Append(answers, <<id, IF success THEN Complete ELSE Failed>>)
        /\ completed' = IF success THEN Append(completed, id) ELSE completed
        /\ UNCHANGED <<written, dispatched, calls, callbacks>>

(* The function calls another function under a fresh handle.             *)
Call ==
    /\ calls \subseteq calls'
    /\ Cardinality(calls' \ calls) = 1
    /\ UNCHANGED <<written, dispatched, answers, completed, callbacks>>

(* Calls not yet called back are called back, each once, in some order.   *)
Callback ==
    /\ IsPrefix(callbacks, callbacks')
    /\ LET new == SubSeq(callbacks', Len(callbacks) + 1, Len(callbacks'))
       IN  /\ new # <<>>
           /\ IsInjective(callbacks')
           /\ Range(new) \subseteq calls
    /\ UNCHANGED <<written, dispatched, answers, completed, calls>>

Next == Write \/ Dispatch \/ Answer \/ Call \/ Callback

Spec == Init /\ [][Next]_vars
=============================================================================
