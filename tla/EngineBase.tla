------------------------------ MODULE EngineBase ------------------------------
(***************************************************************************)
(* The function-call side of an engine's shared-log front end, EngineBase  *)
(* in src/src/log/engine_base.cpp: the FnCallContext of each running       *)
(* function call, the local operations a function worker starts within a  *)
(* call (each snapshots the context's metalog_progress and may finish in   *)
(* any order), and the postponed registration and caching of experiments.  *)
(*                                                                         *)
(* The engine dispatcher that reports calls (not among the sources) is an  *)
(* environment that starts a call once, an internal call only while its   *)
(* parent runs, and completes a call once.  OnViewCreated and the          *)
(* registration it performs are engine code outside src/ and modelled      *)
(* from the spec.  metalog_progress is abstracted to 0 .. MaxProgress.     *)
(***************************************************************************)
EXTENDS Integers, FiniteSets, Functions, TLC

CONSTANTS
    CallIds,            \* full_call_id of the function calls
    NodeId,             \* node_id_ of this engine
    RegistrationArgs,   \* FLAGS_slog_engine_postpone_registration, parsed
    CachingArgs,        \* FLAGS_slog_engine_postpone_caching, parsed
    MaxProgress,        \* largest metalog_progress an operation returns
    MaxLocalOps,        \* local operations started over a behaviour
    TheView, NoCall, NoView

VARIABLES
    fn_call_ctx,            \* call -> [metalog_progress, parent_call_id]
    call_state,             \* call -> "new", "running" or "done"
    ops,                    \* LocalOps in flight: [id, call, metalog_progress]
    next_local_op_id,
    fake_acks,              \* calls answered OK without an operation
    postpone_registration,
    postpone_caching,
    registered,
    missed_view,
    view_created,           \* the view watcher reported the view
    ovc_pending,            \* pending OnViewCreated: "timer", "activation"
    activated,              \* activation znodes reported: "register", "cache"
    returned                \* history: largest metalog_progress answered to
                            \* the call, or to its parent before it started

eb_vars == <<fn_call_ctx, call_state, ops, next_local_op_id, fake_acks,
             postpone_registration, postpone_caching, registered,
             missed_view, view_created, ovc_pending, activated, returned>>
call_vars == <<fn_call_ctx, call_state, returned>>
activation_vars == <<postpone_registration, postpone_caching, registered,
                     missed_view, view_created, ovc_pending, activated>>

(* The constructor: postponed when node_id_ is a multiple of a flag value. *)
PostponedBy(args) == \E i \in args : NodeId % i = 0

Init ==
    /\ fn_call_ctx = [c \in {} |-> 0]
    /\ call_state = [c \in CallIds |-> "new"]
    /\ ops = {}
    /\ next_local_op_id = 0
    /\ fake_acks = {}
    /\ postpone_registration = PostponedBy(RegistrationArgs)
    /\ postpone_caching = PostponedBy(CachingArgs)
    /\ registered = FALSE
    /\ missed_view = NoView
    /\ view_created = FALSE
    /\ ovc_pending = {}
    /\ activated = {}
    /\ returned = [c \in CallIds |-> 0]

Ctx(progress, parent) == [metalog_progress |-> progress, parent_call_id |-> parent]

OnNewExternalFuncCall(c) ==
    /\ call_state[c] = "new"
    /\ c \notin DOMAIN fn_call_ctx
    /\ call_state' = [call_state EXCEPT ![c] = "running"]
    /\ fn_call_ctx' = fn_call_ctx @@ (c :> Ctx(0, NoCall))
    /\ UNCHANGED <<returned, ops, next_local_op_id, fake_acks, activation_vars>>

(* The child copies the parent's context, metalog_progress included.      *)
OnNewInternalFuncCall(c, p) ==
    /\ call_state[c] = "new" /\ call_state[p] = "running"
    /\ c \notin DOMAIN fn_call_ctx /\ p \in DOMAIN fn_call_ctx
    /\ call_state' = [call_state EXCEPT ![c] = "running"]
    /\ fn_call_ctx' = fn_call_ctx @@ (c :> Ctx(fn_call_ctx[p].metalog_progress, p))
    /\ returned' = [returned EXCEPT ![c] = returned[p]]
    /\ UNCHANGED <<ops, next_local_op_id, fake_acks, activation_vars>>

(* Mutant: the context of a completed call is kept.                      *)
OnFuncCallCompletedKeepCtx(c) ==
    /\ call_state[c] = "running"
    /\ c \in DOMAIN fn_call_ctx
    /\ call_state' = [call_state EXCEPT ![c] = "done"]
    /\ UNCHANGED <<fn_call_ctx, returned, ops, next_local_op_id, fake_acks, activation_vars>>

OnFuncCallCompleted(c) ==
    /\ call_state[c] = "running"
    /\ c \in DOMAIN fn_call_ctx
    /\ call_state' = [call_state EXCEPT ![c] = "done"]
    /\ fn_call_ctx' = Restrict(fn_call_ctx, DOMAIN fn_call_ctx \ {c})
    /\ UNCHANGED <<returned, ops, next_local_op_id, fake_acks, activation_vars>>

(* OnMessageFromFuncWorker: an operation of a running call (whose context *)
(* is therefore present; the branch for a missing context changes        *)
(* nothing).  While caching is postponed or the engine is not registered  *)
(* it is answered OK at once; otherwise a LocalOp starts with the         *)
(* context's metalog_progress.                                            *)
OnMessageFromFuncWorker(c) ==
    /\ call_state[c] = "running"
    /\ c \in DOMAIN fn_call_ctx
    /\ \/ /\ postpone_caching \/ ~registered
          /\ fake_acks' = fake_acks \cup {c}
          /\ UNCHANGED <<ops, next_local_op_id>>
       \/ /\ ~(postpone_caching \/ ~registered)
          /\ next_local_op_id < MaxLocalOps
          /\ next_local_op_id' = next_local_op_id + 1
          /\ ops' = ops \cup {[id |-> next_local_op_id, call |-> c,
                               metalog_progress |-> fn_call_ctx[c].metalog_progress]}
          /\ UNCHANGED fake_acks
    /\ UNCHANGED <<call_vars, activation_vars>>

FinishLocalOp(op, progress) ==
    /\ op \in ops
    /\ ops' = ops \ {op}
    /\ fn_call_ctx' =
          IF /\ progress > 0 /\ op.call \in DOMAIN fn_call_ctx
             /\ progress > fn_call_ctx[op.call].metalog_progress
          THEN [fn_call_ctx EXCEPT ![op.call].metalog_progress = progress]
          ELSE fn_call_ctx
    /\ returned' = [returned EXCEPT ![op.call] = IF progress > @ THEN progress ELSE @]
    /\ UNCHANGED <<call_state, next_local_op_id, fake_acks, activation_vars>>

(* The view-created callback arms a one-shot timer for OnViewCreated.      *)
ViewCreatedCallback ==
    /\ ~view_created
    /\ view_created' = TRUE
    /\ ovc_pending' = ovc_pending \cup {"timer"}
    /\ UNCHANGED <<postpone_registration, postpone_caching, registered,
                   missed_view, activated, call_vars, ops, next_local_op_id, fake_acks>>

(* OnViewCreated (spec): a node postponing registration keeps the view;   *)
(* any other registers with it.                                           *)
OnViewCreated(src) ==
    /\ src \in ovc_pending
    /\ ovc_pending' = ovc_pending \ {src}
    /\ IF postpone_registration
       THEN missed_view' = TheView /\ UNCHANGED registered
       ELSE registered' = TRUE /\ UNCHANGED missed_view
    /\ UNCHANGED <<postpone_registration, postpone_caching, view_created,
                   activated, call_vars, ops, next_local_op_id, fake_acks>>

(* Mutant: the view is checked before the flag is cleared.               *)
OnActivationRegisterCheckFirst ==
    /\ "register" \notin activated
    /\ activated' = activated \cup {"register"}
    /\ IF postpone_registration /\ missed_view # NoView
       THEN /\ postpone_registration' = FALSE
            /\ ovc_pending' = ovc_pending \cup {"activation"}
       ELSE UNCHANGED <<postpone_registration, ovc_pending>>
    /\ UNCHANGED <<postpone_caching, registered, missed_view, view_created,
                   call_vars, ops, next_local_op_id, fake_acks>>

(* OnActivationZNodeCreated("register"): a postponing node stops          *)
(* postponing and, if it kept a view, schedules OnViewCreated with it.    *)
OnActivationRegister ==
    /\ "register" \notin activated
    /\ activated' = activated \cup {"register"}
    /\ postpone_registration' = FALSE
    /\ ovc_pending' = IF postpone_registration /\ missed_view # NoView
                      THEN ovc_pending \cup {"activation"}
                      ELSE ovc_pending
    /\ UNCHANGED <<postpone_caching, registered, missed_view, view_created,
                   call_vars, ops, next_local_op_id, fake_acks>>

(* OnActivationZNodeCreated("cache"): OnActivateCaching, then caching is  *)
(* no longer postponed.                                                   *)
OnActivationCache ==
    /\ "cache" \notin activated
    /\ activated' = activated \cup {"cache"}
    /\ postpone_caching' = FALSE
    /\ UNCHANGED <<postpone_registration, registered, missed_view, view_created,
                   ovc_pending, call_vars, ops, next_local_op_id, fake_acks>>

Next ==
    \/ \E c \in CallIds :
          \/ OnNewExternalFuncCall(c) \/ OnFuncCallCompleted(c)
          \/ OnMessageFromFuncWorker(c)
          \/ \E p \in CallIds : OnNewInternalFuncCall(c, p)
    \/ \E op \in ops, progress \in 0 .. MaxProgress : FinishLocalOp(op, progress)
    \/ ViewCreatedCallback
    \/ \E src \in ovc_pending : OnViewCreated(src)
    \/ OnActivationRegister
    \/ OnActivationCache

(* Timers fire and functions scheduled on an IO worker run; the           *)
(* experiment that postpones registration creates its activation znode.   *)
Fairness ==
    /\ WF_eb_vars(ViewCreatedCallback)
    /\ WF_eb_vars(\E src \in ovc_pending : OnViewCreated(src))
    /\ WF_eb_vars(OnActivationRegister)

Spec == Init /\ [][Next]_eb_vars /\ Fairness

-----------------------------------------------------------------------------
TypeOK ==
    /\ DOMAIN fn_call_ctx = {c \in CallIds : call_state[c] = "running"}
    /\ \A c \in DOMAIN fn_call_ctx :
          /\ fn_call_ctx[c].metalog_progress \in 0 .. MaxProgress
          /\ fn_call_ctx[c].parent_call_id \in CallIds \cup {NoCall}
    /\ call_state \in [CallIds -> {"new", "running", "done"}]
    /\ \A op \in ops : op.call \in CallIds /\ op.id < next_local_op_id
    /\ fake_acks \subseteq CallIds
    /\ missed_view \in {TheView, NoView}
    /\ ovc_pending \subseteq {"timer", "activation"}
    /\ returned \in [CallIds -> 0 .. MaxProgress]

EventuallyRegistered == <>registered

(* Spec 4.4: only an engine configured to postpone registration or        *)
(* caching answers worker operations with OK without performing them.     *)
FakeAckOnlyWhenPostponed ==
    fake_acks # {} => PostponedBy(RegistrationArgs) \/ PostponedBy(CachingArgs)
=============================================================================
