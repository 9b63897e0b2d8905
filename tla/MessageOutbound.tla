---------------------------- MODULE MessageOutbound ----------------------------
(***************************************************************************)
(* The two clients by which a process of message-service calls out, to     *)
(* auth-service and to the web.  Their coroutines share the event loop,    *)
(* and no state.                                                           *)
(***************************************************************************)
EXTENDS AuthClient, LinkPreview

vars == <<authVars, previewVars>>

Init == AuthInit /\ PreviewInit

Next ==
    \/ Tick /\ UNCHANGED previewVars
    \/ GoDown /\ UNCHANGED previewVars
    \/ ComeUp /\ UNCHANGED previewVars
    \/ \E c \in Caller : GetUserByUsername(c) /\ UNCHANGED previewVars
    \/ \E c \in Caller : Answered(c) /\ UNCHANGED previewVars
    \/ \E c \in Caller : Failed(c) /\ UNCHANGED previewVars
    \/ \E c \in Caller : Broken(c) /\ UNCHANGED previewVars
    \/ \E r \in Request, u \in Url : GetLinkPreview(r, u) /\ UNCHANGED authVars
    \/ \E r \in Request, u \in Url : GetCachedPreview(r, u) /\ UNCHANGED authVars
    \/ \E r \in Request : ResolveSafeIp(r) /\ UNCHANGED authVars
    \/ \E r \in Request : BuildConnectionUrl(r) /\ UNCHANGED authVars
    \/ \E r \in Request : FetchHtml(r) /\ UNCHANGED authVars
    \/ \E r \in Request : CachePreview(r) /\ UNCHANGED authVars
    \/ \E r \in Request : Answer(r) /\ UNCHANGED authVars
    \/ \E u \in Url : Expire(u) /\ UNCHANGED authVars

Spec == Init /\ [][Next]_vars

\* Every variable has its type, and no caller or request does two things at once.
TypeOK == AuthTypeOK /\ PreviewTypeOK

=============================================================================
