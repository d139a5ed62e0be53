----------------------------- MODULE MCBackend -----------------------------
(* TLC instance of the two kinds of work the backend's threads do: chat    *)
(* requests (AgentLoop) and file system requests (FsWorker).  They share   *)
(* no variable, so a behaviour has one kind of them: to interleave the two *)
(* would show nothing more.                                                *)
EXTENDS AgentLoop, FsWorker

CONSTANTS
    r1, r2, o1, o2

VARIABLE part

\* r1 is the first turn of a session that uses xAI, the one with tools, or a
\* turn with Anthropic; r2 is a later turn with IBM, whose token sub-queries
\* of r1 use too, or a first one with Google.
AskingOf == [r \in {r1, r2} |->
                IF r = r1 THEN {<<"xai", TRUE>>, <<"anthropic", TRUE>>}
                ELSE {<<"ibm", FALSE>>, <<"google", TRUE>>}]

\* Anthropic's and Google's keys, half of IBM's, and of xAI and IBM what
\* README.md names and nobody reads; or xAI's, and all of IBM's from two places.
FewKeys == {"XAI_API_KEY", "anthropic_file", "GEMINI_API_KEY", "WATSONX_API_KEY",
            "watsonx_project_id"}
StoredConfigs == {FewKeys, {"grok_settings", "WATSONX_API_KEY", "watsonx_projectId"}}

\* A sandbox "box" beside "boxes", whose name its own name begins; a link
\* there, one to where nothing is, and two places where the user can make one.
Sandbox == <<"box">>
FilesAtFirst ==
    [p \in {<<>>, <<"box">>, <<"boxes">>, <<"box", "d">>} |-> "dir"]
    @@ (<<"boxes", "outside">> :> "outside")
    @@ (<<"box", "new">> :> "missing") @@ (<<"box", "d", "big">> :> "big")
    @@ (<<"box", "out">> :> "link") @@ (<<"box", "gone">> :> "link")
WhereLinksLead ==
    (<<"box", "out">> :> <<"boxes">>) @@ (<<"box", "gone">> :> <<"boxes", "fresh">>)
    @@ (<<"box", "new">> :> <<"boxes", "outside">>) @@ (<<"box", "d">> :> <<"boxes">>)
LongerNames == {<<"box", "boxes">>}
RequestedPaths ==
    {<<>>, <<"new">>, <<"d", "big">>, <<"gone">>, <<"out", "..", "boxes", "outside">>}

BackendInit ==
    /\ AgentInit /\ FsInit
    /\ part \in {"chat", "files"}
    /\ part = "files" => config = FewKeys

BackendNext ==
    \/ part = "chat" /\ AgentNext /\ UNCHANGED <<part, fsVars>>
    \/ part = "files" /\ FsNext /\ UNCHANGED <<part, agentVars>>

BackendSpec ==
    BackendInit /\ [][BackendNext]_<<part, agentVars, fsVars>> /\ AgentFairness

-----------------------------------------------------------------------------
\* All the state of the backend's threads keeps its types.
BackendTypeOK == AgentTypeOK /\ FsTypeOK

\* provider_ibm.c:143, "Ensure we have a valid IAM token; refresh if expired":
\* what ensure_token leaves behind is read while it is valid, and freed once,
\* in whatever order the threads come.
TokenEnsured == ~misused
=============================================================================
