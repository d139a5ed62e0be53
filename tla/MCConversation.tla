--------------------------- MODULE MCConversation ---------------------------
(* TLC instance of Conversation, and what the source says of it in its     *)
(* comments but does not keep.                                             *)
EXTENDS Conversation

\* main.c:817, "sidx is a hint, corr_id is authoritative": a reply is put
\* where its request was sent from, deletions or not.
CorrIdAuthoritative ==
    \A i \in 1..Count : \A m \in ToSet(ChatOf(i)) :
        m.kind = "reply" => asked[m.corr] = sessions[i].id

\* backend_worker.h:104, "send the final result and close out this corr_id":
\* after its WORKER_END a request no longer locks the input of its session.
EndUnlocks ==
    \A c \in ended : \A k \in Entries(c) : in_flight[k].depth = 1

\* main.c:825 and :859, "remove "..." placeholder": with the reply or the error
\* of a turn its placeholder goes.
PlaceholderRemoved ==
    \A i \in 1..Count : \A m \in ToSet(ChatOf(i)) :
        m.kind = "dots" => m.corr \notin answered
=============================================================================
