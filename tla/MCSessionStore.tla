--------------------------- MODULE MCSessionStore ---------------------------
(* TLC instance of SessionStore, and what the source and the README say of *)
(* it but the code does not keep.                                          *)
EXTENDS SessionStore

\* persist.h:25, "Save the index file + one session's message file": where a
\* session was saved, the index lists it.
SavedIsListed ==
    mode = "up" /\ todo = <<>> /\ hurt = {} =>
        \A s \in Ids : file[s].state = "whole" =>
            index.state = "whole" /\ s \in ToSet(index.ids)

\* README.md:45, "Sessions persist across restarts": quitting and starting
\* again gives the same sessions.
QuitPersists ==
    [][Start /\ atQuit # <<>> => sessions' = atQuit]_vars
=============================================================================
