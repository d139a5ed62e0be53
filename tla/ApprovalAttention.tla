------------------------- MODULE ApprovalAttention -------------------------
(***************************************************************************)
(* ApprovalBus with the user's attention: a user reads a prompt, decides   *)
(* and only then presses a key.  check_ipc may run in between and put      *)
(* another prompt in its place.                                            *)
(***************************************************************************)
EXTENDS ApprovalBus

VARIABLES
    seen,      \* the prompt the user has read and not answered, NoCorr for none
    intended   \* requests the user pressed Y for, having read their prompt

attentionVars == <<seen, intended>>

AttentiveInit == Init /\ seen = NoCorr /\ intended = {}

\* The user reads the prompt on the screen.
Look ==
    /\ pending # NoCorr
    /\ seen' = pending
    /\ UNCHANGED <<vars, intended>>

\* The user answers the prompt read; the key goes to the prompt that is up.
PressAimed(key) ==
    /\ seen # NoCorr
    /\ PressKey(key)
    /\ intended' = IF key = "Y" THEN intended \cup {seen} ELSE intended
    /\ seen' = NoCorr

AttentiveNext ==
    \/ Look
    \/ \E key \in {"Y", "N"} : PressAimed(key)
    \/ /\ \/ \E c \in Ops : Submit(c)
          \/ TuiReceives
          \/ LoopReceives
          \/ \E t \in Ops : ThreadStep(t)
       /\ UNCHANGED attentionVars

AttentiveSpec == AttentiveInit /\ [][AttentiveNext]_<<vars, attentionVars>>

\* docs/architecture.md:75, "Explicit user approval for all mutating
\* operations": what touches a file is a request whose prompt the user had
\* read when pressing Y.
PerformedAsIntended == touched \subseteq intended
=============================================================================
