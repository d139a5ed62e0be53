------------------------------ MODULE FsWorker ------------------------------
(***************************************************************************)
(* The file system worker (src/workers/fs_worker.c): paths resolved inside *)
(* the sandbox, files read, listed, created, overwritten and removed, one  *)
(* thread per request, while the user edits the same files by hand.  What  *)
(* happens inside bw_request_approval is ApprovalBus's: here an answer     *)
(* comes at some time, yes or no.                                          *)
(*                                                                         *)
(* An absolute path is the sequence of its names, a requested path the     *)
(* sequence of its components.  A file's text is a value: what was there   *)
(* before, or the name of the operation that wrote it.  Missing and        *)
(* unparsable arguments are ApprovalBus's RejectArgs; no path is as long   *)
(* as FS_PATH_MAX.                                                         *)
(***************************************************************************)
EXTENDS Naturals, Sequences, SequencesExt, FiniteSets

CONSTANTS
    FsOps,         \* requests to the worker, and the threads that serve them
    Root,          \* priv->root: the sandbox, as realpath gave it
    Tree0,         \* what the file system holds at first, by absolute path
    LeadsTo,       \* bound: where a symbolic link can be, and where it leads
    Prolongs,      \* pairs of names of which the second starts with the first
    Paths,         \* bound: the paths that are requested
    MaxEdits       \* bound: changes the user makes by hand

\* Texts: old ones, an empty one, half of one, two laid over each other,
\* whatever the freed memory held, one over 512 KB; or that of a request.
FixedTexts == {"old", "outside", "", "half", "mixed", "garbage", "big"}
Texts == FixedTexts \cup FsOps

\* A canonical path, and what can be at it.
Places == {p \in Seq(STRING) : \A i \in DOMAIN p : p[i] \notin {".", ".."}}
Things == {"missing", "dir", "link"} \cup Texts

Nowhere == <<"(none)">>
Parent(p) == IF p = <<>> THEN <<>> ELSE Front(p)

\* The sandbox is a directory, and so is what anything is in; the texts from
\* outside are outside.  A link leads to any place, inside or outside, where
\* there is something or not; but through no other link.
FsAssumption ==
    /\ Root \in Places \ {<<>>} /\ Paths \subseteq Seq(STRING) /\ MaxEdits \in Nat
    /\ DOMAIN Tree0 \subseteq Places \ {Nowhere}
    /\ Tree0 \in [DOMAIN Tree0 -> {"missing", "dir", "link"} \cup FixedTexts]
    /\ FsOps \cap ({"missing", "dir", "link"} \cup FixedTexts) = {}
    /\ Root \in DOMAIN Tree0 /\ Tree0[Root] = "dir"
    /\ \A p \in DOMAIN Tree0 :
         /\ Tree0[p] # "missing" => Parent(p) \in DOMAIN Tree0 /\ Tree0[Parent(p)] = "dir"
         /\ Tree0[p] = "outside" => ~IsPrefix(Root, p)
         /\ Tree0[p] = "link" => p \in DOMAIN LeadsTo
    /\ \A l \in DOMAIN LeadsTo :
         /\ l \in Places /\ LeadsTo[l] \in Places \ {Nowhere}
         /\ \A m \in DOMAIN LeadsTo : ~IsPrefix(l, LeadsTo[m])
ASSUME FsAssumption

VARIABLES
    tree,          \* for each path: "missing", "dir", "link", or a file's text
    op,            \* the thread of each request
    reply,         \* what it sent back
    edits

fsVars == <<tree, op, reply, edits>>

Kinds == {"read", "list", "create", "modify", "delete"}

\* What can make a thread's path another than the one it checked: a request
\* or the user changed something on it, or a link was its last name.
Doubts == {"request", "hand", "link"}

NoOp == [pc |-> "idle", kind |-> "read", path |-> <<>>, abs |-> Nowhere, said |-> "unasked",
         did |-> FALSE, doubts |-> {}, linked |-> TRUE, lost |-> FALSE]

Op == [pc : {"idle", "resolve", "stat", "ask", "open", "write", "remove", "read", "list", "done"},
       kind : Kinds, path : Paths \cup {<<>>}, abs : Places \cup {Nowhere},
       said : {"unasked", "none", "yes", "no"},
       did : BOOLEAN, doubts : SUBSET Doubts, linked : BOOLEAN, lost : BOOLEAN]

\* A reply: ok or an error, the text of a file, the entries of a directory.
Sent(st) == [st |-> st, text |-> {}, entries |-> {}]

FsTypeOK ==
    /\ DOMAIN Tree0 \subseteq DOMAIN tree /\ DOMAIN tree \subseteq Places \ {Nowhere}
    /\ tree \in [DOMAIN tree -> Things]
    /\ op \in [FsOps -> Op]
    /\ reply \in [FsOps -> [st : {"none", "ok", "error"}, text : SUBSET Texts,
                           entries : SUBSET DOMAIN tree]]
    /\ edits \in 0..MaxEdits

-----------------------------------------------------------------------------
(* Path safety.                                                            *)

At(p) == IF p \in DOMAIN tree THEN tree[p] ELSE "missing"
IsDir(p) == At(p) = "dir"
IsFile(p) == At(p) \notin {"missing", "dir", "link"}

\* One component of realpath.
Into(dir, name) ==
    CASE ~IsDir(dir)                             -> Nowhere
      [] IsDir(dir) /\ name = "."                -> dir
      [] IsDir(dir) /\ name = ".."               -> Parent(dir)
      [] IsDir(dir) /\ name \notin {".", ".."}   ->
            LET p == Append(dir, name)
                q == IF At(p) = "link" THEN LeadsTo[p] ELSE p
            IN  IF At(q) # "missing" THEN q ELSE Nowhere

\* realpath, Nowhere when it fails; and realpath(root/path).
Walk(p) == FoldLeft(Into, <<>>, p)
RealPath(path) == Walk(Root \o path)

\* What remove() takes away, the last name unfollowed; and what stat, fopen
\* and opendir come to, which may not be there.
Spot(p) ==
    CASE p = <<>>                                  -> p
      [] p # <<>> /\ IsDir(Walk(Front(p)))         -> Append(Walk(Front(p)), Last(p))
      [] p # <<>> /\ ~IsDir(Walk(Front(p)))        -> Nowhere
Place(p) == IF At(Spot(p)) = "link" THEN LeadsTo[Spot(p)] ELSE Spot(p)

\* stat(p) succeeds.
Exists(p) == At(Place(p)) # "missing"

\* For a file to be created the directory is resolved, and the name appended.
NewPath(path) ==
    IF Last(path) \in {".", ".."} \/ RealPath(Front(path)) = Nowhere
    THEN Nowhere ELSE Append(RealPath(Front(path)), Last(path))

\* strncmp(resolved, root, root_len) = 0, name by name ...
StartsWithRoot(p) ==
    /\ Len(p) >= Len(Root)
    /\ \A i \in 1..(Len(Root) - 1) : p[i] = Root[i]
    /\ \/ p[Len(Root)] = Last(Root)
       \/ <<Last(Root), p[Len(Root)]>> \in Prolongs

\* ... and the character after it ends the name.
NameEnds(p) == p[Len(Root)] = Last(Root)

\* The faulty variant compares the characters of the root only.
fs_resolve_prefix(path, for_create) ==
    LET p == IF for_create THEN NewPath(path) ELSE RealPath(path)
    IN  IF path = <<>> THEN Root
        ELSE IF StartsWithRoot(p) THEN p ELSE Nowhere

fs_resolve(path, for_create) ==
    LET p == IF for_create THEN NewPath(path) ELSE RealPath(path)
    IN  IF path = <<>> THEN Root
        ELSE IF StartsWithRoot(p) /\ NameEnds(p) THEN p ELSE Nowhere

-----------------------------------------------------------------------------
(* Operations.                                                             *)

Finished(o) == [NoOp EXCEPT !.pc = "done", !.kind = op[o].kind, !.said = op[o].said,
                             !.did = op[o].did]
Reply(o, sent) == reply' = [reply EXCEPT ![o] = sent]
EndWith(o, sent) == op' = [op EXCEPT ![o] = Finished(o)] /\ Reply(o, sent)
Refuse(o) == EndWith(o, Sent("error"))

GoOn(o, pc) == op' = [op EXCEPT ![o].pc = pc]

\* Something changes on the path that threads are at work on; an open file
\* that is removed has no name any more.
Touch(ops, S, p, who, removed) ==
    [q \in FsOps |->
        IF q \in S /\ IsPrefix(p, ops[q].abs)
        THEN [ops[q] EXCEPT !.doubts = @ \cup {who}, !.linked = @ /\ ~removed]
        ELSE ops[q]]

FsAsk(o, kind, path) ==
    /\ op[o].pc = "idle"
    /\ op' = [op EXCEPT ![o].pc = "resolve", ![o].kind = kind, ![o].path = path]
    /\ UNCHANGED <<tree, reply, edits>>

\* Where each operation goes on when its path is good.
AfterResolve == [read |-> "read", list |-> "list", create |-> "stat",
                 modify |-> "ask", delete |-> "ask"]

FsResolve(o) ==
    /\ op[o].pc = "resolve"
    /\ LET p == fs_resolve(op[o].path, op[o].kind = "create")
       IN  IF p = Nowhere THEN Refuse(o)
           ELSE /\ op' = [op EXCEPT ![o].pc = AfterResolve[op[o].kind], ![o].abs = p,
                                    ![o].path = <<>>,
                                    ![o].doubts = IF At(p) = "link" THEN {"link"} ELSE {},
                                    ![o].said = IF op[o].kind \in {"modify", "delete"}
                                                THEN "none" ELSE @]
                /\ UNCHANGED reply
    /\ UNCHANGED <<tree, edits>>

\* The faulty variant leaves the check to whoever approves.
FsStatSkipped(o) ==
    /\ op[o].pc = "stat"
    /\ op' = [op EXCEPT ![o].pc = "ask", ![o].said = "none",
                        ![o].doubts = @ \ {"request"}]
    /\ UNCHANGED <<tree, reply, edits>>

\* create_file: the file must not exist yet.
FsStat(o) ==
    /\ op[o].pc = "stat"
    /\ IF Exists(op[o].abs) THEN Refuse(o)
       ELSE /\ op' = [op EXCEPT ![o].pc = "ask", ![o].said = "none",
                                ![o].doubts = @ \ {"request"}]
            /\ UNCHANGED reply
    /\ UNCHANGED <<tree, edits>>

\* The user answers the prompt ...
FsAnswer(o) ==
    /\ op[o].pc = "ask" /\ op[o].said = "none"
    /\ \E said \in {"yes", "no"} : op' = [op EXCEPT ![o].said = said]
    /\ UNCHANGED <<tree, reply, edits>>

\* The faulty variant looks only for an answer.
FsApprovalAny(o) ==
    /\ op[o].pc = "ask"
    /\ \/ op[o].said # "none" /\ UNCHANGED reply
          /\ GoOn(o, IF op[o].kind = "delete" THEN "remove" ELSE "open")
       \/ Refuse(o)
    /\ UNCHANGED <<tree, edits>>

\* ... and bw_request_approval returns, without an answer when it comes late.
FsApproval(o) ==
    /\ op[o].pc = "ask"
    /\ \/ op[o].said = "yes" /\ UNCHANGED reply
          /\ GoOn(o, IF op[o].kind = "delete" THEN "remove" ELSE "open")
       \/ Refuse(o)
    /\ UNCHANGED <<tree, edits>>

\* write_file_contents: fopen(path, "wb") creates the file or empties it, at
\* the end of the path as it leads now.
FsOpen(o) ==
    /\ op[o].pc = "open"
    /\ LET p == Place(op[o].abs)
       IN  IF p # Nowhere /\ ~IsDir(p) /\ IsDir(Parent(p))
           THEN /\ tree' = [q \in DOMAIN tree \cup {p} |-> IF q = p THEN "" ELSE tree[q]]
                /\ op' = Touch([op EXCEPT ![o].pc = "write", ![o].did = TRUE, ![o].abs = p,
                                          ![o].doubts = @ \ {"request"}, ![o].linked = TRUE],
                               FsOps \ {o}, p, "request", FALSE)
                /\ UNCHANGED reply
           ELSE Refuse(o) /\ UNCHANGED tree
    /\ UNCHANGED edits

\* What fwrite leaves in the file: the text of the request, or, since it was
\* freed with its arguments, what the memory holds now; over the longer text
\* of another thread, the two mixed.
Written(o) ==
    LET was == At(op[o].abs)
    IN  {o, "garbage"} \cup (IF was = "" THEN {} ELSE {"mixed"})

PutText(o, text) ==
    IF op[o].linked THEN [tree EXCEPT ![op[o].abs] = text] ELSE tree

\* The faulty variant does not look at what fwrite returns.
FsWriteUnchecked(o) ==
    /\ op[o].pc = "write"
    /\ \E text \in Written(o) \cup {"half"} : tree' = PutText(o, text)
    /\ op' = Touch([op EXCEPT ![o] = Finished(o)], FsOps \ {o}, op[o].abs, "request", FALSE)
    /\ Reply(o, Sent("ok"))
    /\ UNCHANGED edits

\* The text is written in whole; or fwrite comes short; or it comes short in
\* fclose, which is not checked.
FsWrite(o) ==
    /\ op[o].pc = "write"
    /\ \/ /\ \E text \in Written(o) : tree' = PutText(o, text)
          /\ op' = Touch([op EXCEPT ![o] = Finished(o)], FsOps \ {o}, op[o].abs, "request", FALSE)
          /\ Reply(o, Sent("ok"))
       \/ /\ tree' = PutText(o, "half")
          /\ op' = Touch([op EXCEPT ![o] = Finished(o)], FsOps \ {o}, op[o].abs, "request", FALSE)
          /\ Reply(o, Sent("error"))
       \/ /\ tree' \in {tree, PutText(o, "half")}
          /\ op' = Touch([op EXCEPT ![o] = [Finished(o) EXCEPT !.lost = TRUE]],
                         FsOps \ {o}, op[o].abs, "request", FALSE)
          /\ Reply(o, Sent("ok"))
    /\ UNCHANGED edits

\* What is in a directory, and what of that list_dir tells: the names for
\* which stat succeeds.
Inside(p) == {q \in DOMAIN tree : q # <<>> /\ Front(q) = p /\ At(q) # "missing"}
Entries(p) == {q \in Inside(p) : At(q) = "link" => At(LeadsTo[q]) # "missing"}

\* remove() takes a file, a link, and an empty directory as well.
FsRemove(o) ==
    /\ op[o].pc = "remove"
    /\ LET p == Spot(op[o].abs)
       IN  IF At(p) # "missing" /\ Inside(p) = {}
           THEN /\ tree' = [tree EXCEPT ![p] = "missing"]
                /\ op' = Touch([op EXCEPT ![o] = [Finished(o) EXCEPT !.did = TRUE]],
                               FsOps \ {o}, p, "request", TRUE)
                /\ Reply(o, Sent("ok"))
           ELSE Refuse(o) /\ UNCHANGED tree
    /\ UNCHANGED edits

\* read_file_contents: a file of at most 512 KB; a directory, where its end
\* is told to be at 0, reads as an empty text.
FsRead(o) ==
    /\ op[o].pc = "read"
    /\ LET p == Place(op[o].abs)
       IN  \/ IsFile(p) /\ At(p) # "big" /\ EndWith(o, [Sent("ok") EXCEPT !.text = {At(p)}])
           \/ IsDir(p) /\ EndWith(o, [Sent("ok") EXCEPT !.text = {""}])
           \/ (IsFile(p) => At(p) = "big") /\ Refuse(o)
    /\ UNCHANGED <<tree, edits>>

FsList(o) ==
    /\ op[o].pc = "list"
    /\ LET p == Place(op[o].abs)
       IN  IF IsDir(p) THEN EndWith(o, [Sent("ok") EXCEPT !.entries = Entries(p)]) ELSE Refuse(o)
    /\ UNCHANGED <<tree, edits>>

FsStep(o) ==
    \/ FsResolve(o) \/ FsStat(o) \/ FsAnswer(o) \/ FsApproval(o) \/ FsOpen(o) \/ FsWrite(o)
    \/ FsRemove(o) \/ FsRead(o) \/ FsList(o)

\* By hand the user puts a file, a directory or a link at a place in the
\* sandbox, or takes away what is there, with all that is in it.
FsEdit(p) ==
    /\ edits < MaxEdits
    /\ IsStrictPrefix(Root, p) /\ IsDir(Parent(p))
    /\ \E thing \in {"missing", "old", "dir"} \cup (IF p \in DOMAIN LeadsTo THEN {"link"} ELSE {}) :
         /\ thing # At(p)
         /\ tree' = [q \in DOMAIN tree |-> IF q = p THEN thing
                                           ELSE IF IsPrefix(p, q) THEN "missing" ELSE tree[q]]
    /\ op' = Touch(op, FsOps, p, "hand", TRUE)
    /\ edits' = edits + 1
    /\ UNCHANGED reply

\* fs_init has made the sandbox a directory with a canonical path.
FsInit ==
    /\ tree = Tree0
    /\ op = [o \in FsOps |-> NoOp]
    /\ reply = [o \in FsOps |-> Sent("none")]
    /\ edits = 0

FsNext ==
    \/ \E o \in FsOps : \E kind \in Kinds, path \in Paths : FsAsk(o, kind, path)
    \/ \E o \in FsOps : FsStep(o)
    \/ \E p \in DOMAIN Tree0 : FsEdit(p)

FsSpec == FsInit /\ [][FsNext]_fsVars

-----------------------------------------------------------------------------
(* Properties.                                                             *)

\* Whatever path is asked for, by whatever way round, no request changes,
\* reads or lists anything outside the sandbox (fs_resolve), as long as the
\* path was not changed by hand since it was resolved and did not end at a
\* link then (fs_worker.c:85 resolves the directory of a new file only).
InsideSandbox ==
    [][\A o \in FsOps :
        op'[o].pc # op[o].pc /\ op[o].doubts \cap {"hand", "link"} = {} =>
            /\ \A p \in DOMAIN tree' :
                 ~IsPrefix(Root, p) => p \in DOMAIN tree /\ tree'[p] = tree[p]
            /\ "outside" \notin reply'[o].text
            /\ \A q \in reply'[o].entries : IsPrefix(Root, q)]_fsVars

\* The path that fs_resolve returns is "guaranteed to be inside the sandbox
\* root" (fs_worker.c:34), and all operations are "scoped" to it
\* (fs_worker.h:7): nothing outside is ever changed or read.
OutsideUntouched ==
    /\ \A p \in DOMAIN tree : ~IsPrefix(Root, p) => p \in DOMAIN Tree0 /\ tree[p] = Tree0[p]
    /\ \A o \in FsOps : "outside" \notin reply[o].text

\* What the user was asked to approve is still what will be done: a file to
\* be created is not there, one to be overwritten or removed is, unless there
\* is a doubt about the path since the check (fs_worker.c:343).  The sandbox
\* itself, named by the empty path, is taken to be there unseen.
CheckStands ==
    \A o \in FsOps :
        op[o].pc \in {"ask", "open", "remove"} /\ op[o].doubts = {} =>
            IF op[o].kind = "create" THEN At(op[o].abs) = "missing"
            ELSE At(op[o].abs) # "missing" \/ op[o].abs = Root

\* "Check the file does not already exist" (fs_worker.c:319): create_file
\* writes no file that is there; for that there is modify_file (:328).
CreatesOnly ==
    [][\A o \in FsOps :
        op[o].pc = "open" /\ op'[o].pc = "write" /\ op[o].kind = "create"
        => At(op'[o].abs) = "missing"]_fsVars

\* A reply of success means that it was done in whole: fwrite took all of the
\* text it was given, whatever text that was, or the file is gone; unless
\* there is a doubt about the path, or fclose lost the text, which is not
\* checked (fs_worker.c:152).
OkMeansWhole ==
    [][\A o \in FsOps :
        reply[o].st = "none" /\ reply'[o].st = "ok" /\ op[o].doubts = {} /\ ~op'[o].lost =>
            /\ op[o].pc = "write"  => tree'[op[o].abs] \in {o, "garbage"}
            /\ op[o].pc = "remove" => tree'[op[o].abs] = "missing"]_fsVars

\* "Write content to path" (fs_worker.c:146), of {"path","content"} with the
\* result {"status":"ok"} (fs_worker.h:19-24): the file then holds the
\* content of the request, even where OkMeansWhole excuses nothing.
WrittenAsAsked ==
    [][\A o \in FsOps :
        /\ reply[o].st = "none" /\ reply'[o].st = "ok" /\ op[o].pc = "write"
        /\ op[o].doubts = {} /\ ~op'[o].lost
        => tree'[op[o].abs] = o]_fsVars

\* The worker keeps what the approval flow promises: a mutating operation is
\* performed only after a yes to it, and at most once (ApprovalGate).
GateStatus(o) ==
    CASE op[o].did -> "performed"
      [] ~op[o].did /\ op[o].pc \in {"ask", "open", "remove"} -> "open"
      [] ~op[o].did /\ op[o].pc = "done" /\ op[o].said # "unasked" -> "denied"
      [] OTHER -> "idle"

FsGate == INSTANCE ApprovalGate WITH
    Ops <- FsOps,
    status <- [o \in FsOps |-> GateStatus(o)],
    yes <- {o \in FsOps : op[o].said = "yes"},
    no <- {o \in FsOps : op[o].said = "no"}
FsGateSpec == FsGate!Spec
=============================================================================
