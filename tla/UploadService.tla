--------------------------- MODULE UploadService ---------------------------
(***************************************************************************)
(* What the backend sees of AnyShare and its object store: the destination *)
(* file with its revision, and the multipart uploads begun for it.  The    *)
(* service is not part of the repository; this module states what the      *)
(* backend's requests (upload.go) ask of it and what it relies on:         *)
(*   - an update carrying editedrev is refused when that revision is no    *)
(*     longer current, a creation (ondup = 1) when the name exists;        *)
(*   - the object store completes an upload only if every listed ETag is   *)
(*     the one of the part it holds, and does so once;                     *)
(*   - a part that is uploaded again replaces the previous one;            *)
(*   - a revision that was reserved by an init is committed at most once.  *)
(***************************************************************************)
EXTENDS UploadTypes

VARIABLES
    dest,      \* the destination: its revision and contents
    uploads,   \* uploads[u]: the multipart upload with ID u
    nextId,    \* the next identifier the service hands out
    late       \* part requests whose client gave up and that may still land

serviceVars == <<dest, uploads, nextId, late>>

Upload == [rev : Revs, base : Revs, parts : Data,
           status : {"unused", "open", "expired", "assembled", "committed"}]

ServiceTypeOK ==
    /\ dest \in [rev : Revs, data : Data]
    /\ uploads \in [Ids -> Upload]
    /\ nextId \in 1 .. MaxId + 1
    /\ late \subseteq [upload : Ids, part : Parts, bytes : Bytes]

ServiceInit ==
    /\ dest = [rev |-> 0, data |-> NoData]
    /\ uploads = [u \in Ids |-> [rev |-> 0, base |-> 0, parts |-> NoData,
                                 status |-> "unused"]]
    /\ nextId = 1
    /\ late = {}

\* osinitmultiupload and osuploadrefresh hand out a new upload ID.
NewUpload(rev, base) ==
    /\ nextId \in Ids
    /\ uploads' = [uploads EXCEPT ![nextId] =
                     [rev |-> rev, base |-> base, parts |-> NoData,
                      status |-> "open"]]
    /\ nextId' = nextId + 1

\* The start body: an update names the revision it edits, a creation asks to
\* fail on an existing name.  Both are refused unless base is current.
StartAccepted(base) == dest.rev = base

Consumed(rev) ==
    \E u \in Ids : uploads[u].rev = rev /\ uploads[u].status = "committed"

RefreshAccepted(u) ==
    uploads[u].status # "unused" /\ ~ Consumed(uploads[u].rev)

SignAccepted(u) == uploads[u].status = "open"

\* A signed PUT of one part.
PutPart(u, k, b) ==
    uploads' = IF uploads[u].status = "open"
               THEN [uploads EXCEPT ![u].parts[k] = b] ELSE uploads

\* CompleteMultipartUpload with the ETags the client lists.
CompleteAccepted(u, etags) ==
    uploads[u].status = "open" /\ uploads[u].parts = etags

\* osendupload: with editedrev the revision must be current; without it a
\* creation must still find the name free and an update is not guarded.
EndAccepted(u, editedrev) ==
    /\ uploads[u].status = "assembled"
    /\ ~ Consumed(uploads[u].rev)
    /\ IF editedrev # 0 THEN dest.rev = editedrev
                        ELSE uploads[u].base = 0 => dest.rev = 0

Commit(u) ==
    /\ dest' = [rev |-> uploads[u].rev, data |-> uploads[u].parts]
    /\ uploads' = [uploads EXCEPT ![u].status = "committed"]
=============================================================================
