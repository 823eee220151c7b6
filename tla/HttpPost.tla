------------------------------ MODULE HttpPost ------------------------------
(***************************************************************************)
(* The POST task of a build with CONFIG_HTTP_POST (http_post.c:36-208).    *)
(* It takes a request, uploads the picture file to a web server in chunks  *)
(* of 128 bytes after declaring its length, reads the reply, and notifies  *)
(* the task that asked.  Eight `continue's return to the queue and skip    *)
(* the notification; the ninth (:155) goes on with the file's next chunk,  *)
(* on the socket it has just closed.  lwIP may have given the number of a  *)
(* closed socket to another connection, of the web server for one: what is *)
(* written then goes astray and succeeds, and the task may come to its     *)
(* reply and its notification with an upload that broke off.  What a stray *)
(* chunk or a second close does to that other connection is not modelled.  *)
(***************************************************************************)
EXTENDS SharedObjects

VARIABLES
    postPc,    \* where the task stands
    upload     \* what the server has been promised and has received, how much
               \* of the file was read, whether the server's connection is open

httpPostVars == <<postPc, upload>>

PostPcs == {"idle", "stat", "connect", "header", "open", "data", "reply"}

Upload == [pic : Pics \cup {Garbage}, declared : Nat, read : Nat, sent : Nat, open : BOOLEAN]

NoUpload == [pic |-> Garbage, declared |-> 0, read |-> 0, sent |-> 0, open |-> FALSE]

HttpPostBoot ==
    /\ postPc = "idle"
    /\ upload = NoUpload

HttpPostTypeOK ==
    /\ postPc \in PostPcs
    /\ upload \in Upload

\* Mutant: `continue' starts the same request again.
TryAgain == UNCHANGED postPc

\* Where a failing step leaves the task: `continue', back to the queue.
GiveUp == postPc' = "idle"

NetworkMayFail == "net" \in Faults

TakePostRequest ==
    /\ Post = "http"
    /\ postPc = "idle"
    /\ reqQ # <<>>
    /\ reqQ' = Tail(reqQ)
    /\ postPc' = "stat"
    /\ UNCHANGED <<cmdQ, httpQ, ring, camNotify, mainNotify, file, buf, panicked, upload>>

\* The length that will be declared is the one stat finds now.
StatFile ==
    /\ postPc = "stat"
    /\ file # NoFile
    /\ upload' = [NoUpload EXCEPT !.declared = file.len]
    /\ postPc' = "connect"
    /\ UNCHANGED sharedVars

StatFails ==
    /\ postPc = "stat"
    /\ file = NoFile
    /\ GiveUp
    /\ UNCHANGED <<sharedVars, upload>>

\* getaddrinfo, socket and connect
Connect ==
    /\ postPc = "connect"
    /\ \/ postPc' = "header" /\ upload' = [upload EXCEPT !.open = TRUE]
       \/ NetworkMayFail /\ GiveUp /\ UNCHANGED upload
    /\ UNCHANGED sharedVars

\* The two writes of the HTTP header and of the part's header.
SendHeader ==
    /\ postPc = "header"
    /\ \/ postPc' = "open"
       \/ NetworkMayFail /\ GiveUp
    /\ UNCHANGED <<sharedVars, upload>>

OpenForUpload ==
    /\ postPc = "open"
    /\ file # NoFile
    /\ upload' = [upload EXCEPT !.pic = file.pic]
    /\ postPc' = "data"
    /\ UNCHANGED sharedVars

\* A failed fopen is logged; feof(NULL) on the next line stops the chip.
OpenForUploadFails ==
    /\ postPc = "open"
    /\ "fopen" \in Faults
    /\ panicked' = TRUE
    /\ UNCHANGED <<cmdQ, reqQ, httpQ, ring, camNotify, mainNotify, file, buf, httpPostVars>>

\* What the next chunk adds, if the file is still the one that was opened.  It
\* reaches the server only while the task writes to the server's connection.
WithChunk(u) ==
    IF u.open
    THEN [u EXCEPT !.read = @ + 1,
                   !.sent = @ + 1,
                   !.pic = IF file # NoFile /\ file.pic = u.pic THEN u.pic ELSE Garbage]
    ELSE [u EXCEPT !.read = @ + 1]

AtEndOfFile == file # NoFile => upload.read >= file.len

SendChunk ==
    /\ postPc = "data"
    /\ ~AtEndOfFile
    /\ upload' = WithChunk(upload)
    /\ UNCHANGED <<sharedVars, postPc>>

\* Mutant: the socket of the failed write stays open for the chunks behind it.
SendNextChunk ==
    /\ postPc = "data"
    /\ NetworkMayFail
    /\ ~AtEndOfFile
    /\ upload' = [upload EXCEPT !.read = @ + 1]
    /\ UNCHANGED <<sharedVars, postPc>>

\* A failed write closes the socket; after four seconds the loop goes on with
\* the next chunk, on the same number.
SendChunkFails ==
    /\ postPc = "data"
    /\ NetworkMayFail
    /\ ~AtEndOfFile
    /\ upload' = [upload EXCEPT !.read = @ + 1, !.open = FALSE]
    /\ UNCHANGED <<sharedVars, postPc>>

\* The end mark and the receive timeout.  On a number that is another
\* connection's by now both succeed.
SendEnd ==
    /\ postPc = "data"
    /\ AtEndOfFile
    /\ \/ postPc' = "reply"
       \/ NetworkMayFail /\ GiveUp
    /\ UNCHANGED <<sharedVars, upload>>

\* Reading ends at end of stream, on an error or after 5 seconds of silence,
\* whatever the server said; then main is notified.  The reply is collected in
\* 256 bytes without a bound (:195): its bytes are not modelled.
ReadReply ==
    /\ postPc = "reply"
    /\ mainNotify' = NotifyOverwrite(mainNotify, 0)
    /\ postPc' = "idle"
    /\ UNCHANGED <<cmdQ, reqQ, httpQ, ring, camNotify, file, buf, panicked, upload>>

HttpPostStep ==
    \/ TakePostRequest \/ StatFile \/ StatFails \/ Connect \/ SendHeader
    \/ OpenForUpload \/ OpenForUploadFails \/ SendChunk \/ SendChunkFails
    \/ SendEnd \/ ReadReply
=============================================================================
