----------------------------- MODULE HttpServer -----------------------------
(***************************************************************************)
(* The web server (http_server.c).  http_task learns from each             *)
(* announcement of main's which file the root page shows; the server's own *)
(* task answers one request at a time.  root_get_handler takes the file's  *)
(* size with stat, allocates, opens the file by name and reads that many   *)
(* bytes one by one, none of it synchronised with main.                    *)
(***************************************************************************)
EXTENDS SharedObjects

CONSTANT Visits    \* somebody looks at the root page in this instance

ASSUME VisitsAssumption == Visits \in BOOLEAN

VARIABLES
    localFileName,    \* the pointer is set: there is a picture to show
    pagePc,           \* where root_get_handler stands
    page              \* image_buffer: its size, what was read into it so far,
                      \* and how many characters it was encoded as

httpServerVars == <<localFileName, pagePc, page>>

PagePcs == {"idle", "stat", "open", "read", "reply"}

NoPage == [pic |-> Garbage, size |-> 0, got |-> 0, text |-> 0]

HttpServerBoot ==
    /\ localFileName = FALSE
    /\ pagePc = "idle"
    /\ page = NoPage

HttpServerTypeOK ==
    /\ localFileName \in BOOLEAN
    /\ pagePc \in PagePcs
    /\ page \in [pic : Pics \cup {Garbage}, size : Nat, got : Nat, text : Nat]

-----------------------------------------------------------------------------
(* http_task *)

ReceiveName ==
    /\ httpQ # <<>>
    /\ httpQ' = Tail(httpQ)
    /\ localFileName' = TRUE
    /\ UNCHANGED <<cmdQ, reqQ, ring, camNotify, mainNotify, file, buf, panicked,
                   pagePc, page>>

-----------------------------------------------------------------------------
(* root_get_handler; a page without an image leaves no trace.              *)

\* Before the first picture the page is empty.
VisitRoot ==
    /\ Visits
    /\ pagePc = "idle"
    /\ localFileName
    /\ pagePc' = "stat"
    /\ UNCHANGED <<sharedVars, localFileName, page>>

StatPicture ==
    /\ pagePc = "stat"
    /\ file # NoFile
    /\ page' = [NoPage EXCEPT !.size = file.len]
    /\ pagePc' = "open"
    /\ UNCHANGED <<sharedVars, localFileName>>

\* stat finds no file: the page is empty.
NoPicture ==
    /\ pagePc = "stat"
    /\ file = NoFile
    /\ pagePc' = "idle"
    /\ UNCHANGED <<sharedVars, localFileName, page>>

OpenPicture ==
    /\ pagePc = "open"
    /\ file # NoFile
    /\ page' = [page EXCEPT !.pic = file.pic]
    /\ pagePc' = "read"
    /\ UNCHANGED <<sharedVars, localFileName>>

\* malloc or fopen fails: a page without an image.
OpenPictureFails ==
    /\ pagePc = "open"
    /\ file = NoFile \/ "fopen" \in Faults
    /\ page' = NoPage
    /\ pagePc' = "idle"
    /\ UNCHANGED <<sharedVars, localFileName>>

\* fread is not checked: past the end of the file, or of a file deleted since,
\* image_buffer keeps what malloc left in it.
Read(p) ==
    [p EXCEPT !.got = @ + 1,
              !.pic = IF file # NoFile /\ file.pic = p.pic /\ p.got < file.len
                      THEN p.pic ELSE Garbage]

\* Mutant: one turn too many.
AllReadAndMore == page.got = page.size + 1

AllRead == page.got = page.size

ReadPicture ==
    /\ pagePc = "read"
    /\ ~AllRead
    /\ page' = Read(page)
    /\ UNCHANGED <<sharedVars, localFileName, pagePc>>

\* mbedtls_base64_encode: four characters for every three bytes begun.  It
\* refuses a buffer that has no room for them and a terminating 0.
Base64Length(n) == 4 * ((n + 2) \div 3)
Encoded(n, room) == IF Base64Length(n) + 1 <= room THEN Base64Length(n) ELSE 0

\* Mutant: the groups of four are rounded down.
SizeRoundedDown(origDataSize) == ((((origDataSize * 8) + 5) \div 6) \div 4) * 4

\* Blocks of 6 bits, then groups of 4 of them, each rounded up.
calcBase64EncodedSize(origDataSize) == (((((origDataSize * 8) + 5) \div 6) + 3) \div 4) * 4

ChunkBytes == 128    \* lengths are counted in chunks of dataBuffer (http_post.c)

EncodePicture ==
    /\ pagePc = "read"
    /\ AllRead
    /\ LET bytes == page.size * ChunkBytes
       IN  page' = [page EXCEPT !.text = Encoded(bytes, calcBase64EncodedSize(bytes) + 1)]
    /\ pagePc' = "reply"
    /\ UNCHANGED <<sharedVars, localFileName>>

\* base64Size characters of img_src_buffer are sent, unless encoding failed.
SendPage ==
    /\ pagePc = "reply"
    /\ page' = NoPage
    /\ pagePc' = "idle"
    /\ UNCHANGED <<sharedVars, localFileName>>

RootGetHandler ==
    \/ StatPicture \/ NoPicture \/ OpenPicture \/ OpenPictureFails
    \/ ReadPicture \/ EncodePicture \/ SendPage
=============================================================================
