--------------------------- MODULE FirmwareUpdate ---------------------------
(***************************************************************************)
(* Updating the firmware of the SAM board and of the modem.                *)
(*                                                                         *)
(* A client sends one or both images over TCP, behind the marks _SAM_ and  *)
(* _MDM_, and _E_N_D; each message is answered before it sends the next.   *)
(* The end mark sets a flag in flash and resets.  With the flag set the    *)
(* device boots into the update: it sends the SAM image to the board, a    *)
(* page for each OK, then writes the modem's own image in a loop that      *)
(* serves nothing else, clears the flag and starts the new firmware.       *)
(*                                                                         *)
(* A client is the number of its attempt, its images are their lengths,    *)
(* and a byte of an image is <<the attempt, its place>>.  Clients that     *)
(* send at the same time share __updater__ and both files.                 *)
(***************************************************************************)
EXTENDS Naturals, Sequences

CONSTANTS
    SamPage,    \* bytes of a page for the board (64)
    MdmPage,    \* bytes of a page for the modem (512)
    Chunk,      \* the longest read of the socket
    SamLens, MdmLens,  \* lengths of images; one of length 0 is not sent
    Faults,     \* subset of {"power", "late", "urc", "ok", "fota", "second"}
    MaxFaults,  \* bound
    MaxAttempts \* bound: updates that clients start

ASSUME UpdateAssumption ==
    /\ SamPage \in Nat \ {0} /\ MdmPage \in Nat \ {0} /\ Chunk \in Nat \ {0}
    /\ SamLens \subseteq Nat /\ MdmLens \subseteq Nat
    /\ MaxFaults \in Nat /\ MaxAttempts \in Nat

VARIABLES
    update,    \* __mdm_settings.update, in flash
    present,   \* files that exist
    samFile,   \* __FILE_SAM_UPDATE__
    mdmFile,   \* __FILE_MDM_UPDATE__
    pool,      \* image pool of the modem: what Ql_FOTA_WriteData got
    mode,      \* "boot", "normal", "update" (__UP_DATE__) or "flash" (in the loop)
    updater,   \* __updater__
    listening, \* __socket_upgrade_id is open
    timer,     \* FILE_UPDATE_TRANSMIT is armed
    up,        \* GPRS was reported in this update
    pos, len, page,  \* __pos, __len_sam, __page
    pages,     \* pages sent to the board since the boot
    waiting,   \* of these, not answered by the board
    oks,       \* answers not read
    images,    \* lengths of the images of each attempt
    stream,    \* what its client still has to send
    cut,       \* history: files whose last sender was given up inside the image
    faults, seen  \* number and kinds of the faults that happened

flash  == <<update, present, samFile, mdmFile, pool>>
socket == <<updater, listening, timer>>
board  == <<up, pos, len, page, pages, waiting, oks>>
client == <<images, stream, cut>>
trouble == <<faults, seen>>
vars   == <<flash, mode, socket, board, client, trouble>>

SamMark == <<0, 1>>
MdmMark == <<0, 2>>
EndMark == <<0, 3>>
Marks   == {SamMark, MdmMark, EndMark}

Byte == (0..MaxAttempts) \X Nat

Image(a, n) == [i \in 1..n |-> <<a, i>>]

\* What a client with images of lengths s and m sends in attempt a.
Message(a, s, m) ==
    (IF s > 0 THEN <<SamMark>> \o Image(a, s) ELSE <<>>)
    \o (IF m > 0 THEN <<MdmMark>> \o Image(a, m) ELSE <<>>) \o <<EndMark>>

\* Clients that are connected, and those of them inside an image
Sending == {a \in DOMAIN stream : stream[a] # <<>>}
Inside  == {a \in Sending : Head(stream[a]) \notin Marks}

\* At most n bytes of the file from p on.
Part(file, p, n) ==
    SubSeq(file, p + 1, IF p + n <= Len(file) THEN p + n ELSE Len(file))

FirstPage == 800

Fault(f) == /\ f \in Faults /\ faults < MaxFaults 
            /\ faults' = faults + 1 /\ seen' = seen \cup {f}
-----------------------------------------------------------------------------
Init ==
    /\ update = FALSE /\ present = {} /\ samFile = <<>> /\ mdmFile = <<>> /\ pool = <<>>
    /\ mode = "boot" /\ updater = "none" /\ listening = FALSE /\ timer = FALSE
    /\ up = FALSE /\ pos = 0 /\ len = 0 /\ page = FirstPage
    /\ pages = <<>> /\ waiting = 0 /\ oks = 0
    /\ images = <<>> /\ stream = <<>> /\ cut = {}
    /\ faults = 0 /\ seen = {}

\* The image that the last mark began stays as it is.
GivesUp(who) == cut' = cut \cup (IF who \cap Inside = {} THEN {} ELSE {updater})

\* RAM starts over and the connections are lost.
Boots ==
    /\ mode' = "boot" /\ updater' = "none" /\ listening' = FALSE /\ timer' = FALSE
    /\ up' = FALSE /\ pos' = 0 /\ len' = 0 /\ page' = FirstPage
    /\ pages' = <<>> /\ oks' = 0
    /\ stream' = [a \in DOMAIN stream |-> <<>>] /\ GivesUp(Sending) /\ UNCHANGED images

\* Ql_Reset; no page is on its way, or its answer finds the UART closed.
Reset == Boots /\ waiting' = 0

\* A late answer may come after the next boot.
PowerLoss ==
    /\ mode # "boot"
    /\ \/ Fault("power") /\ Reset
       \/ waiting > 0 /\ Fault("late") /\ Boots /\ UNCHANGED waiting
    /\ UNCHANGED flash

\* MSG_ID_RIL_READY: read_mdm_settings, init_mdm
RilReady ==
    /\ mode = "boot"
    /\ mode' = IF update THEN "update" ELSE "normal"
    /\ UNCHANGED <<flash, socket, board, client, trouble>>
-----------------------------------------------------------------------------
(* Normal operation: the images arrive.                                    *)

\* regiser_socket_th, when GPRS is up
RegisterSocket ==
    /\ mode = "normal" /\ ~listening
    /\ listening' = TRUE
    /\ UNCHANGED <<flash, mode, updater, timer, board, client, trouble>>

\* A client connects and starts an update, maybe while another is under way.
ClientConnects ==
    /\ listening /\ Len(images) < MaxAttempts
    /\ IF Sending = {} THEN UNCHANGED trouble ELSE Fault("second")
    /\ \E s \in SamLens, m \in MdmLens :
         /\ images' = Append(images, [sam |-> s, mdm |-> m])
         /\ stream' = Append(stream, Message(Len(images'), s, m))
    /\ UNCHANGED <<flash, mode, socket, board, cut>>

ClientLeaves ==
    /\ \E a \in Sending : stream' = [stream EXCEPT ![a] = <<>>] /\ GivesUp({a})
    /\ UNCHANGED <<flash, mode, socket, board, images, trouble>>

\* timeout_update: it closes the socket that listens.
UpdateTimeout ==
    /\ timer /\ timer' = FALSE /\ listening' = FALSE
    /\ UNCHANGED <<flash, mode, updater, board, client, trouble>>

\* socket_th_read (UPGRADE)
Reads(mark) ==
    \E a \in Sending : Head(stream[a]) = mark /\ stream' = [stream EXCEPT ![a] = Tail(@)]

\* Mutant: the file of an earlier attempt is kept.
ReadSamKeepsFile ==
    /\ Reads(SamMark)
    /\ present' = present \cup {"sam"} /\ updater' = "sam" /\ cut' = cut \ {"sam"}
    /\ UNCHANGED <<update, samFile, mdmFile, pool, mode, listening, timer, board, images, trouble>>

ReadSam ==
    /\ Reads(SamMark)
    /\ samFile' = <<>> /\ present' = present \cup {"sam"}
    /\ updater' = "sam" /\ cut' = cut \ {"sam"}
    /\ UNCHANGED <<update, mdmFile, pool, mode, listening, timer, board, images, trouble>>

ReadMdm ==
    /\ Reads(MdmMark)
    /\ mdmFile' = <<>> /\ present' = present \cup {"mdm"}
    /\ updater' = "mdm" /\ cut' = cut \ {"mdm"} /\ timer' = TRUE
    /\ UNCHANGED <<update, samFile, pool, mode, listening, board, images, trouble>>

ReadData ==
    /\ \E a \in Inside, n \in 1..Chunk :
         /\ n <= Len(stream[a]) /\ \A i \in 1..n : stream[a][i] \notin Marks
         /\ stream' = [stream EXCEPT ![a] = SubSeq(@, n + 1, Len(@))]
         /\ samFile' = samFile \o (IF updater = "sam" THEN SubSeq(stream[a], 1, n) ELSE <<>>)
         /\ mdmFile' = mdmFile \o (IF updater = "mdm" THEN SubSeq(stream[a], 1, n) ELSE <<>>)
    /\ timer' = TRUE
    /\ UNCHANGED <<update, present, pool, mode, updater, listening, board, images, cut, trouble>>

ReadEnd ==
    /\ \E a \in Sending : Head(stream[a]) = EndMark
    /\ update' = TRUE
    /\ Reset
    /\ UNCHANGED <<present, samFile, mdmFile, pool, trouble>>
-----------------------------------------------------------------------------
(* The update.                                                             *)

\* Mutant: the page counter skips a number.
SendPageSkips(n) ==
    /\ pos < n
    /\ pages' = Append(pages, <<page, Part(samFile, pos, SamPage)>>)
    /\ pos' = pos + SamPage /\ page' = page + 2 /\ waiting' = waiting + 1
    /\ UNCHANGED <<mode, pool>>

\* update_sam with __len_sam = n: the next page, or on to the modem's image.
SendPage(n) ==
    /\ pos < n
    /\ pages' = Append(pages, <<page, Part(samFile, pos, SamPage)>>)
    /\ pos' = pos + SamPage /\ page' = page + 1 /\ waiting' = waiting + 1
    /\ UNCHANGED <<mode, pool>>

\* Mutant: __pos goes on from the board's image.
StartFlashKeepsPos(n) ==
    /\ pos >= n
    /\ mode' = "flash" /\ len' = Len(mdmFile) /\ pool' = <<>>
    /\ UNCHANGED <<pos, page, pages, waiting>>

StartFlash(n) ==
    /\ pos >= n
    /\ mode' = "flash" /\ pos' = 0 /\ len' = Len(mdmFile) /\ pool' = <<>>
    /\ UNCHANGED <<page, pages, waiting>>

UpdateSam(n) == \/ SendPage(n) /\ len' = n
                \/ StartFlash(n)

\* URC_GPRS_NW_STATE_IND: each report counts, those while pages are on their
\* way too.
Reported == IF up THEN Fault("urc") ELSE UNCHANGED trouble

\* Mutant: a report starts the transfer over.
GprsUpStartsOver ==
    /\ mode = "update" /\ Reported /\ "sam" \in present
    /\ up' = TRUE /\ len' = Len(samFile)
    /\ pages' = Append(pages, <<page, Part(samFile, 0, SamPage)>>)
    /\ pos' = SamPage /\ page' = page + 1 /\ waiting' = waiting + 1
    /\ UNCHANGED <<flash, mode, socket, client, oks>>

GprsUp ==
    /\ mode = "update" /\ Reported /\ "sam" \in present
    /\ UpdateSam(Len(samFile))
    /\ up' = TRUE
    /\ UNCHANGED <<update, present, samFile, mdmFile, socket, client, oks>>

GprsUpNoFile ==
    /\ mode = "update" /\ Reported /\ "sam" \notin present
    /\ update' = FALSE
    /\ Reset
    /\ UNCHANGED <<present, samFile, mdmFile, pool>>

BoardAnswers ==
    /\ waiting > 0
    /\ waiting' = waiting - 1 /\ oks' = IF mode = "boot" THEN oks ELSE oks + 1
    /\ UNCHANGED <<flash, mode, socket, up, pos, len, page, pages, client, trouble>>

\* Mutant: any read counts as an OK.
CbUpdateAnyRead ==
    /\ mode = "update" /\ up
    /\ UNCHANGED oks
    /\ UpdateSam(len)
    /\ UNCHANGED <<update, present, samFile, mdmFile, socket, up, client, trouble>>

\* cb_update: whatever a read holds counts as one OK.
CbUpdate ==
    /\ mode = "update" /\ oks > 0
    /\ oks' \in 0..(oks - 1)
    /\ UpdateSam(len)
    /\ UNCHANGED <<update, present, samFile, mdmFile, socket, up, client, trouble>>

\* The progress report of update_sam divides by the length: that of an empty
\* file, or before GprsUp has set it.  This may stop the program, or give any
\* number.
DividesByZero ==
    /\ mode = "update"
    /\ \/ oks > 0 /\ len = 0 /\ UNCHANGED trouble
       \/ "sam" \in present /\ samFile = <<>> /\ Reported
    /\ Reset
    /\ UNCHANGED flash

\* An OK that is lost, or cut by a read.
CbUpdateNoOk ==
    /\ mode = "update" /\ oks > 0 /\ Fault("ok")
    /\ oks' = oks - 1
    /\ UNCHANGED <<flash, mode, socket, up, pos, len, page, pages, waiting, client>>

\* update_mdm, once around the loop
Written == pool \o Part(mdmFile, pos, MdmPage)

FlashPage ==
    /\ mode = "flash" /\ "mdm" \in present /\ pos + MdmPage <= len
    /\ pool' = Written /\ pos' = pos + MdmPage
    /\ UNCHANGED <<update, present, samFile, mdmFile, mode, socket, client, trouble>>
    /\ UNCHANGED <<up, len, page, pages, waiting, oks>>

\* Mutant: the flag is not cleared.
FlashLastKeepsFlag ==
    /\ mode = "flash" /\ "mdm" \in present /\ pos < len /\ len < pos + MdmPage
    /\ pool' = Written
    /\ Reset
    /\ UNCHANGED <<update, present, samFile, mdmFile, trouble>>

\* The last page: the flag is cleared, and Ql_FOTA_Update starts the new
\* firmware, or returns.
FlashLast ==
    /\ mode = "flash" /\ "mdm" \in present /\ pos < len /\ len < pos + MdmPage
    /\ pool' = Written /\ update' = FALSE
    /\ \/ Reset /\ UNCHANGED trouble
       \/ /\ Fault("fota")
          /\ pos' = pos + MdmPage
          /\ UNCHANGED <<mode, socket, up, len, page, pages, waiting, oks, client>>
    /\ UNCHANGED <<present, samFile, mdmFile>>

\* Nothing left: update_mdm returns no value and leaves the file open.  Taken
\* for an error it resets; taken for QL_RET_OK the loop goes around until the
\* file cannot be opened any more, which is an error.
FlashRunsOut ==
    /\ mode = "flash" /\ "mdm" \in present /\ len <= pos
    /\ Reset
    /\ UNCHANGED <<flash, trouble>>

\* Of a file that is missing the length is negative, and not used.
FlashFails ==
    /\ mode = "flash"
    /\ IF "mdm" \in present THEN Fault("fota") ELSE UNCHANGED trouble
    /\ Reset
    /\ UNCHANGED flash
-----------------------------------------------------------------------------
Receiving == ReadSam \/ ReadMdm \/ ReadData \/ ReadEnd

Updating ==
    \/ GprsUp \/ GprsUpNoFile \/ CbUpdate \/ DividesByZero
    \/ FlashPage \/ FlashLast \/ FlashRunsOut \/ FlashFails

Next ==
    \/ PowerLoss \/ RilReady \/ RegisterSocket \/ UpdateTimeout
    \/ ClientConnects \/ ClientLeaves \/ Receiving
    \/ Updating \/ BoardAnswers \/ CbUpdateNoOk

Spec == Init /\ [][Next]_vars

\* The device boots, GPRS comes up, the board answers and is heard.
FairSpec ==
    /\ Spec
    /\ WF_vars(RilReady) /\ WF_vars(Updating) /\ WF_vars(BoardAnswers)
-----------------------------------------------------------------------------
TypeOK ==
    /\ update \in BOOLEAN /\ present \subseteq {"sam", "mdm"}
    /\ samFile \in Seq(Byte) /\ mdmFile \in Seq(Byte) /\ pool \in Seq(Byte)
    /\ mode \in {"boot", "normal", "update", "flash"}
    /\ updater \in {"none", "sam", "mdm"} /\ listening \in BOOLEAN /\ timer \in BOOLEAN
    /\ up \in BOOLEAN /\ pos \in Nat /\ len \in Nat
    /\ page \in FirstPage..(FirstPage + Len(pages))
    /\ pages \in Seq(Nat \X Seq(Byte)) /\ waiting \in Nat /\ oks \in Nat
    /\ images \in Seq([sam : SamLens, mdm : MdmLens]) /\ stream \in Seq(Seq(Byte))
    /\ Len(images) <= MaxAttempts /\ Len(stream) = Len(images) /\ cut \subseteq {"sam", "mdm"}
    /\ faults \in 0..MaxFaults /\ seen \subseteq Faults

File(f) == IF f = "sam" THEN samFile ELSE mdmFile

\* File f is n bytes of the image that attempt a sent, and all of it.
Begins(f, a, n) == n <= images[a][f] /\ File(f) = Image(a, n)
Whole(f, a)     == images[a][f] > 0 /\ Begins(f, a, images[a][f])

\* The flag in flash means that the images of the attempt that set it are there
\* whole, however many were given up before and whenever power fails.  A file
\* that this attempt did not send is what its last sender left of one image, and
\* the whole image unless that sender was given up inside it: the code marks
\* such a part for the board too.  Two clients at once may mix their images.
FlagMeansWhole ==
    update /\ "second" \notin seen =>
        \A f \in {"sam", "mdm"} :
            /\ images[Len(images)][f] > 0 => Whole(f, Len(images)) /\ f \notin cut
            /\ f \in present => \E a \in DOMAIN images :
                  IF f \in cut THEN \E n \in 0..images[a][f] : Begins(f, a, n) ELSE Whole(f, a)

\* The board gets the pages of its image in turn, each once and under its own
\* number, whatever reports of the network come in between.
PagesInTurn ==
    \A i \in 1..Len(pages) :
        pages[i] = <<FirstPage + i - 1, Part(samFile, (i - 1) * SamPage, SamPage)>>

\* The update counts as done only when the board was sent its whole image and
\* the modem has got the whole of its own (or there is none for the board).
\* It holds unless an answer of the board comes late, in the next boot.
DoneMeansFlashed ==
    [][update /\ ~update' /\ "late" \notin seen =>
         \/ "sam" \notin present
         \/ Len(pages) * SamPage >= Len(samFile) /\ pool' = mdmFile]_vars

\* The loop that serves nothing else starts when the board has answered every
\* page, unless a second report of the network has sent one too many.
SamUpdateGood ==
    mode = "flash" /\ {"urc", "late"} \cap seen = {} =>
        waiting = 0 /\ oks = 0 /\ Len(pages) * SamPage >= Len(samFile)

\* The files for which the device may reset again and again with the flag set:
\* an empty one for the board, where update_sam divides by zero, and one for the
\* modem that is missing or fills its last page (as an empty one does).
Endless ==
    /\ "sam" \in present
    /\ samFile = <<>> \/ "mdm" \notin present \/ Len(mdmFile) % MdmPage = 0

\* An update that was started ends, whenever power fails and whatever reports
\* and late answers come, unless its files are endless or an OK is lost: no
\* timer waits for it.
UpdateEnds == update ~> ~update \/ Endless \/ "ok" \in seen

\* Ql_FOTA_Finish marks the image once the whole of it is written; the flag is
\* cleared then.
FinishedWhenWritten ==
    [][mode = "flash" /\ pool = mdmFile /\ mode' = "boot" /\ UNCHANGED trouble => ~update']_vars
=============================================================================
