------------------------------- MODULE NdefTag -------------------------------
(***************************************************************************)
(* The NFC tag of the board                                                *)
(* (src/app/Entry/05/01_Smart_Home/nfc: NT3H.c, nfc.c, ndef/ndef.c,        *)
(* ndef/rtd/rtdText.c, rtdUri.c, nfcForum.c).                              *)
(*                                                                         *)
(* A record spans pages of 16 bytes, and each page is one I2C transfer,    *)
(* which may fail; the power may go between two of them, and a phone may   *)
(* read the tag at any time.  One step is one transfer with the            *)
(* computation around it.  A byte of a user's text is a number over 255    *)
(* that names the text and the place in it; all other bytes are as in the  *)
(* code.                                                                   *)
(***************************************************************************)
EXTENDS Integers, Sequences

CONSTANT LastPage   \* USER_END_REG - USER_START_REG

\* The number of a page is a uint8_t, and its successor is computed.
ASSUME TagAssumption == LastPage \in 0 .. 254

VARIABLES
    tag,             \* the pages of user memory
    nfcPageBuffer,
    call,              \* the call in progress: its locals and where it is
    stored           \* the last call, if it returned true and none of its transfers failed

tagVars == <<tag, nfcPageBuffer, call, stored>>

PageSize == 16
Index == 0 .. PageSize - 1
NDEF_START_BYTE == 3
NDEF_END_BYTE   == 254
NTAG_ERASED     == 208
RTD_TEXT == 84
RTD_URI  == 85
BIT_MB == 128
BIT_ME == 64
BIT_SR == 16

Zero == [k \in Index |-> 0]
Overlay(page, at, bytes) ==
    [k \in Index |-> IF k - at \in 0 .. Len(bytes) - 1 THEN bytes[k - at + 1] ELSE page[k]]

HasBit(h, bit) == (h \div bit) % 2 = 1
Set(h, bit)    == IF HasBit(h, bit) THEN h ELSE h + bit
Clear(h, bit)  == IF HasBit(h, bit) THEN h - bit ELSE h

\* A record to store: its position, its type, the length of its payload and
\* the identity of the payload.
UINT16_MAX == 65535
Records == [pos : {"first", "middle", "last"}, type : {RTD_TEXT, RTD_URI}, len : 0 .. UINT16_MAX, id : Nat]
Char(r, k) == 256 + 1024 * r.id + k
NoRecord == [pos |-> "none", type |-> RTD_TEXT, len |-> 0, id |-> 0]

\* What NT3HEraseAllTag writes into the first page; the tag's initial state.
NT3HEraseAllTag == Overlay(Zero, 0, <<NDEF_START_BYTE, 3, NTAG_ERASED, 0, 0, NDEF_END_BYTE>>)

----------------------------------------------------------------------------
(* What a phone reads: the first record of an NFC Forum tag of type 2      *)
(* (external).                                                             *)

At(k) == tag[k \div PageSize][k % PageSize]
Broken == [type |-> 0, body |-> <<>>]

Long  == At(1) = 255
Limit == IF Long THEN 256 * At(2) + At(3) ELSE At(1)
Closed == At((IF Long THEN 4 ELSE 2) + Limit) = NDEF_END_BYTE

BigEndian(k) == 16777216 * At(k) + 65536 * At(k + 1) + 256 * At(k + 2) + At(k + 3)

FirstRecord ==
    LET base  == IF Long THEN 4 ELSE 2
        short == HasBit(At(base), BIT_SR)
        len   == IF short THEN At(base + 2) ELSE BigEndian(base + 2)
        pre   == IF short THEN 4 ELSE 7
        wellFormed ==
            /\ At(0) = NDEF_START_BYTE
            /\ \A k \in 0 .. 6 : At(base + k) < 256 \/ (short /\ k > 3)
            /\ HasBit(At(base), BIT_MB) /\ At(base + 1) = 1
            /\ HasBit(At(base), BIT_ME) => pre + len = Limit
            /\ pre + len <= Limit
            /\ base + pre + len <= PageSize * (LastPage + 1)
    IN  IF wellFormed
        THEN [type |-> At(base + pre - 1), body |-> [k \in 1 .. len |-> At(base + pre + k - 1)]]
        ELSE Broken

Content(r) ==
    [type |-> r.type,
     body |-> (IF r.type = RTD_TEXT THEN <<2, 101, 110>> ELSE <<1>>) \o [k \in 1 .. r.len |-> Char(r, k - 1)]]

----------------------------------------------------------------------------
(* Composing a record: the bytes before its payload.  h is the header.     *)

composeNDEFMBME(first, last, h) ==
    LET mb == IF first THEN Set(h, BIT_MB) ELSE Clear(h, BIT_MB)
    IN  IF last THEN Set(mb, BIT_ME) ELSE Clear(mb, BIT_ME)

composeRtdText(len, h) ==
    IF len + 3 > 255
    THEN <<193, 1, 0, 0, (len + 3) \div 256, (len + 3) % 256, RTD_TEXT, 2, 101, 110>>
    ELSE <<Set(h + 1, BIT_SR), 1, len + 3, RTD_TEXT, 2, 101, 110>>

composeRtdUri(len, h) == <<Set(h + 1, BIT_SR), 1, (len + 1) % 256, RTD_URI, 1>>

Compose(r, h) == IF r.type = RTD_TEXT THEN composeRtdText(r.len, h) ELSE composeRtdUri(r.len, h)

\* record.header after composing: only the short forms update it
HeaderAfter(r, h) == IF r.type = RTD_TEXT /\ r.len + 3 > 255 THEN h ELSE Set(h + 1, BIT_SR)

----------------------------------------------------------------------------
\* was is history: the first record before the call.
Idle == [pc |-> "idle", req |-> NoRecord, page |-> 0, used |-> 0, added |-> 0,
         end |-> 0, mbMe |-> 0, clean |-> TRUE, was |-> Broken]
Nothing == [req |-> NoRecord, was |-> Broken, end |-> 0]

TagInit ==
    /\ tag = [p \in 0 .. LastPage |-> IF p = 0 THEN NT3HEraseAllTag ELSE Zero]
    /\ nfcPageBuffer = Zero
    /\ call = Idle
    /\ stored = Nothing

(* writeUserPayload up to its first transfer: fill the page from ptr and   *)
(* close the record if it ends before the page does.                       *)
Fill(r, page, ptr) ==
    [k \in Index |-> IF k < ptr THEN page[k]
                     ELSE IF k - ptr < r.len THEN Char(r, k - ptr)
                     ELSE IF k - ptr = r.len THEN NDEF_END_BYTE
                     ELSE page[k]]

\* Its later pages: the rest of the payload, the end byte if there is room.
Chunk(r, added) ==
    [k \in Index |-> IF added + k < r.len THEN Char(r, added + k)
                     ELSE IF added + k = r.len THEN NDEF_END_BYTE
                     ELSE 0]

StartPayload(o, page, ptr) ==
    /\ nfcPageBuffer' = Fill(o.req, page, ptr)
    /\ call' = [o EXCEPT !.pc = "firstPage", !.added = PageSize - ptr]

firstRecord(r) ==
    LET bytes == Compose(r, composeNDEFMBME(TRUE, TRUE, 0))
        total == r.len + Len(bytes)
        start == [Zero EXCEPT ![0] = NDEF_START_BYTE]
        page  == Overlay(start, IF r.len > 248 THEN 4 ELSE 2, bytes)
    IN  IF total > 255
        THEN [page |-> [page EXCEPT ![1] = 255, ![2] = total \div 256, ![3] = total % 256],
              ptr |-> 4 + Len(bytes)]
        ELSE [page |-> [page EXCEPT ![1] = total], ptr |-> 2 + Len(bytes)]

\* storeText, storeUrihttp: prepare the record and call NT3HwriteRecord.
Store(r) ==
    /\ call.pc = "idle"
    /\ stored' = Nothing
    /\ IF r.pos = "first"
       THEN StartPayload([Idle EXCEPT !.req = r], firstRecord(r).page, firstRecord(r).ptr)
       ELSE /\ call' = [Idle EXCEPT !.req = r, !.pc = "readEnd", !.was = FirstRecord]
            /\ UNCHANGED nfcPageBuffer
    /\ UNCHANGED tag

----------------------------------------------------------------------------
(* Transfers.  ok says whether the transfer succeeds; a page beyond the    *)
(* tag is refused without one.                                             *)

NT3HReadUserData(page, ok) ==
    nfcPageBuffer' = IF ok /\ page <= LastPage THEN tag[page] ELSE nfcPageBuffer

NT3HWriteUserData(page, bytes, ok) ==
    tag' = IF ok /\ page <= LastPage THEN [tag EXCEPT ![page] = bytes] ELSE tag

Note(o, ok) == [o EXCEPT !.clean = @ /\ ok]
Written(ok) == ok /\ call.page <= LastPage

Return(o, result) ==
    /\ call' = Idle
    /\ stored' = IF result /\ o.clean THEN [req |-> o.req, was |-> o.was, end |-> o.end] ELSE Nothing

\* The page of writeUserPayload that begins with the record's header.  Its
\* result is lost when another page follows.
WriteFirstPage(ok) ==
    /\ call.pc = "firstPage"
    /\ NT3HWriteUserData(call.page, nfcPageBuffer, ok)
    /\ IF call.req.len < call.added
       THEN Return(Note(call, ok), Written(ok))
       ELSE call' = [Note(call, ok) EXCEPT !.pc = "nextPage", !.page = @ + 1] /\ UNCHANGED stored
    /\ UNCHANGED nfcPageBuffer

\* Mutants of the action that follows.
WriteNextPageWithoutEnd(ok) ==
    /\ call.pc = "nextPage"
    /\ nfcPageBuffer' = Chunk(call.req, call.added)
    /\ NT3HWriteUserData(call.page, nfcPageBuffer', ok)
    /\ IF call.req.len <= call.added + PageSize \/ ~Written(ok)
       THEN Return(Note(call, ok), Written(ok))
       ELSE /\ call' = [call EXCEPT !.page = @ + 1, !.added = @ + PageSize]
            /\ UNCHANGED stored

WriteNextPage(ok) ==
    /\ call.pc = "nextPage"
    /\ nfcPageBuffer' = Chunk(call.req, call.added)
    /\ NT3HWriteUserData(call.page, nfcPageBuffer', ok)
    /\ IF call.req.len < call.added + PageSize \/ ~Written(ok)
       THEN Return(Note(call, ok), Written(ok))
       ELSE /\ call' = [call EXCEPT !.page = @ + 1, !.added = @ + PageSize]
            /\ UNCHANGED stored

----------------------------------------------------------------------------
(* Adding a record after the first: NT3HwriteRecord reads where the        *)
(* records end, addRecord changes the first record's header and the        *)
(* length, and starts the new record on the page where the old ones end.   *)

\* NT3HReadHeaderNfc: *endRecordsPtr and *ndefHeader, which stays unset
\* when the page cannot be read or has no record.
HeaderRead(o, page, ok) ==
    IF ok /\ page[0] = NDEF_START_BYTE /\ page[2] # NTAG_ERASED
    THEN {[o EXCEPT !.end = page[1], !.mbMe = page[2]]}
    ELSE {[o EXCEPT !.end = 0, !.mbMe = g] : g \in {0, 255}}

\* Where the records end, sizeof(NDEFHeaderStr) being 4.  When
\* (end + 5) % PageSize = 0, usedBytes is 65535 (uint16_t).
EndPage(end)   == (end + 5) \div PageSize
UsedBytes(end) == (((end + 5) % PageSize) - 1) % 65536

ReadEnd(ok) ==
    /\ call.pc = "readEnd"
    /\ NT3HReadUserData(0, ok)
    /\ \E o \in HeaderRead(Note(call, ok), tag[0], ok) :
           call' = [o EXCEPT !.pc = "readHeader", !.page = EndPage(o.end), !.used = UsedBytes(o.end)]
    /\ UNCHANGED <<tag, stored>>

ReadHeader(ok) ==
    /\ call.pc = "readHeader"
    /\ NT3HReadUserData(0, ok)
    /\ \E o \in HeaderRead(Note(call, ok), tag[0], ok) :
           call' = [o EXCEPT !.pc = "rewriteRead", !.mbMe = composeNDEFMBME(TRUE, FALSE, @)]
    /\ UNCHANGED <<tag, stored>>

NewHeader(r) == composeNDEFMBME(FALSE, r.pos = "last", HeaderAfter(r, 0))
NewBytes(r)  == <<NewHeader(r)>> \o Tail(Compose(r, 0))

\* NT3HWriteHeaderNfc: its read, then its write.  endRecordsPtr is a uint8_t.
RewriteRead(ok) ==
    /\ call.pc = "rewriteRead"
    /\ NT3HReadUserData(0, ok)
    /\ call' = [Note(call, ok) EXCEPT !.pc = IF ok THEN "rewriteWrite" ELSE "readLast"]
    /\ UNCHANGED <<tag, stored>>

\* Mutants of the action that follows.
RewriteWriteKeepsNothing(ok) ==
    /\ call.pc = "rewriteWrite"
    /\ nfcPageBuffer' = [Zero EXCEPT ![0] = NDEF_START_BYTE,
                             ![1] = (call.end + call.req.len + Len(NewBytes(call.req))) % 256,
                             ![2] = call.mbMe]
    /\ NT3HWriteUserData(0, nfcPageBuffer', ok)
    /\ call' = [Note(call, ok) EXCEPT !.pc = "readLast"]
    /\ UNCHANGED stored

RewriteWrite(ok) ==
    /\ call.pc = "rewriteWrite"
    /\ nfcPageBuffer' = [nfcPageBuffer EXCEPT
                             ![1] = (call.end + call.req.len + Len(NewBytes(call.req))) % 256,
                             ![2] = call.mbMe]
    /\ NT3HWriteUserData(0, nfcPageBuffer', ok)
    /\ call' = [Note(call, ok) EXCEPT !.pc = "readLast"]
    /\ UNCHANGED stored

\* The last used page is read and the record's bytes are put behind what it
\* holds, or as many of them as fit; with 65535 used bytes that is no
\* address of the buffer.
ReadLast(ok) ==
    /\ call.pc = "readLast"
    /\ LET bytes == NewBytes(call.req)
           page  == IF ok /\ call.page <= LastPage THEN tag[call.page] ELSE nfcPageBuffer
           o     == Note(call, ok /\ call.page <= LastPage)
       IN  IF call.used >= PageSize
           THEN call' = [o EXCEPT !.pc = "fault"] /\ UNCHANGED nfcPageBuffer
           ELSE IF call.used + Len(bytes) < PageSize
           THEN StartPayload(o, Overlay(page, call.used, bytes), call.used + Len(bytes))
           ELSE /\ nfcPageBuffer' = Overlay(page, call.used, SubSeq(bytes, 1, PageSize - call.used))
                /\ call' = [o EXCEPT !.pc = "splitWrite"]
    /\ UNCHANGED <<tag, stored>>

SplitWrite(ok) ==
    /\ call.pc = "splitWrite"
    /\ NT3HWriteUserData(call.page, nfcPageBuffer, ok)
    /\ LET bytes == NewBytes(call.req)
           rest  == SubSeq(bytes, PageSize - call.used + 1, Len(bytes))
       IN  StartPayload([Note(call, ok) EXCEPT !.page = @ + 1],
                        Overlay(nfcPageBuffer, 0, rest), Len(rest))
    /\ UNCHANGED stored

TagStep ==
    \E ok \in BOOLEAN :
        \/ WriteFirstPage(ok) \/ WriteNextPage(ok)
        \/ ReadEnd(ok) \/ ReadHeader(ok) \/ RewriteRead(ok) \/ RewriteWrite(ok)
        \/ ReadLast(ok) \/ SplitWrite(ok)

\* The power goes: the memory of the tag stays (external).
TagPowerLoss ==
    /\ call' = Idle
    /\ nfcPageBuffer' = Zero
    /\ stored' = Nothing
    /\ UNCHANGED tag

----------------------------------------------------------------------------
TagTypeOK ==
    /\ \A p \in 0 .. LastPage : tag[p] \in [Index -> Nat]
    /\ nfcPageBuffer \in [Index -> Nat]
    /\ call.page \in 0 .. 255 /\ call.end \in 0 .. 255

\* The lengths for which the layout is right.  A text of 248 bytes gets the
\* length byte 255, which announces a long form; a URI of 249 or 250 bytes is
\* composed at byte 4 and filled from byte 7, and one of more than 254 has
\* a length that does not fit its byte.
LaidOut(r) == IF r.type = RTD_TEXT THEN r.len # 248 ELSE r.len \in (0 .. 248) \cup (251 .. 254)

(* A store of a first record that returned true, none of whose transfers   *)
(* failed, is what a phone reads afterwards, and closed, whatever was on   *)
(* the tag before: a longer record, a torn one, a long form where the new  *)
(* one is short.  (nfc.c, ndef.c: the three places that compute lengths    *)
(* agree, every page is written and the end byte is not forgotten.)        *)
ReadsBack ==
    call.pc = "idle" /\ stored.req.pos = "first" /\ LaidOut(stored.req)
        => FirstRecord = Content(stored.req) /\ Closed

(* Adding a record leaves the first one readable, if the first is of the   *)
(* short form and the length of both fits its byte, although the header    *)
(* and the length on the first page are read and written back by another   *)
(* function in between (ndef.c:62, NT3H.c:93).                             *)
FirstRecordSurvives ==
    call.pc = "idle" /\ stored.req.pos \in {"middle", "last"} /\ stored.was # Broken
        /\ stored.end + stored.req.len + Len(Compose(stored.req, 0)) < 255
        => FirstRecord = stored.was
=============================================================================
