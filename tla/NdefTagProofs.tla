---------------------------- MODULE NdefTagProofs ----------------------------
(***************************************************************************)
(* Lemmas about NdefTag: how a first record is laid out on the tag, that   *)
(* the transfers of a store put it there page by page, whatever was there, *)
(* and that a phone then reads the record that was stored.                 *)
(***************************************************************************)
EXTENDS NdefTag, SequenceTheorems, TLAPS

LEMMA RecordFields ==
    ASSUME NEW r \in Records
    PROVE  r.len \in Nat /\ r.id \in Nat /\ r.type \in {RTD_TEXT, RTD_URI}
  <1>1. r.len \in 0 .. UINT16_MAX /\ r.id \in Nat /\ r.type \in {RTD_TEXT, RTD_URI}  BY DEF Records
  <1>2. 0 .. UINT16_MAX \subseteq Nat  BY DEF UINT16_MAX
  <1> QED  BY <1>1, <1>2

HeaderPage(r) == firstRecord(r).page
Ptr(r) == firstRecord(r).ptr

----------------------------------------------------------------------------
(* The bytes before the payload *)

LEMMA Headers ==
    /\ composeNDEFMBME(TRUE, TRUE, 0) = 192 /\ Set(193, BIT_SR) = 209
    /\ HasBit(209, BIT_SR) /\ ~HasBit(193, BIT_SR)
    /\ HasBit(209, BIT_MB) /\ HasBit(193, BIT_MB) /\ HasBit(209, BIT_ME) /\ HasBit(193, BIT_ME)
  <1>1. /\ ~HasBit(0, 128) /\ ~HasBit(128, 64) /\ ~HasBit(193, 16) /\ HasBit(209, 16)
        /\ HasBit(209, 128) /\ HasBit(193, 128) /\ HasBit(209, 64) /\ HasBit(193, 64)
    BY DEF HasBit
  <1> QED  BY <1>1 DEF composeNDEFMBME, Set, BIT_SR, BIT_MB, BIT_ME

\* The three forms of a first record's header.
ShortText(len) == <<209, 1, len + 3, RTD_TEXT, 2, 101, 110>>
LongText(len) == <<193, 1, 0, 0, (len + 3) \div 256, (len + 3) % 256, RTD_TEXT, 2, 101, 110>>
Uri(len) == <<209, 1, len + 1, RTD_URI, 1>>

LEMMA Forms ==
    ASSUME NEW r \in Records, LaidOut(r)
    PROVE  Compose(r, 192) = IF r.type = RTD_URI THEN Uri(r.len)
                             ELSE IF r.len < 253 THEN ShortText(r.len) ELSE LongText(r.len)
  <1>0. r.type \in {RTD_TEXT, RTD_URI} /\ r.len \in Nat /\ RTD_TEXT # RTD_URI
    BY RecordFields DEF RTD_TEXT, RTD_URI
  <1>1. CASE r.type = RTD_URI
    <2>1. r.len + 1 < 256 /\ r.len \in Nat  BY <1>0, <1>1 DEF LaidOut
    <2>2. (r.len + 1) % 256 = r.len + 1  BY <2>1
    <2> QED  BY <1>0, <1>1, <2>2, Headers DEF Compose, composeRtdUri, Uri
  <1>2. CASE r.type = RTD_TEXT
    <2>1. r.len + 3 > 255 <=> ~(r.len < 253)  BY <1>0
    <2> QED  BY <1>0, <1>2, <2>1, Headers DEF Compose, composeRtdText, ShortText, LongText
  <1> QED  BY <1>0, <1>1, <1>2

----------------------------------------------------------------------------
(* The first page *)

Base(r) == IF r.len > 248 THEN 4 ELSE 2
Bytes(r) == Compose(r, 192)

\* The page as composed, byte by byte; the lengths that are not laid out well are
\* those for which the two tests of the length disagree.
LEMMA Lengths ==
    ASSUME NEW r \in Records, LaidOut(r)
    PROVE  /\ r.len \in Nat /\ Bytes(r) \in Seq(Nat) /\ Len(Bytes(r)) \in {5, 7, 10}
           /\ Len(Bytes(r)) = IF r.type = RTD_URI THEN 5 ELSE IF r.len < 253 THEN 7 ELSE 10
           /\ r.len + Len(Bytes(r)) > 255 <=> r.len > 248
           /\ r.len + Len(Bytes(r)) # 255
  <1>0. r.type \in {RTD_TEXT, RTD_URI} /\ r.len \in Nat /\ RTD_TEXT # RTD_URI /\ RTD_TEXT \in Nat /\ RTD_URI \in Nat
    BY RecordFields DEF RTD_TEXT, RTD_URI
  <1>1. CASE r.type = RTD_URI
    <2>1. Bytes(r) = Uri(r.len)  BY <1>0, <1>1, Forms DEF Bytes
    <2>2. Uri(r.len) \in Seq(Nat) /\ Len(Uri(r.len)) = 5  BY <1>0 DEF Uri
    <2>3. r.len \in (0 .. 248) \cup (251 .. 254)  BY <1>0, <1>1 DEF LaidOut
    <2>4. (r.len + 5 > 255 <=> r.len > 248) /\ r.len + 5 # 255  BY <1>0, <2>3
    <2> QED  BY <1>0, <1>1, <2>1, <2>2, <2>4
  <1>2. CASE r.type = RTD_TEXT /\ r.len < 253
    <2>1. Bytes(r) = ShortText(r.len)  BY <1>0, <1>2, Forms DEF Bytes
    <2>2. ShortText(r.len) \in Seq(Nat) /\ Len(ShortText(r.len)) = 7  BY <1>0 DEF ShortText
    <2>3. r.len # 248  BY <1>0, <1>2 DEF LaidOut
    <2> QED  BY <1>0, <1>2, <2>1, <2>2, <2>3
  <1>3. CASE r.type = RTD_TEXT /\ ~(r.len < 253)
    <2>1. Bytes(r) = LongText(r.len)  BY <1>0, <1>3, Forms DEF Bytes
    <2>2. LongText(r.len) \in Seq(Nat) /\ Len(LongText(r.len)) = 10
      <3>1. (r.len + 3) \div 256 \in Nat /\ (r.len + 3) % 256 \in Nat  BY <1>0
      <3> QED  BY <1>0, <3>1 DEF LongText
    <2> QED  BY <1>0, <1>3, <2>1, <2>2
  <1> QED  BY <1>0, <1>1, <1>2, <1>3

LEMMA Offsets ==
    ASSUME NEW base \in {2, 4}, NEW n \in {5, 7, 10}, NEW k \in 1 .. n
    PROVE  /\ base + k - 1 \in Index /\ (base + k - 1) - base \in 0 .. n - 1
           /\ (base + k - 1) - base + 1 = k
  BY DEF Index, PageSize

LEMMA ThreeBytes ==
    ASSUME NEW page, DOMAIN page = Index, NEW a, NEW b, NEW c
    PROVE  LET new == [page EXCEPT ![1] = a, ![2] = b, ![3] = c]
           IN  /\ DOMAIN new = Index /\ new[1] = a /\ new[2] = b /\ new[3] = c
               /\ \A k \in Index \ {1, 2, 3} : new[k] = page[k]
  <1>1. {1, 2, 3} \subseteq Index  BY DEF Index, PageSize
  <1> QED  BY <1>1

LEMMA FirstPage ==
    ASSUME NEW r \in Records, LaidOut(r)
    PROVE  /\ Ptr(r) = Base(r) + Len(Bytes(r)) /\ Ptr(r) \in 7 .. 14 /\ Base(r) \in {2, 4}
           /\ DOMAIN HeaderPage(r) = Index /\ HeaderPage(r)[0] = NDEF_START_BYTE
           /\ \A k \in 1 .. Len(Bytes(r)) : HeaderPage(r)[Base(r) + k - 1] = Bytes(r)[k]
           /\ Base(r) = 2 => HeaderPage(r)[1] = r.len + Len(Bytes(r))
           /\ Base(r) = 4 => /\ HeaderPage(r)[1] = 255
                             /\ HeaderPage(r)[2] = (r.len + Len(Bytes(r))) \div 256
                             /\ HeaderPage(r)[3] = (r.len + Len(Bytes(r))) % 256
  <1> DEFINE bytes == Bytes(r)
             total == r.len + Len(bytes)
             start == [Zero EXCEPT ![0] = NDEF_START_BYTE]
             page == Overlay(start, Base(r), bytes)
  <1>1. /\ r.len \in Nat /\ bytes \in Seq(Nat) /\ Len(bytes) \in {5, 7, 10}
        /\ total > 255 <=> r.len > 248
        /\ Len(bytes) = IF r.type = RTD_URI THEN 5 ELSE IF r.len < 253 THEN 7 ELSE 10
    BY Lengths
  <1>2. firstRecord(r) = IF total > 255
                         THEN [page |-> [page EXCEPT ![1] = 255, ![2] = total \div 256, ![3] = total % 256],
                               ptr |-> 4 + Len(bytes)]
                         ELSE [page |-> [page EXCEPT ![1] = total], ptr |-> 2 + Len(bytes)]
    <2> DEFINE h == composeNDEFMBME(TRUE, TRUE, 0)
               composed == Compose(r, h)
               sum == r.len + Len(composed)
               all == Overlay(start, IF r.len > 248 THEN 4 ELSE 2, composed)
    <2>1. firstRecord(r) = IF sum > 255
                           THEN [page |-> [all EXCEPT ![1] = 255, ![2] = sum \div 256, ![3] = sum % 256],
                                 ptr |-> 4 + Len(composed)]
                           ELSE [page |-> [all EXCEPT ![1] = sum], ptr |-> 2 + Len(composed)]
      BY DEF firstRecord
    <2>2. h = 192  BY Headers
    <2> HIDE DEF h
    <2>3. composed = bytes  BY <2>2 DEF Bytes
    <2> HIDE DEF composed, bytes
    <2>4. all = page /\ sum = total  BY <2>3 DEF Base
    <2> HIDE DEF all, page, sum, total
    <2> QED  BY <2>1, <2>3, <2>4
  <1> HIDE DEF bytes
  <1>3. Base(r) \in {2, 4} /\ (Base(r) = 4 <=> total > 255)  BY <1>1 DEF Base
  <1>4. DOMAIN page = Index /\ page[0] = NDEF_START_BYTE
    <2>1. DOMAIN start = Index /\ start[0] = NDEF_START_BYTE  BY DEF Zero, Index, PageSize
    <2>2. \A k \in Index : k < Base(r) => page[k] = start[k]  BY <1>1, <1>3 DEF Overlay, Index, PageSize
    <2> QED  BY <1>3, <2>1, <2>2 DEF Overlay, Index, PageSize
  <1>5. \A k \in 1 .. Len(bytes) : page[Base(r) + k - 1] = bytes[k]
    <2>1. ASSUME NEW k \in 1 .. Len(bytes) PROVE page[Base(r) + k - 1] = bytes[k]
      <3>1. /\ Base(r) + k - 1 \in Index /\ (Base(r) + k - 1) - Base(r) \in 0 .. Len(bytes) - 1
            /\ (Base(r) + k - 1) - Base(r) + 1 = k
        <4>1. Base(r) \in {2, 4} /\ Len(bytes) \in {5, 7, 10} /\ k \in 1 .. Len(bytes)  BY <1>1, <1>3, <2>1
        <4> HIDE DEF bytes
        <4> QED  BY <4>1, Offsets, Zenon
      <3> QED  BY <3>1 DEF Overlay
    <2> QED  BY <2>1
  <1> HIDE DEF page
  <1>6. CASE Base(r) = 4
    <2>1. /\ HeaderPage(r) = [page EXCEPT ![1] = 255, ![2] = total \div 256, ![3] = total % 256]
          /\ Ptr(r) = 4 + Len(bytes)
      BY <1>2, <1>3, <1>6 DEF HeaderPage, Ptr
    <2> HIDE DEF total
    <2>2. \A k \in 1 .. Len(bytes) : Base(r) + k - 1 \in Index \ {1, 2, 3}  BY <1>1, <1>6 DEF Index, PageSize
    <2>3. {0, 1, 2, 3} \subseteq Index  BY DEF Index, PageSize
    <2>4. DOMAIN HeaderPage(r) = Index /\ HeaderPage(r)[0] = NDEF_START_BYTE  BY <1>4, <2>1, <2>3, ThreeBytes
    <2>5. \A k \in 1 .. Len(bytes) : HeaderPage(r)[Base(r) + k - 1] = bytes[k]
      BY <1>4, <1>5, <2>1, <2>2, ThreeBytes
    <2> DEFINE a == 255
               b == total \div 256
               c == total % 256
    <2>6. HeaderPage(r)[1] = a /\ HeaderPage(r)[2] = b /\ HeaderPage(r)[3] = c
      <3>1. HeaderPage(r) = [page EXCEPT ![1] = a, ![2] = b, ![3] = c]  BY <2>1
      <3> HIDE DEF a, b, c
      <3> QED  BY <1>4, <2>3, <3>1
    <2>7. Ptr(r) \in 7 .. 14 /\ Ptr(r) = Base(r) + Len(bytes)  BY <1>1, <1>6, <2>1
    <2> QED  BY <1>6, <2>4, <2>5, <2>6, <2>7 DEF bytes, total
  <1>7. CASE Base(r) = 2
    <2>1. HeaderPage(r) = [page EXCEPT ![1] = total] /\ Ptr(r) = 2 + Len(bytes)
      BY <1>2, <1>3, <1>7 DEF HeaderPage, Ptr
    <2>2. \A k \in 1 .. Len(bytes) : Base(r) + k - 1 \in Index \ {1}  BY <1>1, <1>7 DEF Index, PageSize
    <2>3. {0, 1} \subseteq Index  BY DEF Index, PageSize
    <2> QED  BY <1>1, <1>4, <1>5, <1>7, <2>1, <2>2, <2>3 DEF bytes
  <1> QED  BY <1>3, <1>6, <1>7

----------------------------------------------------------------------------
(* What a store puts on the tag *)

\* The bytes from the start of the tag to the end byte, and the pages that have them.
Img(r, k) == IF k < Ptr(r) THEN HeaderPage(r)[k]
             ELSE IF k - Ptr(r) < r.len THEN Char(r, k - Ptr(r))
             ELSE NDEF_END_BYTE
Laid(r, pages) ==
    /\ pages \in 0 .. LastPage + 1
    /\ \A k \in 0 .. Ptr(r) + r.len : k < PageSize * pages => At(k) = Img(r, k)
Complete(r) == \E pages \in 0 .. LastPage + 1 : Laid(r, pages) /\ Ptr(r) + r.len < PageSize * pages

LEMMA FirstImage ==
    ASSUME NEW r \in Records, LaidOut(r), NEW k \in Index, k <= Ptr(r) + r.len
    PROVE  Fill(r, HeaderPage(r), Ptr(r))[k] = Img(r, k)
  <1>1. r.len \in Nat /\ Ptr(r) \in Int /\ k \in Int  BY FirstPage, RecordFields DEF Index, PageSize
  <1>2. k - Ptr(r) < r.len \/ k - Ptr(r) = r.len  BY <1>1
  <1> QED  BY <1>1, <1>2 DEF Fill, Img

LEMMA NextImage ==
    ASSUME NEW r \in Records, LaidOut(r), NEW page \in Nat \ {0}, NEW k \in Index,
           PageSize * page + k <= Ptr(r) + r.len
    PROVE  Chunk(r, PageSize * page - Ptr(r))[k] = Img(r, PageSize * page + k)
  <1>1. r.len \in Nat /\ Ptr(r) \in 7 .. 14 /\ k \in 0 .. 15  BY FirstPage, RecordFields DEF Index, PageSize
  <1>2. /\ (PageSize * page - Ptr(r)) + k = (PageSize * page + k) - Ptr(r)
        /\ ~(PageSize * page + k < Ptr(r))
        /\ (PageSize * page + k) - Ptr(r) < r.len \/ (PageSize * page + k) - Ptr(r) = r.len
    BY <1>1 DEF PageSize
  <1> QED  BY <1>1, <1>2 DEF Chunk, Img

LEMMA Place ==
    ASSUME NEW k \in Nat
    PROVE  k \div PageSize \in Nat /\ k % PageSize \in Index /\ k = PageSize * (k \div PageSize) + (k % PageSize)
  BY DEF PageSize, Index

\* Writing the next page.
LEMMA LaidMore ==
    ASSUME NEW r \in Records, LaidOut(r), NEW page, Laid(r, page), page <= LastPage,
           DOMAIN tag = 0 .. LastPage, NEW bytes, tag' = [tag EXCEPT ![page] = bytes],
           \A k \in Index : PageSize * page + k <= Ptr(r) + r.len => bytes[k] = Img(r, PageSize * page + k)
    PROVE  Laid(r, page + 1)'
  <1>0. Ptr(r) \in 7 .. 14 /\ r.len \in Nat  BY FirstPage, RecordFields
  <1>1. page \in 0 .. LastPage /\ LastPage \in 0 .. 254 /\ Ptr(r) + r.len \in Nat
    BY <1>0, TagAssumption DEF Laid
  <1>2. page + 1 \in 0 .. LastPage + 1  BY <1>1
  <1>3. tag'[page] = bytes /\ \A p \in (0 .. LastPage) \ {page} : tag'[p] = tag[p]  BY <1>1
  <1>4. ASSUME NEW k \in 0 .. Ptr(r) + r.len, k < PageSize * (page + 1) PROVE At(k)' = Img(r, k)
    <2>0. k \in Nat  BY <1>1, <1>4
    <2>1. k \div PageSize \in Nat /\ k % PageSize \in Index /\ k = PageSize * (k \div PageSize) + (k % PageSize)
      BY <2>0, Place
    <2>2. CASE k \div PageSize = page
      <3>1. bytes[k % PageSize] = Img(r, k)  BY <1>1, <1>4, <2>1, <2>2
      <3> QED  BY <1>3, <2>2, <3>1 DEF At
    <2>3. CASE k \div PageSize # page
      <3>1. k \div PageSize < page  BY <1>1, <1>4, <2>0, <2>1, <2>3 DEF PageSize, Index
      <3>2. k < PageSize * page  BY <1>1, <2>0, <2>1, <3>1 DEF PageSize, Index
      <3>3. At(k) = Img(r, k)  BY <1>4, <3>2 DEF Laid
      <3>4. k \div PageSize \in (0 .. LastPage) \ {page}  BY <1>1, <2>1, <3>1
      <3> QED  BY <1>3, <3>3, <3>4 DEF At
    <2> QED  BY <2>2, <2>3
  <1> QED  BY <1>2, <1>4 DEF Laid

----------------------------------------------------------------------------
(* The transfers *)

Fields == {"pc", "req", "page", "used", "added", "end", "mbMe", "clean", "was"}
CallOK(c) == DOMAIN c = Fields /\ c.clean \in BOOLEAN

\* A store of a first record goes from page to page; what it has written of a record
\* that is laid out well is on the tag, unless a transfer failed.
FirstPageNext(r) ==
    /\ call.page = 0 /\ call.added = PageSize - Ptr(r)
    /\ nfcPageBuffer = Fill(r, HeaderPage(r), Ptr(r))
PageNext(r) ==
    /\ call.page \in Nat \ {0} /\ call.added = PageSize * call.page - Ptr(r)
    /\ call.clean => Laid(r, call.page)

TagInv ==
    /\ DOMAIN tag = 0 .. LastPage /\ CallOK(call)
    /\ call.pc # "idle" => call.req \in Records /\ stored = Nothing
    /\ call.pc # "idle" /\ call.req.pos = "first" => call.pc \in {"firstPage", "nextPage"}
    /\ \A r \in Records : call.req = r /\ r.pos = "first" /\ LaidOut(r) =>
           /\ call.pc = "firstPage" => FirstPageNext(r)
           /\ call.pc = "nextPage" => PageNext(r)
    /\ \A r : stored.req = r /\ r.pos = "first" => r \in Records /\ (LaidOut(r) => Complete(r))

LEMMA TagInitially == TagInit => TagInv
  <1> SUFFICES ASSUME TagInit PROVE TagInv  OBVIOUS
  <1>1. DOMAIN tag = 0 .. LastPage /\ call = Idle /\ stored = Nothing  BY DEF TagInit
  <1>2. CallOK(call) /\ call.pc = "idle"  BY <1>1 DEF Idle, CallOK, Fields
  <1>3. stored.req.pos = "none"  BY <1>1 DEF Nothing, NoRecord
  <1> QED  BY <1>1, <1>2, <1>3 DEF TagInv

\* A call that is over, or a power loss.
LEMMA CallOver ==
    ASSUME DOMAIN tag' = 0 .. LastPage, call' = Idle,
           \A r : stored'.req = r /\ r.pos = "first" => r \in Records /\ (LaidOut(r) => Complete(r)')
    PROVE  TagInv'
  <1>1. CallOK(call') /\ call'.pc = "idle"  BY DEF Idle, CallOK, Fields
  <1>2. CallOK(call)' /\ (call.pc = "idle")'  BY <1>1 DEF CallOK
  <1> QED  BY <1>1, <1>2 DEF TagInv

LEMMA StoreInv == ASSUME TagInv, NEW r \in Records, Store(r) PROVE TagInv'
  <1>1. call.pc = "idle" /\ stored' = Nothing /\ tag' = tag  BY DEF Store
  <1>2. stored'.req.pos = "none"  BY <1>1 DEF Nothing, NoRecord
  <1>3. CASE r.pos = "first"
    <2> DEFINE o == [Idle EXCEPT !.req = r]
               start == [o EXCEPT !.pc = "firstPage", !.added = PageSize - Ptr(r)]
    <2>1. nfcPageBuffer' = Fill(o.req, HeaderPage(r), Ptr(r)) /\ call' = start
      BY <1>3 DEF Store, StartPayload, HeaderPage, Ptr
    <2>2. /\ o.req = r /\ CallOK(start) /\ start.pc = "firstPage" /\ start.req = r /\ start.page = 0
          /\ start.added = PageSize - Ptr(r)
      BY DEF Idle, CallOK, Fields
    <2> HIDE DEF o, start
    <2>3. FirstPageNext(r)'  BY <2>1, <2>2 DEF FirstPageNext
    <2>4. CallOK(call)'  BY <2>1, <2>2 DEF CallOK
    <2> QED  BY <1>1, <1>2, <2>1, <2>2, <2>3, <2>4 DEF TagInv
  <1>4. CASE r.pos # "first"
    <2> DEFINE o == [Idle EXCEPT !.req = r, !.pc = "readEnd", !.was = FirstRecord]
    <2>1. call' = o  BY <1>4 DEF Store
    <2>2. CallOK(o) /\ o.pc = "readEnd" /\ o.req = r
      BY DEF Idle, CallOK, Fields
    <2> HIDE DEF o
    <2>3. CallOK(call)'  BY <2>1, <2>2 DEF CallOK
    <2> QED  BY <1>1, <1>2, <1>4, <2>1, <2>2, <2>3 DEF TagInv
  <1> QED  BY <1>3, <1>4

\* The transfer of another record than a first one: the call goes on, and what the
\* invariant says of first records does not concern it.
OtherTransfer ==
    /\ CallOK(call') /\ call'.req = call.req /\ call'.pc # "idle" /\ stored' = stored
    /\ DOMAIN tag' = 0 .. LastPage

LEMMA OtherInv == ASSUME TagInv, call.pc # "idle", call.req.pos # "first", OtherTransfer PROVE TagInv'
  <1>1. CallOK(call)'  BY DEF OtherTransfer, CallOK
  <1>2. stored'.req.pos = "none"  BY DEF TagInv, OtherTransfer, Nothing, NoRecord
  <1> QED  BY <1>1, <1>2 DEF TagInv, OtherTransfer

LEMMA Noted ==
    ASSUME NEW c, CallOK(c), NEW ok \in BOOLEAN
    PROVE  /\ CallOK(Note(c, ok)) /\ Note(c, ok).clean = (c.clean /\ ok) /\ Note(c, ok).req = c.req
           /\ Note(c, ok).page = c.page /\ Note(c, ok).added = c.added
  BY DEF CallOK, Note, Fields

LEMMA SamePages ==
    ASSUME DOMAIN tag = 0 .. LastPage, NEW page, NEW bytes, NEW ok, NT3HWriteUserData(page, bytes, ok)
    PROVE  DOMAIN tag' = 0 .. LastPage
  BY DEF NT3HWriteUserData

LEMMA Header ==
    ASSUME NEW c, CallOK(c), NEW page, NEW ok, NEW o \in HeaderRead(c, page, ok)
    PROVE  CallOK(o) /\ o.req = c.req
  <1>1. CASE ok /\ page[0] = NDEF_START_BYTE /\ page[2] # NTAG_ERASED
    <2> DEFINE e == page[1]
               h == page[2]
    <2>1. o = [c EXCEPT !.end = e, !.mbMe = h]  BY <1>1 DEF HeaderRead
    <2> HIDE DEF e, h
    <2> QED  BY <2>1 DEF CallOK, Fields
  <1>2. CASE ~(ok /\ page[0] = NDEF_START_BYTE /\ page[2] # NTAG_ERASED)
    <2>1. o \in {[c EXCEPT !.end = 0, !.mbMe = g] : g \in {0, 255}}  BY <1>2 DEF HeaderRead
    <2>2. PICK g \in {0, 255} : o = [c EXCEPT !.end = 0, !.mbMe = g]  BY <2>1
    <2> QED  BY <2>2 DEF CallOK, Fields
  <1> QED  BY <1>1, <1>2

\* Reading and rewriting the header for a record after the first.
LEMMA ReadsInv ==
    ASSUME TagInv, NEW ok \in BOOLEAN, ReadEnd(ok) \/ ReadHeader(ok)
    PROVE  TagInv'
  <1>0. CallOK(call) /\ DOMAIN tag = 0 .. LastPage  BY DEF TagInv
  <1>1. call.pc # "idle" /\ call.req.pos # "first"  BY DEF TagInv, ReadEnd, ReadHeader
  <1>2. CallOK(Note(call, ok)) /\ Note(call, ok).req = call.req  BY <1>0, Noted
  <1>3. OtherTransfer
    <2>1. CASE ReadEnd(ok)
      <3>1. PICK o \in HeaderRead(Note(call, ok), tag[0], ok) :
              call' = [o EXCEPT !.pc = "readHeader", !.page = EndPage(o.end), !.used = UsedBytes(o.end)]
        BY <2>1 DEF ReadEnd
      <3>2. CallOK(o) /\ o.req = call.req  BY <1>2, <3>1, Header
      <3>4. CallOK(call') /\ call'.req = call.req /\ call'.pc # "idle"  BY <3>1, <3>2 DEF CallOK, Fields
      <3>5. tag' = tag /\ stored' = stored  BY <2>1 DEF ReadEnd
      <3> QED  BY <1>0, <3>4, <3>5 DEF OtherTransfer
    <2>2. CASE ReadHeader(ok)
      <3>1. PICK o \in HeaderRead(Note(call, ok), tag[0], ok) :
              call' = [o EXCEPT !.pc = "rewriteRead", !.mbMe = composeNDEFMBME(TRUE, FALSE, @)]
        BY <2>2, Zenon DEF ReadHeader
      <3>2. CallOK(o) /\ o.req = call.req  BY <1>2, <3>1, Header
      <3> DEFINE h == composeNDEFMBME(TRUE, FALSE, o.mbMe)
      <3>3. call' = [o EXCEPT !.pc = "rewriteRead", !.mbMe = h]  BY <3>1
      <3> HIDE DEF h
      <3>4. CallOK(call') /\ call'.req = call.req /\ call'.pc # "idle"  BY <3>2, <3>3 DEF CallOK, Fields
      <3>5. tag' = tag /\ stored' = stored  BY <2>2, Zenon DEF ReadHeader
      <3> QED  BY <1>0, <3>4, <3>5 DEF OtherTransfer
    <2> QED  BY <2>1, <2>2
  <1> QED  BY <1>1, <1>3, OtherInv

LEMMA RewritesInv ==
    ASSUME TagInv, NEW ok \in BOOLEAN, RewriteRead(ok) \/ RewriteWrite(ok)
    PROVE  TagInv'
  <1>0. CallOK(call) /\ DOMAIN tag = 0 .. LastPage  BY DEF TagInv
  <1>1. call.pc # "idle" /\ call.req.pos # "first"  BY DEF TagInv, RewriteRead, RewriteWrite
  <1>2. CallOK(Note(call, ok)) /\ Note(call, ok).req = call.req  BY <1>0, Noted
  <1>3. ASSUME NEW where \in {"rewriteWrite", "readLast"}, call' = [Note(call, ok) EXCEPT !.pc = where]
        PROVE  CallOK(call') /\ call'.req = call.req /\ call'.pc # "idle"
    BY <1>2, <1>3 DEF CallOK, Fields
  <1>4. CASE RewriteRead(ok)
    <2>1. call' = [Note(call, ok) EXCEPT !.pc = "rewriteWrite"] \/ call' = [Note(call, ok) EXCEPT !.pc = "readLast"]
      BY <1>4 DEF RewriteRead
    <2>2. OtherTransfer  BY <1>0, <1>3, <1>4, <2>1 DEF OtherTransfer, RewriteRead
    <2> QED  BY <1>1, <2>2, OtherInv
  <1>5. CASE RewriteWrite(ok)
    <2>1. DOMAIN tag' = 0 .. LastPage  BY <1>0, <1>5, SamePages DEF RewriteWrite
    <2>2. call' = [Note(call, ok) EXCEPT !.pc = "readLast"]  BY <1>5 DEF RewriteWrite
    <2>3. OtherTransfer  BY <1>3, <1>5, <2>1, <2>2 DEF OtherTransfer, RewriteWrite
    <2> QED  BY <1>1, <2>3, OtherInv
  <1> QED  BY <1>4, <1>5

\* StartPayload for a record that is not a first one.
LEMMA Started ==
    ASSUME NEW o, CallOK(o), NEW page, NEW ptr, StartPayload(o, page, ptr)
    PROVE  CallOK(call') /\ call'.req = o.req /\ call'.pc = "firstPage"
  <1> DEFINE rest == PageSize - ptr
  <1>1. call' = [o EXCEPT !.pc = "firstPage", !.added = rest]  BY DEF StartPayload
  <1> HIDE DEF rest
  <1> QED  BY <1>1 DEF CallOK, Fields

LEMMA ReadLastInv == ASSUME TagInv, NEW ok \in BOOLEAN, ReadLast(ok) PROVE TagInv'
  <1>0. CallOK(call) /\ DOMAIN tag = 0 .. LastPage  BY DEF TagInv
  <1>1. call.pc # "idle" /\ call.req.pos # "first"  BY DEF TagInv, ReadLast
  <1> DEFINE can == ok /\ call.page <= LastPage
             o == Note(call, can)
  <1>2. CallOK(o) /\ o.req = call.req
    <2>1. can \in BOOLEAN  OBVIOUS
    <2> HIDE DEF can
    <2> QED  BY <1>0, <2>1, Noted
  <1>3. \/ call' = [o EXCEPT !.pc = "fault"]
        \/ call' = [o EXCEPT !.pc = "splitWrite"]
        \/ \E page, ptr : StartPayload(o, page, ptr)
    BY DEF ReadLast
  <1> HIDE DEF o
  <1>4. CallOK(call') /\ call'.req = call.req /\ call'.pc # "idle"
    <2>1. CASE call' = [o EXCEPT !.pc = "fault"] \/ call' = [o EXCEPT !.pc = "splitWrite"]
      BY <1>2, <2>1 DEF CallOK, Fields
    <2>2. CASE \E page, ptr : StartPayload(o, page, ptr)
      BY <1>2, <2>2, Started
    <2> QED  BY <1>3, <2>1, <2>2
  <1>5. OtherTransfer  BY <1>0, <1>4 DEF OtherTransfer, ReadLast
  <1> QED  BY <1>1, <1>5, OtherInv

LEMMA SplitWriteInv == ASSUME TagInv, NEW ok \in BOOLEAN, SplitWrite(ok) PROVE TagInv'
  <1>0. CallOK(call) /\ DOMAIN tag = 0 .. LastPage  BY DEF TagInv
  <1>1. call.pc # "idle" /\ call.req.pos # "first"  BY DEF TagInv, SplitWrite
  <1> DEFINE next == call.page + 1
             o == [Note(call, ok) EXCEPT !.page = next]
  <1>2. \E page, ptr : StartPayload(o, page, ptr)
    <2>1. \E page, ptr : StartPayload([Note(call, ok) EXCEPT !.page = @ + 1], page, ptr)  BY DEF SplitWrite
    <2>2. o = [Note(call, ok) EXCEPT !.page = @ + 1]  BY <1>0, Noted
    <2> QED  BY <2>1, <2>2
  <1>3. CallOK(Note(call, ok)) /\ Note(call, ok).req = call.req  BY <1>0, Noted
  <1> HIDE DEF next
  <1>4. CallOK(o) /\ o.req = call.req  BY <1>3 DEF CallOK, Fields
  <1> HIDE DEF o
  <1>5. CallOK(call') /\ call'.req = call.req /\ call'.pc # "idle"  BY <1>2, <1>4, Started
  <1>6. DOMAIN tag' = 0 .. LastPage  BY <1>0, SamePages DEF SplitWrite
  <1>7. OtherTransfer  BY <1>5, <1>6 DEF OtherTransfer, SplitWrite
  <1> QED  BY <1>1, <1>7, OtherInv

\* Writing a page of a first record, and what a store leaves that returns.
LEMMA FirstWritten ==
    ASSUME DOMAIN tag = 0 .. LastPage, NEW r \in Records, LaidOut(r), FirstPageNext(r),
           NT3HWriteUserData(call.page, nfcPageBuffer, TRUE)
    PROVE  Laid(r, 1)'
  <1>0. call.page = 0 /\ 0 <= LastPage /\ r.len \in Nat /\ Ptr(r) \in 7 .. 14
    BY TagAssumption, FirstPage, RecordFields DEF FirstPageNext
  <1>1. tag' = [tag EXCEPT ![0] = nfcPageBuffer]  BY <1>0 DEF NT3HWriteUserData
  <1>2. Laid(r, 0)
    <2>1. 0 \in 0 .. LastPage + 1  BY TagAssumption
    <2>2. \A k \in 0 .. Ptr(r) + r.len : ~(k < PageSize * 0)  BY DEF PageSize
    <2> QED  BY <2>1, <2>2 DEF Laid
  <1>3. ASSUME NEW k \in Index, PageSize * 0 + k <= Ptr(r) + r.len
        PROVE  nfcPageBuffer[k] = Img(r, PageSize * 0 + k)
    <2>1. PageSize * 0 + k = k  BY DEF PageSize, Index
    <2>2. k <= Ptr(r) + r.len  BY <1>3, <2>1
    <2>3. nfcPageBuffer[k] = Img(r, k)  BY <2>2, FirstImage DEF FirstPageNext
    <2> QED  BY <2>1, <2>3
  <1>4. Laid(r, 0 + 1)'  BY <1>0, <1>1, <1>2, <1>3, LaidMore
  <1> QED  BY <1>4

LEMMA NextWritten ==
    ASSUME DOMAIN tag = 0 .. LastPage, NEW r \in Records, LaidOut(r), PageNext(r), call.clean,
           NEW page, page = call.page, page <= LastPage,
           NT3HWriteUserData(call.page, Chunk(r, call.added), TRUE)
    PROVE  Laid(r, page + 1)'
  <1>1. page \in Nat \ {0} /\ call.added = PageSize * page - Ptr(r) /\ Laid(r, page)
    BY DEF PageNext
  <1>2. PICK bytes : bytes = Chunk(r, PageSize * page - Ptr(r))  OBVIOUS
  <1>3. tag' = [tag EXCEPT ![page] = bytes]  BY <1>1, <1>2 DEF NT3HWriteUserData
  <1>4. ASSUME NEW k \in Index, PageSize * page + k <= Ptr(r) + r.len
        PROVE  bytes[k] = Img(r, PageSize * page + k)
    BY <1>1, <1>2, <1>4, NextImage
  <1>5. /\ r \in Records /\ LaidOut(r) /\ Laid(r, page) /\ page <= LastPage /\ DOMAIN tag = 0 .. LastPage
        /\ tag' = [tag EXCEPT ![page] = bytes]
        /\ \A k \in Index : PageSize * page + k <= Ptr(r) + r.len => bytes[k] = Img(r, PageSize * page + k)
    BY <1>1, <1>3, <1>4
  <1> QED  BY <1>5, LaidMore, Zenon

LEMMA Returned ==
    ASSUME CallOK(call), NEW ok \in BOOLEAN, Return(Note(call, ok), Written(ok))
    PROVE  /\ call' = Idle
           /\ \/ stored' = Nothing
              \/ ok /\ call.clean /\ call.page <= LastPage /\ stored'.req = call.req
  <1>1. Note(call, ok).clean = (call.clean /\ ok) /\ Note(call, ok).req = call.req  BY Noted
  <1>2. call' = Idle  BY DEF Return
  <1>3. CASE Written(ok) /\ Note(call, ok).clean
    <2>1. stored'.req = call.req  BY <1>1, <1>3 DEF Return
    <2> QED  BY <1>1, <1>2, <1>3, <2>1 DEF Written
  <1>4. CASE ~(Written(ok) /\ Note(call, ok).clean)
    BY <1>2, <1>4 DEF Return
  <1> QED  BY <1>3, <1>4

LEMMA WriteFirstPageInv == ASSUME TagInv, NEW ok \in BOOLEAN, WriteFirstPage(ok) PROVE TagInv'
  <1>1. /\ CallOK(call) /\ DOMAIN tag = 0 .. LastPage /\ call.pc = "firstPage" /\ call.req \in Records
        /\ NT3HWriteUserData(call.page, nfcPageBuffer, ok)
    BY DEF TagInv, WriteFirstPage
  <1>2. DOMAIN tag' = 0 .. LastPage  BY <1>1, SamePages
  <1>3. \A r \in Records : r = call.req /\ r.pos = "first" /\ LaidOut(r) => FirstPageNext(r)
    BY <1>1 DEF TagInv
  <1>4. CASE call.req.len < call.added /\ Return(Note(call, ok), Written(ok))
    <2>1. ASSUME NEW r, stored'.req = r, r.pos = "first" PROVE r \in Records /\ (LaidOut(r) => Complete(r)')
      <3>1. stored' # Nothing  BY <2>1 DEF Nothing, NoRecord
      <3>2. ok /\ stored'.req = call.req  BY <1>1, <1>4, <3>1, Returned
      <3>3. r \in Records /\ r = call.req  BY <1>1, <2>1, <3>2
      <3>4. ASSUME LaidOut(r) PROVE Complete(r)'
        <4>1. FirstPageNext(r)  BY <1>3, <2>1, <3>3, <3>4
        <4>2. Laid(r, 1)'  BY <1>1, <3>2, <3>3, <3>4, <4>1, FirstWritten
        <4>3. Ptr(r) + r.len < PageSize * 1 /\ 1 \in 0 .. LastPage + 1
          <5>1. r.len < PageSize - Ptr(r) /\ r.len \in Nat  BY <1>4, <3>3, <4>1, RecordFields DEF FirstPageNext
          <5>2. Ptr(r) \in 7 .. 14  BY <3>3, <3>4, FirstPage
          <5> QED  BY <5>1, <5>2, TagAssumption DEF PageSize
        <4> QED  BY <4>2, <4>3 DEF Complete
      <3> QED  BY <3>3, <3>4
    <2>2. call' = Idle  BY <1>1, <1>4, Returned
    <2> QED  BY <1>2, <2>1, <2>2, CallOver
  <1>5. CASE call' = [Note(call, ok) EXCEPT !.pc = "nextPage", !.page = @ + 1] /\ UNCHANGED stored
    <2>1. /\ CallOK(Note(call, ok)) /\ Note(call, ok).clean = (call.clean /\ ok) /\ Note(call, ok).req = call.req
          /\ Note(call, ok).page = call.page /\ Note(call, ok).added = call.added
      BY <1>1, Noted
    <2> DEFINE next == call.page + 1
    <2>2. call' = [Note(call, ok) EXCEPT !.pc = "nextPage", !.page = next]  BY <1>5, <2>1
    <2> HIDE DEF next
    <2>3. /\ CallOK(call') /\ call'.pc = "nextPage" /\ call'.page = next /\ call'.req = call.req
          /\ call'.clean = (call.clean /\ ok) /\ call'.added = call.added
      BY <2>1, <2>2 DEF CallOK, Fields
    <2>4. ASSUME NEW r \in Records, r = call.req, r.pos = "first", LaidOut(r) PROVE PageNext(r)'
      <3>1. FirstPageNext(r) /\ next = 1  BY <1>3, <2>4 DEF FirstPageNext, next
      <3>2. call'.clean => Laid(r, 1)'
        <4>1. SUFFICES ASSUME ok PROVE Laid(r, 1)'  BY <2>3
        <4> QED  BY <1>1, <2>4, <3>1, <4>1, FirstWritten
      <3>3. call'.added = PageSize * 1 - Ptr(r)  BY <2>3, <3>1 DEF FirstPageNext, PageSize
      <3> QED  BY <2>3, <3>1, <3>2, <3>3 DEF PageNext
    <2>5. CallOK(call)'  BY <2>3 DEF CallOK
    <2>6. stored' = Nothing /\ stored'.req.pos = "none"  BY <1>1, <1>5 DEF TagInv, Nothing, NoRecord
    <2>7. call'.req \in Records  BY <1>1, <2>3
    <2> QED  BY <1>2, <2>3, <2>4, <2>5, <2>6, <2>7 DEF TagInv
  <1> QED  BY <1>4, <1>5 DEF WriteFirstPage

LEMMA WriteNextPageInv == ASSUME TagInv, NEW ok \in BOOLEAN, WriteNextPage(ok) PROVE TagInv'
  <1>1. /\ CallOK(call) /\ DOMAIN tag = 0 .. LastPage /\ call.pc = "nextPage" /\ call.req \in Records
        /\ NT3HWriteUserData(call.page, Chunk(call.req, call.added), ok)
    BY DEF TagInv, WriteNextPage
  <1>2. DOMAIN tag' = 0 .. LastPage  BY <1>1, SamePages
  <1>3. \A r \in Records : r = call.req /\ r.pos = "first" /\ LaidOut(r) => PageNext(r)
    BY <1>1 DEF TagInv
  <1>4. CASE /\ call.req.len < call.added + PageSize \/ ~Written(ok)
             /\ Return(Note(call, ok), Written(ok))
    <2>1. ASSUME NEW r, stored'.req = r, r.pos = "first" PROVE r \in Records /\ (LaidOut(r) => Complete(r)')
      <3>1. stored' # Nothing  BY <2>1 DEF Nothing, NoRecord
      <3>2. ok /\ call.clean /\ call.page <= LastPage /\ stored'.req = call.req
        BY <1>1, <1>4, <3>1, Returned
      <3>3. r \in Records /\ r = call.req  BY <1>1, <2>1, <3>2
      <3>4. ASSUME LaidOut(r) PROVE Complete(r)'
        <4>1. PageNext(r)  BY <1>3, <2>1, <3>3, <3>4
        <4>2. PICK page : page = call.page  OBVIOUS
        <4>3. page \in Nat \ {0} /\ call.added = PageSize * page - Ptr(r) /\ page <= LastPage
          BY <3>2, <4>1, <4>2 DEF PageNext
        <4>4. Laid(r, page + 1)'  BY <1>1, <3>2, <3>3, <3>4, <4>1, <4>2, <4>3, NextWritten
        <4>5. Ptr(r) + r.len < PageSize * (page + 1) /\ page + 1 \in 0 .. LastPage + 1
          <5>1. r.len < PageSize * page - Ptr(r) + PageSize /\ r.len \in Nat
            BY <1>4, <3>2, <3>3, <4>2, <4>3, RecordFields DEF Written
          <5>2. Ptr(r) \in 7 .. 14  BY <3>3, <3>4, FirstPage
          <5> QED  BY <4>3, <5>1, <5>2, TagAssumption DEF PageSize
        <4> QED  BY <4>4, <4>5 DEF Complete
      <3> QED  BY <3>3, <3>4
    <2>2. call' = Idle  BY <1>1, <1>4, Returned
    <2> QED  BY <1>2, <2>1, <2>2, CallOver
  <1>5. CASE /\ Written(ok) /\ UNCHANGED stored
             /\ call' = [call EXCEPT !.page = @ + 1, !.added = @ + PageSize]
    <2> DEFINE next == call.page + 1
               sum == call.added + PageSize
    <2>1. call' = [call EXCEPT !.page = next, !.added = sum]  BY <1>1, <1>5
    <2> HIDE DEF next, sum
    <2>2. /\ CallOK(call') /\ call'.pc = "nextPage" /\ call'.page = next /\ call'.req = call.req
          /\ call'.clean = call.clean /\ call'.added = sum
      BY <1>1, <2>1 DEF CallOK, Fields
    <2>3. ASSUME NEW r \in Records, r = call.req, r.pos = "first", LaidOut(r) PROVE PageNext(r)'
      <3>1. PageNext(r)  BY <1>3, <2>3
      <3>2. PICK page : page = call.page  OBVIOUS
      <3>3. /\ page \in Nat \ {0} /\ call.added = PageSize * page - Ptr(r) /\ page <= LastPage /\ ok
            /\ next = page + 1 /\ sum = call.added + PageSize
        BY <1>5, <3>1, <3>2 DEF PageNext, Written, next, sum
      <3>4. call.clean => Laid(r, page + 1)'
        BY <1>1, <2>3, <3>1, <3>2, <3>3, NextWritten
      <3>5. next \in Nat \ {0} /\ sum = PageSize * next - Ptr(r)
        <4>1. Ptr(r) \in 7 .. 14  BY <2>3, FirstPage
        <4> QED  BY <3>3, <4>1 DEF PageSize
      <3> QED  BY <2>2, <3>3, <3>4, <3>5 DEF PageNext
    <2>4. CallOK(call)'  BY <2>2 DEF CallOK
    <2>5. stored' = Nothing /\ stored'.req.pos = "none"  BY <1>1, <1>5 DEF TagInv, Nothing, NoRecord
    <2>6. call'.req \in Records  BY <1>1, <2>2
    <2> QED  BY <1>2, <2>2, <2>3, <2>4, <2>5, <2>6 DEF TagInv
  <1> QED  BY <1>1, <1>4, <1>5 DEF WriteNextPage

LEMMA TagPowerLossInv == ASSUME TagInv, TagPowerLoss PROVE TagInv'
  <1>1. DOMAIN tag' = 0 .. LastPage /\ call' = Idle /\ stored' = Nothing  BY DEF TagInv, TagPowerLoss
  <1>2. \A r : stored'.req = r => r.pos # "first"  BY <1>1 DEF Nothing, NoRecord
  <1> QED  BY <1>1, <1>2, CallOver

LEMMA TagStepInv == ASSUME TagInv, TagStep PROVE TagInv'
  BY WriteFirstPageInv, WriteNextPageInv, ReadsInv, RewritesInv, ReadLastInv, SplitWriteInv DEF TagStep

LEMMA TagSame == ASSUME TagInv, UNCHANGED tagVars PROVE TagInv'
  <1>1. tag' = tag /\ nfcPageBuffer' = nfcPageBuffer /\ call' = call /\ stored' = stored  BY DEF tagVars
  <1>2. \A r, pages : Laid(r, pages)' <=> Laid(r, pages)  BY <1>1 DEF Laid, At
  <1>3. \A r : Complete(r)' <=> Complete(r)  BY <1>2 DEF Complete
  <1>4. \A r : FirstPageNext(r)' <=> FirstPageNext(r)  BY <1>1 DEF FirstPageNext
  <1>5. \A r : PageNext(r)' <=> PageNext(r)  BY <1>1, <1>2 DEF PageNext
  <1> QED  BY <1>1, <1>3, <1>4, <1>5 DEF TagInv, CallOK

----------------------------------------------------------------------------
(* Reading the record *)

\* What a phone reads of a record of the short and of the long form.
LEMMA ReadShort ==
    ASSUME NEW b \in Nat, NEW n \in Nat, b = IF Long THEN 4 ELSE 2, HasBit(At(b), BIT_SR), n = At(b + 2),
           At(0) = NDEF_START_BYTE, \A k \in 0 .. 3 : At(b + k) < 256, HasBit(At(b), BIT_MB), At(b + 1) = 1,
           4 + n = Limit, b + 4 + n <= PageSize * (LastPage + 1)
    PROVE  FirstRecord = [type |-> At(b + 3), body |-> [k \in 1 .. n |-> At(b + 4 + k - 1)]]
  <1> DEFINE base  == IF Long THEN 4 ELSE 2
             short == HasBit(At(base), BIT_SR)
             len   == IF short THEN At(base + 2) ELSE BigEndian(base + 2)
             pre   == IF short THEN 4 ELSE 7
             wellFormed ==
                 /\ At(0) = NDEF_START_BYTE
                 /\ \A k \in 0 .. 6 : At(base + k) < 256 \/ (short /\ k > 3)
                 /\ HasBit(At(base), BIT_MB) /\ At(base + 1) = 1
                 /\ HasBit(At(base), BIT_ME) => pre + len = Limit
                 /\ pre + len <= Limit
                 /\ base + pre + len <= PageSize * (LastPage + 1)
  <1>1. base = b  OBVIOUS
  <1>2. FirstRecord = IF wellFormed
                      THEN [type |-> At(base + pre - 1), body |-> [k \in 1 .. len |-> At(base + pre + k - 1)]]
                      ELSE Broken
    BY DEF FirstRecord
  <1> HIDE DEF base
  <1>3. short  BY <1>1
  <1>4. len = n /\ pre = 4  BY <1>1, <1>3
  <1> HIDE DEF short, len, pre
  <1>5. \A k \in 0 .. 6 : At(base + k) < 256 \/ (short /\ k > 3)
    <2>1. \A k \in 0 .. 6 : k \in 0 .. 3 \/ k > 3  OBVIOUS
    <2> QED  BY <1>1, <1>3, <2>1
  <1>6. pre + len = Limit /\ pre + len <= Limit /\ base + pre + len <= PageSize * (LastPage + 1)
    BY <1>1, <1>4
  <1>7. wellFormed  BY <1>1, <1>5, <1>6
  <1> HIDE DEF wellFormed
  <1>8. FirstRecord = [type |-> At(b + 4 - 1), body |-> [k \in 1 .. n |-> At(b + 4 + k - 1)]]
    BY <1>1, <1>2, <1>4, <1>7
  <1>9. b + 4 - 1 = b + 3  OBVIOUS
  <1> QED  BY <1>8, <1>9

LEMMA ReadLong ==
    ASSUME NEW b \in Nat, NEW n \in Nat, b = IF Long THEN 4 ELSE 2, ~HasBit(At(b), BIT_SR),
           n = BigEndian(b + 2),
           At(0) = NDEF_START_BYTE, \A k \in 0 .. 6 : At(b + k) < 256, HasBit(At(b), BIT_MB), At(b + 1) = 1,
           7 + n = Limit, b + 7 + n <= PageSize * (LastPage + 1)
    PROVE  FirstRecord = [type |-> At(b + 6), body |-> [k \in 1 .. n |-> At(b + 7 + k - 1)]]
  <1> DEFINE base  == IF Long THEN 4 ELSE 2
             short == HasBit(At(base), BIT_SR)
             len   == IF short THEN At(base + 2) ELSE BigEndian(base + 2)
             pre   == IF short THEN 4 ELSE 7
             wellFormed ==
                 /\ At(0) = NDEF_START_BYTE
                 /\ \A k \in 0 .. 6 : At(base + k) < 256 \/ (short /\ k > 3)
                 /\ HasBit(At(base), BIT_MB) /\ At(base + 1) = 1
                 /\ HasBit(At(base), BIT_ME) => pre + len = Limit
                 /\ pre + len <= Limit
                 /\ base + pre + len <= PageSize * (LastPage + 1)
  <1>1. base = b  OBVIOUS
  <1>2. FirstRecord = IF wellFormed
                      THEN [type |-> At(base + pre - 1), body |-> [k \in 1 .. len |-> At(base + pre + k - 1)]]
                      ELSE Broken
    BY DEF FirstRecord
  <1> HIDE DEF base
  <1>3. ~short  BY <1>1
  <1>4. len = n /\ pre = 7  BY <1>1, <1>3
  <1> HIDE DEF short, len, pre
  <1>5. pre + len = Limit /\ pre + len <= Limit /\ base + pre + len <= PageSize * (LastPage + 1)
    BY <1>1, <1>4
  <1>6. wellFormed  BY <1>1, <1>5
  <1> HIDE DEF wellFormed
  <1>7. FirstRecord = [type |-> At(b + 7 - 1), body |-> [k \in 1 .. n |-> At(b + 7 + k - 1)]]
    BY <1>1, <1>2, <1>4, <1>6
  <1>8. b + 7 - 1 = b + 6  OBVIOUS
  <1> QED  BY <1>7, <1>8

\* What is on the tag after a store.
LEMMA OnTag ==
    ASSUME NEW r \in Records, LaidOut(r), Complete(r)
    PROVE  /\ At(0) = NDEF_START_BYTE /\ (Base(r) = IF Long THEN 4 ELSE 2)
           /\ Limit = r.len + Len(Bytes(r)) /\ Closed
           /\ \A k \in 1 .. Len(Bytes(r)) : At(Base(r) + k - 1) = Bytes(r)[k]
           /\ \A k \in 1 .. r.len : At(Ptr(r) + k - 1) = Char(r, k - 1)
           /\ Ptr(r) + r.len < PageSize * (LastPage + 1)
  <1>1. /\ Ptr(r) = Base(r) + Len(Bytes(r)) /\ Ptr(r) \in 7 .. 14 /\ Base(r) \in {2, 4} /\ r.len \in Nat
        /\ Len(Bytes(r)) \in {5, 7, 10} /\ r.len + Len(Bytes(r)) # 255
    BY FirstPage, Lengths
  <1>2. PICK pages \in 0 .. LastPage + 1 : Laid(r, pages) /\ Ptr(r) + r.len < PageSize * pages
    BY DEF Complete
  <1>3. \A k \in 0 .. Ptr(r) + r.len : At(k) = Img(r, k)
    BY <1>1, <1>2, TagAssumption DEF Laid, PageSize
  <1>4. Ptr(r) + r.len < PageSize * (LastPage + 1)  BY <1>1, <1>2, TagAssumption DEF PageSize
  <1>5. \A k \in 0 .. Ptr(r) - 1 : At(k) = HeaderPage(r)[k]  BY <1>1, <1>3 DEF Img
  <1>6. At(0) = NDEF_START_BYTE  BY <1>1, <1>5, FirstPage
  <1>7. \A k \in 1 .. Len(Bytes(r)) : At(Base(r) + k - 1) = Bytes(r)[k]
    <2>1. \A k \in 1 .. Len(Bytes(r)) : Base(r) + k - 1 \in 0 .. Ptr(r) - 1  BY <1>1
    <2> QED  BY <1>5, <2>1, FirstPage
  <1>8. \A k \in 1 .. r.len : At(Ptr(r) + k - 1) = Char(r, k - 1)
    <2>1. ASSUME NEW k \in 1 .. r.len PROVE At(Ptr(r) + k - 1) = Char(r, k - 1)
      <3>1. PICK at : at = Ptr(r) + k - 1  OBVIOUS
      <3>2. at \in 0 .. Ptr(r) + r.len /\ ~(at < Ptr(r)) /\ at - Ptr(r) = k - 1 /\ k - 1 < r.len
        <4>1. k \in Int /\ 1 <= k /\ k <= r.len /\ Ptr(r) \in Nat /\ r.len \in Nat  BY <1>1, <2>1
        <4> QED  BY <3>1, <4>1
      <3>3. At(at) = Char(r, k - 1)  BY <1>3, <3>2 DEF Img
      <3> QED  BY <3>1, <3>3
    <2> QED  BY <2>1
  <1>9. At(Ptr(r) + r.len) = NDEF_END_BYTE
    <2>1. PICK at : at = Ptr(r) + r.len  OBVIOUS
    <2>2. at \in 0 .. Ptr(r) + r.len /\ ~(at < Ptr(r)) /\ ~(at - Ptr(r) < r.len)  BY <1>1, <2>1
    <2>3. At(at) = NDEF_END_BYTE  BY <1>3, <2>2 DEF Img
    <2> QED  BY <2>1, <2>3
  <1>10. CASE Base(r) = 2
    <2>1. At(1) = r.len + Len(Bytes(r))  BY <1>1, <1>5, <1>10, FirstPage
    <2>2. ~Long /\ Limit = r.len + Len(Bytes(r))  BY <1>1, <2>1 DEF Long, Limit
    <2>3. 2 + Limit = Ptr(r) + r.len  BY <1>1, <1>10, <2>2
    <2>4. Closed  BY <1>9, <2>2, <2>3 DEF Closed
    <2> QED  BY <1>4, <1>6, <1>7, <1>8, <1>10, <2>2, <2>4
  <1>11. CASE Base(r) = 4
    <2> DEFINE total == r.len + Len(Bytes(r))
    <2>1. At(1) = 255 /\ At(2) = total \div 256 /\ At(3) = total % 256
      <3>1. HeaderPage(r)[1] = 255 /\ HeaderPage(r)[2] = total \div 256 /\ HeaderPage(r)[3] = total % 256
        BY <1>11, FirstPage, Zenon
      <3> HIDE DEF total
      <3> QED  BY <1>1, <1>5, <3>1
    <2>2. total \in Nat  BY <1>1
    <2> HIDE DEF total
    <2>3. total = 256 * (total \div 256) + (total % 256)  BY <2>2
    <2>4. Long /\ Limit = total  BY <2>1, <2>3 DEF Long, Limit
    <2>5. 4 + Limit = Ptr(r) + r.len  BY <1>1, <1>11, <2>4 DEF total
    <2>6. Closed  BY <1>9, <2>4, <2>5 DEF Closed
    <2> QED  BY <1>4, <1>6, <1>7, <1>8, <1>11, <2>4, <2>6 DEF total
  <1> QED  BY <1>1, <1>10, <1>11

\* The payload follows its prefix.
LEMMA PayloadRead ==
    ASSUME NEW r \in Records, LaidOut(r), Complete(r), NEW pre \in Seq(Int), NEW b \in Nat, NEW n \in Nat,
           n = Len(pre) + r.len, b + Len(pre) = Ptr(r),
           \A k \in 1 .. Len(pre) : At(b + k - 1) = pre[k]
    PROVE  [k \in 1 .. n |-> At(b + k - 1)] = pre \o [k \in 1 .. r.len |-> Char(r, k - 1)]
  <1> DEFINE chars == [k \in 1 .. r.len |-> Char(r, k - 1)]
             read == [k \in 1 .. n |-> At(b + k - 1)]
             joined == pre \o chars
  <1>1. r.len \in Nat /\ r.id \in Nat /\ Len(pre) \in Nat  BY RecordFields
  <1>2. chars \in Seq(Int) /\ Len(chars) = r.len /\ \A k \in 1 .. r.len : chars[k] = Char(r, k - 1)
    <2>1. \A k \in 1 .. r.len : Char(r, k - 1) \in Int  BY <1>1 DEF Char
    <2>2. chars \in [1 .. r.len -> Int]  BY <2>1
    <2>3. chars \in Seq(Int)
      <3> HIDE DEF chars
      <3>1. Seq(Int) = UNION {[1 .. m -> Int] : m \in Nat}  BY SeqDef, Zenon
      <3>2. [1 .. r.len -> Int] \in {[1 .. m -> Int] : m \in Nat}  BY <1>1
      <3> QED  BY <2>2, <3>1, <3>2, Zenon
    <2>4. Len(chars) = r.len
      <3>1. DOMAIN chars = 1 .. r.len  OBVIOUS
      <3>2. Len(chars) \in Nat /\ DOMAIN chars = 1 .. Len(chars)  BY <2>3, LenProperties
      <3> HIDE DEF chars
      <3>3. 1 .. Len(chars) = 1 .. r.len  BY <3>1, <3>2
      <3> QED  BY <1>1, <3>2, <3>3
    <2> QED  BY <2>3, <2>4
  <1> HIDE DEF chars
  <1>3. /\ joined \in Seq(Int) /\ Len(joined) = n
        /\ \A k \in 1 .. n : joined[k] = IF k <= Len(pre) THEN pre[k] ELSE chars[k - Len(pre)]
    BY <1>1, <1>2, ConcatProperties
  <1> HIDE DEF joined
  <1>4. \A k \in 1 .. n : read[k] = joined[k]
    <2>1. ASSUME NEW k \in 1 .. n PROVE At(b + k - 1) = joined[k]
      <3>1. CASE k <= Len(pre)  BY <1>1, <1>3, <2>1, <3>1
      <3>2. CASE ~(k <= Len(pre))
        <4>1. PICK i : i = k - Len(pre)  OBVIOUS
        <4>2. i \in 1 .. r.len /\ b + k - 1 = Ptr(r) + i - 1  BY <1>1, <2>1, <3>2, <4>1
        <4>3. At(Ptr(r) + i - 1) = Char(r, i - 1)  BY <4>2, OnTag
        <4> QED  BY <1>2, <1>3, <2>1, <3>2, <4>1, <4>2, <4>3
      <3> QED  BY <3>1, <3>2
    <2> QED  BY <2>1
  <1>5. DOMAIN joined = 1 .. n  BY <1>3
  <1>6. joined = [k \in 1 .. n |-> joined[k]]  BY <1>3, <1>5
  <1>7. read = [k \in 1 .. n |-> joined[k]]  BY <1>4
  <1> QED  BY <1>6, <1>7 DEF joined, chars

\* What a phone reads after a store is the record that was stored, and it is closed.
LEMMA StoredIsRead ==
    ASSUME NEW r \in Records, LaidOut(r), Complete(r)
    PROVE  FirstRecord = Content(r) /\ Closed
  <1>0. r.type \in {RTD_TEXT, RTD_URI} /\ r.len \in Nat /\ RTD_TEXT # RTD_URI
    BY RecordFields DEF RTD_TEXT, RTD_URI
  <1>1. /\ Ptr(r) = Base(r) + Len(Bytes(r)) /\ Base(r) \in Nat /\ (Base(r) = IF Long THEN 4 ELSE 2)
        /\ At(0) = NDEF_START_BYTE /\ Limit = r.len + Len(Bytes(r))
        /\ \A k \in 1 .. Len(Bytes(r)) : At(Base(r) + k - 1) = Bytes(r)[k]
        /\ Ptr(r) + r.len < PageSize * (LastPage + 1)
    BY OnTag, FirstPage
  <1>2. CASE r.type = RTD_URI
    <2> DEFINE b == Base(r)
               n == r.len + 1
               pre == <<1>>
    <2>1. Bytes(r) = Uri(r.len)  BY <1>0, <1>2, Forms DEF Bytes
    <2>2. /\ Len(Bytes(r)) = 5 /\ Bytes(r)[1] = 209 /\ Bytes(r)[2] = 1 /\ Bytes(r)[3] = n
          /\ Bytes(r)[4] = RTD_URI /\ Bytes(r)[5] = 1
      BY <2>1 DEF Uri
    <2>3. /\ At(b) = 209 /\ At(b + 1) = 1 /\ At(b + 2) = n /\ At(b + 3) = RTD_URI /\ At(b + 4) = 1
      <3>1. /\ b + 1 - 1 = b /\ b + 2 - 1 = b + 1 /\ b + 3 - 1 = b + 2 /\ b + 4 - 1 = b + 3 /\ b + 5 - 1 = b + 4
        BY <1>1
      <3>2. {1, 2, 3, 4, 5} \subseteq 1 .. Len(Bytes(r))  BY <2>2
      <3> QED  BY <1>1, <2>2, <3>1, <3>2
    <2>4. n \in Nat /\ n < 256  BY <1>0, <1>2 DEF LaidOut
    <2>5. FirstRecord = [type |-> At(b + 3), body |-> [k \in 1 .. n |-> At(b + 4 + k - 1)]]
      <3>1. \A k \in 0 .. 3 : At(b + k) < 256
        <4>1. b + 0 = b /\ \A k \in 0 .. 3 : k = 0 \/ k = 1 \/ k = 2 \/ k = 3  BY <1>1
        <4> QED  BY <2>3, <2>4, <4>1 DEF RTD_URI
      <3>2. 4 + n = Limit /\ b + 4 + n <= PageSize * (LastPage + 1)
        BY <1>0, <1>1, <2>2, TagAssumption DEF PageSize
      <3>3. HasBit(At(b), BIT_SR) /\ HasBit(At(b), BIT_MB)  BY <2>3, Headers
      <3>4. /\ b \in Nat /\ n \in Nat /\ (b = IF Long THEN 4 ELSE 2) /\ HasBit(At(b), BIT_SR)
            /\ n = At(b + 2) /\ At(0) = NDEF_START_BYTE /\ (\A k \in 0 .. 3 : At(b + k) < 256)
            /\ HasBit(At(b), BIT_MB) /\ At(b + 1) = 1 /\ 4 + n = Limit
            /\ b + 4 + n <= PageSize * (LastPage + 1)
        BY <1>1, <2>3, <2>4, <3>1, <3>2, <3>3
      <3> HIDE DEF b, n
      <3> QED  BY <3>4, ReadShort, Zenon
    <2>6. [k \in 1 .. n |-> At(b + 4 + k - 1)] = pre \o [k \in 1 .. r.len |-> Char(r, k - 1)]
      <3>1. pre \in Seq(Int) /\ Len(pre) = 1 /\ pre[1] = 1  OBVIOUS
      <3>2. b + 4 \in Nat /\ (b + 4) + Len(pre) = Ptr(r) /\ n = Len(pre) + r.len
        BY <1>0, <1>1, <2>2, <3>1
      <3>3. \A k \in 1 .. Len(pre) : At((b + 4) + k - 1) = pre[k]
        <4>1. (b + 4) + 1 - 1 = b + 4 /\ 1 .. Len(pre) = {1}  BY <1>1, <3>1
        <4> QED  BY <2>3, <3>1, <4>1
      <3>4. /\ r \in Records /\ LaidOut(r) /\ Complete(r) /\ pre \in Seq(Int) /\ b + 4 \in Nat /\ n \in Nat
            /\ n = Len(pre) + r.len /\ (b + 4) + Len(pre) = Ptr(r)
            /\ \A k \in 1 .. Len(pre) : At((b + 4) + k - 1) = pre[k]
        BY <2>4, <3>1, <3>2, <3>3
      <3> HIDE DEF pre, n, b
      <3> QED  BY <3>4, PayloadRead, Zenon
    <2>7. Content(r) = [type |-> RTD_URI, body |-> pre \o [k \in 1 .. r.len |-> Char(r, k - 1)]]
      BY <1>0, <1>2 DEF Content
    <2> HIDE DEF pre, n, b
    <2> QED  BY <2>3, <2>5, <2>6, <2>7, OnTag
  <1>3. CASE r.type = RTD_TEXT /\ r.len < 253
    <2> DEFINE b == Base(r)
               n == r.len + 3
               pre == <<2, 101, 110>>
    <2>1. Bytes(r) = ShortText(r.len)  BY <1>0, <1>3, Forms DEF Bytes
    <2>2. /\ Len(Bytes(r)) = 7 /\ Bytes(r)[1] = 209 /\ Bytes(r)[2] = 1 /\ Bytes(r)[3] = n
          /\ Bytes(r)[4] = RTD_TEXT /\ Bytes(r)[5] = 2 /\ Bytes(r)[6] = 101 /\ Bytes(r)[7] = 110
      BY <2>1 DEF ShortText
    <2>3. /\ At(b) = 209 /\ At(b + 1) = 1 /\ At(b + 2) = n /\ At(b + 3) = RTD_TEXT
          /\ At(b + 4) = 2 /\ At(b + 5) = 101 /\ At(b + 6) = 110
      <3>1. /\ b + 1 - 1 = b /\ b + 2 - 1 = b + 1 /\ b + 3 - 1 = b + 2 /\ b + 4 - 1 = b + 3 /\ b + 5 - 1 = b + 4
            /\ b + 6 - 1 = b + 5 /\ b + 7 - 1 = b + 6
        BY <1>1
      <3>2. {1, 2, 3, 4, 5, 6, 7} \subseteq 1 .. Len(Bytes(r))  BY <2>2
      <3> QED  BY <1>1, <2>2, <3>1, <3>2
    <2>4. n \in Nat /\ n < 256  BY <1>0, <1>3
    <2>5. FirstRecord = [type |-> At(b + 3), body |-> [k \in 1 .. n |-> At(b + 4 + k - 1)]]
      <3>1. \A k \in 0 .. 3 : At(b + k) < 256
        <4>1. b + 0 = b /\ \A k \in 0 .. 3 : k = 0 \/ k = 1 \/ k = 2 \/ k = 3  BY <1>1
        <4> QED  BY <2>3, <2>4, <4>1 DEF RTD_TEXT
      <3>2. 4 + n = Limit /\ b + 4 + n <= PageSize * (LastPage + 1)
        BY <1>0, <1>1, <2>2, TagAssumption DEF PageSize
      <3>3. HasBit(At(b), BIT_SR) /\ HasBit(At(b), BIT_MB)  BY <2>3, Headers
      <3>4. /\ b \in Nat /\ n \in Nat /\ (b = IF Long THEN 4 ELSE 2) /\ HasBit(At(b), BIT_SR)
            /\ n = At(b + 2) /\ At(0) = NDEF_START_BYTE /\ (\A k \in 0 .. 3 : At(b + k) < 256)
            /\ HasBit(At(b), BIT_MB) /\ At(b + 1) = 1 /\ 4 + n = Limit
            /\ b + 4 + n <= PageSize * (LastPage + 1)
        BY <1>1, <2>3, <2>4, <3>1, <3>2, <3>3
      <3> HIDE DEF b, n
      <3> QED  BY <3>4, ReadShort, Zenon
    <2>6. [k \in 1 .. n |-> At(b + 4 + k - 1)] = pre \o [k \in 1 .. r.len |-> Char(r, k - 1)]
      <3>1. pre \in Seq(Int) /\ Len(pre) = 3 /\ pre[1] = 2 /\ pre[2] = 101 /\ pre[3] = 110  OBVIOUS
      <3>2. b + 4 \in Nat /\ (b + 4) + Len(pre) = Ptr(r) /\ n = Len(pre) + r.len
        BY <1>0, <1>1, <2>2, <3>1
      <3>3. \A k \in 1 .. Len(pre) : At((b + 4) + k - 1) = pre[k]
        <4>1. /\ (b + 4) + 1 - 1 = b + 4 /\ (b + 4) + 2 - 1 = b + 5 /\ (b + 4) + 3 - 1 = b + 6
              /\ 1 .. Len(pre) = {1, 2, 3}
          BY <1>1, <3>1
        <4> QED  BY <2>3, <3>1, <4>1
      <3>4. /\ r \in Records /\ LaidOut(r) /\ Complete(r) /\ pre \in Seq(Int) /\ b + 4 \in Nat /\ n \in Nat
            /\ n = Len(pre) + r.len /\ (b + 4) + Len(pre) = Ptr(r)
            /\ \A k \in 1 .. Len(pre) : At((b + 4) + k - 1) = pre[k]
        BY <2>4, <3>1, <3>2, <3>3
      <3> HIDE DEF pre, n, b
      <3> QED  BY <3>4, PayloadRead, Zenon
    <2>7. Content(r) = [type |-> RTD_TEXT, body |-> pre \o [k \in 1 .. r.len |-> Char(r, k - 1)]]
      BY <1>0, <1>3 DEF Content
    <2> HIDE DEF pre, n, b
    <2> QED  BY <2>3, <2>5, <2>6, <2>7, OnTag
  <1>4. CASE r.type = RTD_TEXT /\ ~(r.len < 253)
    <2> DEFINE b == Base(r)
               n == r.len + 3
               pre == <<2, 101, 110>>
               high == n \div 256
               low == n % 256
    <2>1. Bytes(r) = <<193, 1, 0, 0, high, low, RTD_TEXT, 2, 101, 110>>
      BY <1>0, <1>4, Forms DEF Bytes, LongText
    <2>0. n \in Nat  BY <1>0
    <2>8. n = 256 * high + low /\ high \in Nat /\ low \in 0 .. 255
      <3> HIDE DEF n
      <3> QED  BY <2>0
    <2> HIDE DEF high, low
    <2>2. /\ Len(Bytes(r)) = 10 /\ Bytes(r)[1] = 193 /\ Bytes(r)[2] = 1 /\ Bytes(r)[3] = 0
          /\ Bytes(r)[4] = 0 /\ Bytes(r)[5] = high /\ Bytes(r)[6] = low /\ Bytes(r)[7] = RTD_TEXT
          /\ Bytes(r)[8] = 2 /\ Bytes(r)[9] = 101 /\ Bytes(r)[10] = 110
      BY <2>1
    <2>3. /\ At(b) = 193 /\ At(b + 1) = 1 /\ At(b + 2) = 0 /\ At(b + 3) = 0 /\ At(b + 4) = high
          /\ At(b + 5) = low /\ At(b + 6) = RTD_TEXT /\ At(b + 7) = 2 /\ At(b + 8) = 101 /\ At(b + 9) = 110
      <3>1. /\ b + 1 - 1 = b /\ b + 2 - 1 = b + 1 /\ b + 3 - 1 = b + 2 /\ b + 4 - 1 = b + 3 /\ b + 5 - 1 = b + 4
            /\ b + 6 - 1 = b + 5 /\ b + 7 - 1 = b + 6 /\ b + 8 - 1 = b + 7 /\ b + 9 - 1 = b + 8
            /\ b + 10 - 1 = b + 9
        BY <1>1
      <3>2. {1, 2, 3, 4, 5, 6, 7, 8, 9, 10} \subseteq 1 .. Len(Bytes(r))  BY <2>2
      <3> QED  BY <1>1, <2>2, <3>1, <3>2
    <2>4. high < 256
      <3>1. n < 16 * 255 /\ n \in Nat  BY <1>0, <1>1, <2>2, TagAssumption DEF PageSize
      <3> HIDE DEF n
      <3> QED  BY <2>8, <3>1
    <2>5. FirstRecord = [type |-> At(b + 6), body |-> [k \in 1 .. n |-> At(b + 7 + k - 1)]]
      <3>1. \A k \in 0 .. 6 : At(b + k) < 256
        <4>1. b + 0 = b /\ \A k \in 0 .. 6 : k = 0 \/ k = 1 \/ k = 2 \/ k = 3 \/ k = 4 \/ k = 5 \/ k = 6
          BY <1>1
        <4> QED  BY <2>8, <2>3, <2>4, <4>1 DEF RTD_TEXT
      <3>2. 7 + n = Limit /\ b + 7 + n <= PageSize * (LastPage + 1)
        BY <1>0, <1>1, <2>2, TagAssumption DEF PageSize
      <3>3. ~HasBit(At(b), BIT_SR) /\ HasBit(At(b), BIT_MB)  BY <2>3, Headers
      <3>4. n = BigEndian(b + 2)
        <4>1. b + 2 + 1 = b + 3 /\ b + 2 + 2 = b + 4 /\ b + 2 + 3 = b + 5  BY <1>1
        <4> HIDE DEF n
        <4> QED  BY <2>8, <2>3, <4>1, SMT DEF BigEndian
      <3>5. /\ b \in Nat /\ n \in Nat /\ (b = IF Long THEN 4 ELSE 2) /\ ~HasBit(At(b), BIT_SR)
            /\ n = BigEndian(b + 2) /\ At(0) = NDEF_START_BYTE /\ (\A k \in 0 .. 6 : At(b + k) < 256)
            /\ HasBit(At(b), BIT_MB) /\ At(b + 1) = 1 /\ 7 + n = Limit
            /\ b + 7 + n <= PageSize * (LastPage + 1)
        BY <1>1, <2>0, <2>3, <3>1, <3>2, <3>3, <3>4
      <3> HIDE DEF b, n
      <3> QED  BY <3>5, ReadLong, Zenon
    <2>6. [k \in 1 .. n |-> At(b + 7 + k - 1)] = pre \o [k \in 1 .. r.len |-> Char(r, k - 1)]
      <3>1. pre \in Seq(Int) /\ Len(pre) = 3 /\ pre[1] = 2 /\ pre[2] = 101 /\ pre[3] = 110  OBVIOUS
      <3>2. b + 7 \in Nat /\ (b + 7) + Len(pre) = Ptr(r) /\ n = Len(pre) + r.len
        BY <1>0, <1>1, <2>2, <3>1
      <3>3. \A k \in 1 .. Len(pre) : At((b + 7) + k - 1) = pre[k]
        <4>1. /\ (b + 7) + 1 - 1 = b + 7 /\ (b + 7) + 2 - 1 = b + 8 /\ (b + 7) + 3 - 1 = b + 9
              /\ 1 .. Len(pre) = {1, 2, 3}
          BY <1>1, <3>1
        <4> QED  BY <2>3, <3>1, <4>1
      <3>4. /\ r \in Records /\ LaidOut(r) /\ Complete(r) /\ pre \in Seq(Int) /\ b + 7 \in Nat /\ n \in Nat
            /\ n = Len(pre) + r.len /\ (b + 7) + Len(pre) = Ptr(r)
            /\ \A k \in 1 .. Len(pre) : At((b + 7) + k - 1) = pre[k]
        BY <2>0, <3>1, <3>2, <3>3
      <3> HIDE DEF pre, n, b
      <3> QED  BY <3>4, PayloadRead, Zenon
    <2>7. Content(r) = [type |-> RTD_TEXT, body |-> pre \o [k \in 1 .. r.len |-> Char(r, k - 1)]]
      BY <1>0, <1>4 DEF Content
    <2> HIDE DEF pre, n, b
    <2> QED  BY <2>3, <2>5, <2>6, <2>7, OnTag
  <1> QED  BY <1>0, <1>2, <1>3, <1>4

LEMMA TagReadsBack == TagInv => ReadsBack
  <1> SUFFICES ASSUME TagInv, stored.req.pos = "first", LaidOut(stored.req)
               PROVE  FirstRecord = Content(stored.req) /\ Closed
    BY DEF ReadsBack
  <1>1. stored.req \in Records /\ Complete(stored.req)  BY DEF TagInv
  <1> QED  BY <1>1, StoredIsRead

----------------------------------------------------------------------------
(* The types: what is on the tag and in the buffer are pages of numbers.   *)

Page == [Index -> Nat]
Numbers(c) == /\ c.used \in Nat /\ c.end \in Nat /\ c.mbMe \in Nat /\ c.page \in Nat /\ c.added \in Nat
              /\ c.pc = "idle" \/ c.req.pos = "first" => c.end = 0 /\ c.page \in 0 .. LastPage + 1
              /\ c.pc = "firstPage" /\ c.req.pos = "first" => c.page = 0
              /\ c.pc = "splitWrite" => c.used < PageSize
TagNumbers ==
    /\ \A p \in 0 .. LastPage : tag[p] \in Page
    /\ nfcPageBuffer \in Page /\ Numbers(call)

LEMMA ZeroPage == Zero \in Page /\ [Zero EXCEPT ![0] = NDEF_START_BYTE] \in Page
  BY DEF Zero, Page, Index, PageSize, NDEF_START_BYTE

LEMMA Overlaid ==
    ASSUME NEW page \in Page, NEW at \in Nat, NEW bytes \in Seq(Nat)
    PROVE  Overlay(page, at, bytes) \in Page
  <1>1. ASSUME NEW k \in Index PROVE (IF k - at \in 0 .. Len(bytes) - 1 THEN bytes[k - at + 1] ELSE page[k]) \in Nat
    <2>1. CASE k - at \in 0 .. Len(bytes) - 1
      <3>1. k - at + 1 \in 1 .. Len(bytes)  BY <2>1
      <3> QED  BY <2>1, <3>1, ElementOfSeq
    <2>2. CASE k - at \notin 0 .. Len(bytes) - 1  BY <2>2 DEF Page
    <2> QED  BY <2>1, <2>2
  <1> QED  BY <1>1 DEF Overlay, Page

LEMMA Filled ==
    ASSUME NEW r \in Records, NEW page \in Page, NEW ptr \in Nat
    PROVE  Fill(r, page, ptr) \in Page
  <1>0. r.len \in Nat /\ r.id \in Nat  BY RecordFields
  <1>1. ASSUME NEW k \in Index PROVE Fill(r, page, ptr)[k] \in Nat
    <2>0. k \in Nat /\ page[k] \in Nat  BY DEF Index, PageSize, Page
    <2>1. CASE ~(k < ptr) /\ k - ptr < r.len
      <3>1. Char(r, k - ptr) \in Nat  BY <1>0, <2>0, <2>1 DEF Char
      <3> QED  BY <2>1, <3>1 DEF Fill
    <2>2. CASE k < ptr \/ ~(k - ptr < r.len)  BY <2>0, <2>2 DEF Fill, NDEF_END_BYTE
    <2> QED  BY <2>0, <2>1, <2>2
  <1>2. Fill(r, page, ptr) = [k \in Index |-> Fill(r, page, ptr)[k]]  BY DEF Fill
  <1> HIDE DEF Fill
  <1> QED  BY <1>1, <1>2 DEF Page

LEMMA Chunked ==
    ASSUME NEW r \in Records, NEW added \in Nat
    PROVE  Chunk(r, added) \in Page
  <1>0. r.len \in Nat /\ r.id \in Nat  BY RecordFields
  <1>1. ASSUME NEW k \in Index PROVE Chunk(r, added)[k] \in Nat
    <2>0. k \in Nat  BY DEF Index, PageSize
    <2>1. Char(r, added + k) \in Nat  BY <1>0, <2>0 DEF Char
    <2> QED  BY <2>1 DEF Chunk, NDEF_END_BYTE
  <1>2. Chunk(r, added) = [k \in Index |-> Chunk(r, added)[k]]  BY DEF Chunk
  <1> QED  BY <1>1, <1>2 DEF Page

\* The header bits.
LEMMA Bits128 == ASSUME NEW h \in Nat PROVE Set(h, 128) \in Nat /\ Clear(h, 128) \in Nat
  <1>1. HasBit(h, 128) => h >= 128  BY DEF HasBit
  <1> QED  BY <1>1 DEF Set, Clear
LEMMA Bits64 == ASSUME NEW h \in Nat PROVE Set(h, 64) \in Nat /\ Clear(h, 64) \in Nat
  <1>1. HasBit(h, 64) => h >= 64  BY DEF HasBit
  <1> QED  BY <1>1 DEF Set, Clear
LEMMA Bits16 == ASSUME NEW h \in Nat PROVE Set(h, 16) \in Nat
  BY DEF Set

LEMMA MBME == ASSUME NEW first, NEW last, NEW h \in Nat PROVE composeNDEFMBME(first, last, h) \in Nat
  <1> DEFINE mb == IF first THEN Set(h, BIT_MB) ELSE Clear(h, BIT_MB)
  <1>1. mb \in Nat  BY Bits128 DEF BIT_MB
  <1> HIDE DEF mb
  <1>2. (IF last THEN Set(mb, BIT_ME) ELSE Clear(mb, BIT_ME)) \in Nat  BY <1>1, Bits64 DEF BIT_ME
  <1> QED  BY <1>2 DEF composeNDEFMBME, mb

LEMMA Composed ==
    ASSUME NEW r \in Records, NEW h \in Nat
    PROVE  Compose(r, h) \in Seq(Nat) /\ Len(Compose(r, h)) \in {5, 7, 10}
  <1>0. r.len \in Nat /\ r.type \in {RTD_TEXT, RTD_URI}  BY RecordFields
  <1>1. Set(h + 1, BIT_SR) \in Nat  BY Bits16 DEF BIT_SR
  <1> DEFINE head == Set(h + 1, BIT_SR)
             high == (r.len + 3) \div 256
             low == (r.len + 3) % 256
             uri == (r.len + 1) % 256
  <1>2. head \in Nat /\ high \in Nat /\ low \in Nat /\ uri \in Nat /\ RTD_TEXT \in Nat /\ RTD_URI \in Nat
    BY <1>0, <1>1 DEF RTD_TEXT, RTD_URI
  <1>3. Compose(r, h) = IF r.type = RTD_TEXT
                        THEN IF r.len + 3 > 255
                             THEN <<193, 1, 0, 0, high, low, RTD_TEXT, 2, 101, 110>>
                             ELSE <<head, 1, r.len + 3, RTD_TEXT, 2, 101, 110>>
                        ELSE <<head, 1, uri, RTD_URI, 1>>
    BY DEF Compose, composeRtdText, composeRtdUri
  <1> HIDE DEF head, high, low, uri
  <1> QED  BY <1>0, <1>2, <1>3

LEMMA FirstPageNumbers ==
    ASSUME NEW r \in Records
    PROVE  HeaderPage(r) \in Page /\ Ptr(r) \in 7 .. 14
  <1> DEFINE h == composeNDEFMBME(TRUE, TRUE, 0)
             bytes == Compose(r, h)
             total == r.len + Len(bytes)
             start == [Zero EXCEPT ![0] = NDEF_START_BYTE]
             at == IF r.len > 248 THEN 4 ELSE 2
             page == Overlay(start, at, bytes)
             high == total \div 256
             low == total % 256
  <1>1. firstRecord(r) = IF total > 255
                         THEN [page |-> [page EXCEPT ![1] = 255, ![2] = high, ![3] = low], ptr |-> 4 + Len(bytes)]
                         ELSE [page |-> [page EXCEPT ![1] = total], ptr |-> 2 + Len(bytes)]
    BY DEF firstRecord
  <1>2. h \in Nat  BY MBME
  <1> HIDE DEF h
  <1>3. bytes \in Seq(Nat) /\ Len(bytes) \in {5, 7, 10}  BY <1>2, Composed
  <1> HIDE DEF bytes
  <1>4. total \in Nat  BY <1>3, RecordFields
  <1> HIDE DEF total
  <1>5. high \in Nat /\ low \in Nat  BY <1>4
  <1>6. start \in Page /\ at \in Nat  BY ZeroPage
  <1> HIDE DEF start, at
  <1>7. page \in Page  BY <1>3, <1>6, Overlaid
  <1> HIDE DEF page, high, low
  <1> DEFINE long == [page EXCEPT ![1] = 255, ![2] = high, ![3] = low]
             short == [page EXCEPT ![1] = total]
  <1>8. short \in Page  BY <1>4, <1>7 DEF Page
  <1>9. long \in Page
    <2>1. DOMAIN page = Index /\ \A k \in Index : page[k] \in Nat  BY <1>7 DEF Page
    <2>2. DOMAIN long = Index /\ long = [k \in Index |-> long[k]]  BY <2>1
    <2>3. long[1] = 255 /\ long[2] = high /\ long[3] = low /\ \A k \in Index \ {1, 2, 3} : long[k] = page[k]
      <3> DEFINE a == 255
      <3>1. long = [page EXCEPT ![1] = a, ![2] = high, ![3] = low]  OBVIOUS
      <3> HIDE DEF a, long
      <3>2. {1, 2, 3} \subseteq Index  BY DEF Index, PageSize
      <3>3. long[1] = a /\ long[2] = high /\ long[3] = low  BY <2>1, <3>1, <3>2
      <3>4. \A k \in Index \ {1, 2, 3} : long[k] = page[k]  BY <2>1, <3>1
      <3> QED  BY <3>3, <3>4 DEF a
    <2> HIDE DEF long
    <2>4. \A k \in Index : long[k] \in Nat
      <3>1. \A k \in Index : k = 1 \/ k = 2 \/ k = 3 \/ k \in Index \ {1, 2, 3}  OBVIOUS
      <3> QED  BY <1>5, <2>1, <2>3, <3>1
    <2> QED  BY <2>2, <2>4 DEF Page
  <1> HIDE DEF long, short
  <1>10. CASE total > 255
    <2>1. HeaderPage(r) = long /\ Ptr(r) = 4 + Len(bytes)  BY <1>1, <1>10 DEF HeaderPage, Ptr, long
    <2>2. \A n \in {5, 7, 10} : 4 + n \in 7 .. 14  OBVIOUS
    <2> QED  BY <1>3, <1>9, <2>1, <2>2
  <1>11. CASE ~(total > 255)
    <2>1. HeaderPage(r) = short /\ Ptr(r) = 2 + Len(bytes)  BY <1>1, <1>11 DEF HeaderPage, Ptr, short
    <2>2. \A n \in {5, 7, 10} : 2 + n \in 7 .. 14  OBVIOUS
    <2> QED  BY <1>3, <1>8, <2>1, <2>2
  <1> QED  BY <1>10, <1>11

LEMMA NewBytesNumbers ==
    ASSUME NEW r \in Records
    PROVE  NewBytes(r) \in Seq(Nat) /\ Len(NewBytes(r)) \in {5, 7, 10}
  <1> DEFINE bytes == Compose(r, 0)
             rest == Tail(bytes)
  <1>1. bytes \in Seq(Nat) /\ Len(bytes) \in {5, 7, 10}  BY Composed
  <1> HIDE DEF bytes
  <1>2. bytes # <<>>
    <2>1. \A n \in {5, 7, 10} : n # 0  OBVIOUS
    <2>2. Len(<<>>) = 0  OBVIOUS
    <2> QED  BY <1>1, <2>1, <2>2, Zenon
  <1>3. rest \in Seq(Nat) /\ Len(rest) = Len(bytes) - 1  BY <1>1, <1>2, HeadTailProperties
  <1> HIDE DEF rest
  <1>4. HeaderAfter(r, 0) \in Nat
    <2>1. Set(1, BIT_SR) \in Nat  BY Bits16 DEF BIT_SR
    <2> QED  BY <2>1 DEF HeaderAfter
  <1>5. NewHeader(r) \in Nat  BY <1>4, MBME DEF NewHeader
  <1>6. <<NewHeader(r)>> \in Seq(Nat) /\ Len(<<NewHeader(r)>>) = 1  BY <1>5
  <1>7. PICK head : head = <<NewHeader(r)>>  OBVIOUS
  <1>8. NewBytes(r) = head \o rest  BY <1>7 DEF NewBytes, rest, bytes
  <1>9. head \in Seq(Nat) /\ Len(head) = 1  BY <1>6, <1>7
  <1>10. head \o rest \in Seq(Nat) /\ Len(head \o rest) = Len(head) + Len(rest)
    BY <1>3, <1>9, ConcatProperties
  <1>11. \A n \in {5, 7, 10} : 1 + (n - 1) = n  OBVIOUS
  <1>12. Len(NewBytes(r)) = 1 + (Len(bytes) - 1)  BY <1>3, <1>8, <1>9, <1>10
  <1> QED  BY <1>1, <1>8, <1>10, <1>11, <1>12

\* A page that is written, and the numbers of a call.
LEMMA WrittenNumbers ==
    ASSUME DOMAIN tag = 0 .. LastPage, TagNumbers, NEW page, NEW bytes \in Page, NEW ok,
           NT3HWriteUserData(page, bytes, ok)
    PROVE  \A p \in 0 .. LastPage : tag'[p] \in Page
  BY DEF NT3HWriteUserData, TagNumbers

LEMMA ReadNumbers ==
    ASSUME TagNumbers, NEW page \in Nat, NEW ok, NT3HReadUserData(page, ok)
    PROVE  nfcPageBuffer' \in Page
  <1>1. LastPage \in Nat  BY TagAssumption
  <1> QED  BY <1>1 DEF NT3HReadUserData, TagNumbers

LEMMA IdleNumbers == Numbers(Idle)
  BY TagAssumption DEF Numbers, Idle

LEMMA NotedNumbers ==
    ASSUME NEW c, CallOK(c), NEW ok \in BOOLEAN
    PROVE  /\ Note(c, ok).used = c.used /\ Note(c, ok).end = c.end /\ Note(c, ok).mbMe = c.mbMe
           /\ Note(c, ok).pc = c.pc /\ Note(c, ok).was = c.was
  BY DEF CallOK, Note, Fields

LEMMA StartedNumbers ==
    ASSUME NEW o, CallOK(o), Numbers(o), o.req \in Records, NEW page \in Page, NEW ptr \in 0 .. 16,
           o.req.pos = "first" => o.end = 0 /\ o.page = 0,
           StartPayload(o, page, ptr)
    PROVE  nfcPageBuffer' \in Page /\ Numbers(call')
  <1>1. nfcPageBuffer' \in Page  BY Filled DEF StartPayload
  <1> DEFINE added == PageSize - ptr
  <1>2. added \in Nat  BY DEF PageSize
  <1>3. call' = [o EXCEPT !.pc = "firstPage", !.added = added]  BY DEF StartPayload
  <1> HIDE DEF added
  <1>4. Numbers(call')  BY <1>2, <1>3, TagAssumption DEF CallOK, Fields, Numbers
  <1> QED  BY <1>1, <1>4

LEMMA StoreNumbers == ASSUME TagInv, TagNumbers, NEW r \in Records, Store(r) PROVE TagNumbers'
  <1>1. tag' = tag  BY DEF Store
  <1>2. CASE r.pos = "first"
    <2> DEFINE o == [Idle EXCEPT !.req = r]
    <2>1. StartPayload(o, HeaderPage(r), Ptr(r))  BY <1>2 DEF Store, HeaderPage, Ptr
    <2>2. CallOK(o) /\ Numbers(o) /\ o.req = r /\ o.end = 0 /\ o.page = 0
      BY TagAssumption DEF CallOK, Fields, Numbers, Idle
    <2> HIDE DEF o
    <2>3. HeaderPage(r) \in Page /\ Ptr(r) \in 0 .. 16  BY FirstPageNumbers
    <2>4. nfcPageBuffer' \in Page /\ Numbers(call')  BY <2>1, <2>2, <2>3, StartedNumbers
    <2> QED  BY <1>1, <2>4 DEF TagNumbers, Numbers
  <1>3. CASE r.pos # "first"
    <2> DEFINE o == [Idle EXCEPT !.req = r, !.pc = "readEnd", !.was = FirstRecord]
    <2>1. call' = o /\ nfcPageBuffer' = nfcPageBuffer  BY <1>3 DEF Store
    <2>2. Numbers(o)  BY <1>3, TagAssumption DEF Numbers, Idle
    <2> HIDE DEF o
    <2> QED  BY <1>1, <2>1, <2>2 DEF TagNumbers, Numbers
  <1> QED  BY <1>2, <1>3

LEMMA Returns ==
    ASSUME NEW o, NEW result, Return(o, result)
    PROVE  Numbers(call')
  BY IdleNumbers DEF Return

LEMMA WriteFirstNumbers ==
    ASSUME TagInv, TagNumbers, NEW ok \in BOOLEAN, WriteFirstPage(ok) PROVE TagNumbers'
  <1>0. CallOK(call) /\ DOMAIN tag = 0 .. LastPage /\ call.pc = "firstPage" /\ Numbers(call)
        /\ nfcPageBuffer \in Page /\ nfcPageBuffer' = nfcPageBuffer
    BY DEF TagInv, TagNumbers, WriteFirstPage
  <1>1. \A p \in 0 .. LastPage : tag'[p] \in Page  BY <1>0, WrittenNumbers DEF WriteFirstPage
  <1>2. Numbers(call')
    <2>1. CASE Return(Note(call, ok), Written(ok))  BY <2>1, Returns
    <2>2. CASE call' = [Note(call, ok) EXCEPT !.pc = "nextPage", !.page = @ + 1]
      <3>1. /\ CallOK(Note(call, ok)) /\ Note(call, ok).req = call.req
            /\ Note(call, ok).page = call.page /\ Note(call, ok).added = call.added
            /\ Note(call, ok).used = call.used /\ Note(call, ok).end = call.end /\ Note(call, ok).mbMe = call.mbMe
        BY <1>0, Noted, NotedNumbers
      <3> DEFINE next == call.page + 1
      <3>2. call' = [Note(call, ok) EXCEPT !.pc = "nextPage", !.page = next]  BY <2>2, <3>1
      <3>3. next \in Nat /\ (call.req.pos = "first" => next \in 0 .. LastPage + 1)
        <4>1. call.page \in Nat  BY <1>0 DEF Numbers
        <4>2. call.req.pos = "first" => call.page = 0  BY <1>0 DEF Numbers
        <4> QED  BY <4>1, <4>2, TagAssumption
      <3> HIDE DEF next
      <3> QED  BY <1>0, <3>1, <3>2, <3>3 DEF Numbers, CallOK, Fields
    <2> QED  BY <2>1, <2>2 DEF WriteFirstPage
  <1> QED  BY <1>0, <1>1, <1>2 DEF TagNumbers, Numbers

LEMMA WriteNextNumbers ==
    ASSUME TagInv, TagNumbers, NEW ok \in BOOLEAN, WriteNextPage(ok) PROVE TagNumbers'
  <1>0. CallOK(call) /\ DOMAIN tag = 0 .. LastPage /\ call.pc = "nextPage" /\ Numbers(call)
        /\ nfcPageBuffer' = Chunk(call.req, call.added) /\ call.req \in Records
    BY DEF TagInv, TagNumbers, WriteNextPage
  <1>1. nfcPageBuffer' \in Page /\ call.added \in Nat  BY <1>0, Chunked DEF Numbers
  <1>2. \A p \in 0 .. LastPage : tag'[p] \in Page  BY <1>0, <1>1, WrittenNumbers DEF WriteNextPage
  <1>3. Numbers(call')
    <2>1. CASE Return(Note(call, ok), Written(ok))  BY <2>1, Returns
    <2>2. CASE Written(ok) /\ call' = [call EXCEPT !.page = @ + 1, !.added = @ + PageSize]
      <3> DEFINE next == call.page + 1
                 sum == call.added + PageSize
      <3>1. call' = [call EXCEPT !.page = next, !.added = sum]  BY <1>0, <2>2
      <3>2. next \in 0 .. LastPage + 1 /\ sum \in Nat
        <4>1. call.page <= LastPage  BY <2>2 DEF Written
        <4>2. call.page \in Nat /\ call.added \in Nat  BY <1>0 DEF Numbers
        <4> QED  BY <4>1, <4>2, TagAssumption DEF PageSize
      <3> HIDE DEF next, sum
      <3>3. next \in Nat  BY <3>2, TagAssumption
      <3> QED  BY <1>0, <3>1, <3>2, <3>3 DEF Numbers, CallOK, Fields
    <2> QED  BY <2>1, <2>2 DEF WriteNextPage
  <1> QED  BY <1>1, <1>2, <1>3 DEF TagNumbers, Numbers

LEMMA HeaderNumbers ==
    ASSUME NEW c, CallOK(c), Numbers(c), NEW page \in Page, NEW ok, NEW o \in HeaderRead(c, page, ok),
           c.pc # "idle", c.req.pos # "first"
    PROVE  Numbers(o) /\ o.pc = c.pc /\ o.was = c.was /\ o.clean = c.clean /\ o.page = c.page /\ o.used = c.used
  <1>1. CASE ok /\ page[0] = NDEF_START_BYTE /\ page[2] # NTAG_ERASED
    <2> DEFINE e == page[1]
               h == page[2]
    <2>1. o = [c EXCEPT !.end = e, !.mbMe = h]  BY <1>1 DEF HeaderRead
    <2>2. e \in Nat /\ h \in Nat  BY DEF Page, Index, PageSize
    <2> HIDE DEF e, h
    <2> QED  BY <2>1, <2>2 DEF CallOK, Fields, Numbers
  <1>2. CASE ~(ok /\ page[0] = NDEF_START_BYTE /\ page[2] # NTAG_ERASED)
    <2>1. o \in {[c EXCEPT !.end = 0, !.mbMe = g] : g \in {0, 255}}  BY <1>2 DEF HeaderRead
    <2>2. PICK g \in {0, 255} : o = [c EXCEPT !.end = 0, !.mbMe = g]  BY <2>1
    <2>3. g \in Nat  BY <2>2
    <2> QED  BY <2>2, <2>3 DEF CallOK, Fields, Numbers
  <1> QED  BY <1>1, <1>2

LEMMA WhereEnds == ASSUME NEW end \in Nat PROVE EndPage(end) \in Nat /\ UsedBytes(end) \in Nat
  BY DEF EndPage, UsedBytes, PageSize

LEMMA ReadsNumbers ==
    ASSUME TagInv, TagNumbers, NEW ok \in BOOLEAN, ReadEnd(ok) \/ ReadHeader(ok)
    PROVE  TagNumbers'
  <1>0. /\ CallOK(call) /\ Numbers(call) /\ tag[0] \in Page /\ call.pc # "idle" /\ call.req.pos # "first"
        /\ NT3HReadUserData(0, ok)
    <2>1. CallOK(call) /\ Numbers(call)  BY DEF TagInv, TagNumbers
    <2>2. tag[0] \in Page  BY TagAssumption DEF TagNumbers
    <2>3. call.pc \in {"readEnd", "readHeader"} /\ NT3HReadUserData(0, ok)  BY DEF ReadEnd, ReadHeader
    <2>4. call.pc # "idle" /\ call.req.pos # "first"  BY <2>3 DEF TagInv
    <2> QED  BY <2>1, <2>2, <2>3, <2>4
  <1>1. /\ CallOK(Note(call, ok)) /\ Numbers(Note(call, ok)) /\ Note(call, ok).req = call.req
        /\ Note(call, ok).pc = call.pc
    BY <1>0, Noted, NotedNumbers DEF Numbers
  <1>2. nfcPageBuffer' \in Page  BY <1>0, ReadNumbers
  <1>3. CASE ReadEnd(ok)
    <2>1. PICK o \in HeaderRead(Note(call, ok), tag[0], ok) :
            call' = [o EXCEPT !.pc = "readHeader", !.page = EndPage(o.end), !.used = UsedBytes(o.end)]
      BY <1>3 DEF ReadEnd
    <2>2. CallOK(o) /\ o.req = call.req /\ Numbers(o)  BY <1>0, <1>1, <2>1, Header, HeaderNumbers
    <2>3. EndPage(o.end) \in Nat /\ UsedBytes(o.end) \in Nat  BY <2>2, WhereEnds DEF Numbers
    <2>4. Numbers(call')  BY <1>0, <2>1, <2>2, <2>3 DEF Numbers, CallOK, Fields
    <2>5. tag' = tag  BY <1>3 DEF ReadEnd
    <2> QED  BY <1>2, <2>4, <2>5 DEF TagNumbers, Numbers
  <1>4. CASE ReadHeader(ok)
    <2>1. PICK o \in HeaderRead(Note(call, ok), tag[0], ok) :
            call' = [o EXCEPT !.pc = "rewriteRead", !.mbMe = composeNDEFMBME(TRUE, FALSE, @)]
      BY <1>4 DEF ReadHeader
    <2>2. CallOK(o) /\ o.req = call.req /\ Numbers(o)  BY <1>0, <1>1, <2>1, Header, HeaderNumbers
    <2> DEFINE h == composeNDEFMBME(TRUE, FALSE, o.mbMe)
    <2>3. h \in Nat  BY <2>2, MBME DEF Numbers
    <2>4. call' = [o EXCEPT !.pc = "rewriteRead", !.mbMe = h]  BY <2>1
    <2> HIDE DEF h
    <2>5. Numbers(call')  BY <1>0, <2>2, <2>3, <2>4 DEF Numbers, CallOK, Fields
    <2>6. tag' = tag  BY <1>4 DEF ReadHeader
    <2> QED  BY <1>2, <2>5, <2>6 DEF TagNumbers, Numbers
  <1> QED  BY <1>3, <1>4

LEMMA RewriteNumbers ==
    ASSUME TagInv, TagNumbers, NEW ok \in BOOLEAN, RewriteRead(ok) \/ RewriteWrite(ok)
    PROVE  TagNumbers'
  <1>0. /\ CallOK(call) /\ Numbers(call) /\ DOMAIN tag = 0 .. LastPage /\ nfcPageBuffer \in Page
        /\ call.req \in Records /\ call.pc # "idle" /\ call.req.pos # "first"
    <2>1. call.pc \in {"rewriteRead", "rewriteWrite"}  BY DEF RewriteRead, RewriteWrite
    <2> QED  BY <2>1 DEF TagInv, TagNumbers
  <1>1. /\ CallOK(Note(call, ok)) /\ Note(call, ok).req = call.req /\ Numbers(Note(call, ok))
    BY <1>0, Noted, NotedNumbers DEF Numbers
  <1>2. ASSUME NEW where \in {"rewriteWrite", "readLast"}, call' = [Note(call, ok) EXCEPT !.pc = where]
        PROVE  Numbers(call')
    BY <1>0, <1>1, <1>2 DEF CallOK, Fields, Numbers
  <1>3. CASE RewriteRead(ok)
    <2>1. call' = [Note(call, ok) EXCEPT !.pc = "rewriteWrite"] \/ call' = [Note(call, ok) EXCEPT !.pc = "readLast"]
      BY <1>3 DEF RewriteRead
    <2>2. Numbers(call')  BY <1>2, <2>1
    <2>3. NT3HReadUserData(0, ok) /\ tag' = tag  BY <1>3 DEF RewriteRead
    <2>4. nfcPageBuffer' \in Page  BY <2>3, ReadNumbers
    <2> QED  BY <2>2, <2>3, <2>4 DEF TagNumbers, Numbers
  <1>4. CASE RewriteWrite(ok)
    <2> DEFINE sum == (call.end + call.req.len + Len(NewBytes(call.req))) % 256
               mbMe == call.mbMe
               page == [nfcPageBuffer EXCEPT ![1] = sum, ![2] = mbMe]
    <2>1. nfcPageBuffer' = page /\ NT3HWriteUserData(0, nfcPageBuffer', ok)  BY <1>4 DEF RewriteWrite
    <2>2. sum \in Nat /\ mbMe \in Nat
      <3>1. call.end \in Nat /\ call.req.len \in Nat /\ Len(NewBytes(call.req)) \in Nat /\ mbMe \in Nat
        BY <1>0, RecordFields, NewBytesNumbers DEF Numbers
      <3> QED  BY <3>1
    <2> HIDE DEF sum, mbMe
    <2>3. page \in Page  BY <1>0, <2>2 DEF Page
    <2> HIDE DEF page
    <2>4. \A p \in 0 .. LastPage : tag'[p] \in Page  BY <1>0, <2>1, <2>3, WrittenNumbers
    <2>5. call' = [Note(call, ok) EXCEPT !.pc = "readLast"]  BY <1>4 DEF RewriteWrite
    <2>6. Numbers(call')  BY <1>2, <2>5
    <2> QED  BY <2>1, <2>3, <2>4, <2>6 DEF TagNumbers, Numbers
  <1> QED  BY <1>3, <1>4

LEMMA Part ==
    ASSUME NEW bytes \in Seq(Nat), Len(bytes) \in {5, 7, 10}, NEW m \in Nat
    PROVE  /\ ~(Len(bytes) < PageSize - m) => SubSeq(bytes, 1, PageSize - m) \in Seq(Nat)
           /\ m < PageSize => SubSeq(bytes, PageSize - m + 1, Len(bytes)) \in Seq(Nat)
           /\ m < PageSize => Len(SubSeq(bytes, PageSize - m + 1, Len(bytes))) \in 0 .. 10
  <1>0. Len(bytes) \in Nat /\ Len(bytes) <= 10
    <2>1. \A n \in {5, 7, 10} : n \in Nat /\ n <= 10  OBVIOUS
    <2> QED  BY <2>1
  <1>1. \A i \in 1 .. Len(bytes) : bytes[i] \in Nat  BY ElementOfSeq
  <1>2. ASSUME ~(Len(bytes) < PageSize - m) PROVE SubSeq(bytes, 1, PageSize - m) \in Seq(Nat)
    <2> DEFINE to == PageSize - m
    <2>1. to \in Int /\ to <= Len(bytes)  BY <1>0, <1>2 DEF PageSize
    <2> HIDE DEF to
    <2>2. \A i \in 1 .. to : bytes[i] \in Nat  BY <1>0, <1>1, <2>1
    <2>3. SubSeq(bytes, 1, to) \in Seq(Nat)  BY <2>1, <2>2, SubSeqProperties
    <2> QED  BY <2>3 DEF to
  <1>3. ASSUME m < PageSize
        PROVE  /\ SubSeq(bytes, PageSize - m + 1, Len(bytes)) \in Seq(Nat)
               /\ Len(SubSeq(bytes, PageSize - m + 1, Len(bytes))) \in 0 .. 10
    <2> DEFINE from == PageSize - m + 1
    <2>1. from \in Nat /\ 1 <= from  BY <1>3 DEF PageSize
    <2> HIDE DEF from
    <2>2. \A i \in from .. Len(bytes) : bytes[i] \in Nat  BY <1>0, <1>1, <2>1
    <2>3. /\ SubSeq(bytes, from, Len(bytes)) \in Seq(Nat)
          /\ Len(SubSeq(bytes, from, Len(bytes))) = IF from <= Len(bytes) THEN Len(bytes) - from + 1 ELSE 0
      BY <1>0, <2>1, <2>2, SubSeqProperties
    <2>4. (IF from <= Len(bytes) THEN Len(bytes) - from + 1 ELSE 0) \in 0 .. 10
      <3>1. PICK n : n = Len(bytes)  OBVIOUS
      <3>2. n \in Nat /\ n <= 10 /\ from \in Nat /\ 1 <= from  BY <1>0, <2>1, <3>1
      <3>3. (IF from <= n THEN n - from + 1 ELSE 0) \in 0 .. 10  BY <3>2
      <3> QED  BY <3>1, <3>3
    <2>5. Len(SubSeq(bytes, from, Len(bytes))) \in 0 .. 10  BY <2>3, <2>4, Zenon
    <2> QED  BY <2>3, <2>5 DEF from
  <1> QED  BY <1>2, <1>3

LEMMA ReadLastNumbers == ASSUME TagInv, TagNumbers, NEW ok \in BOOLEAN, ReadLast(ok) PROVE TagNumbers'
  <1> DEFINE can == ok /\ call.page <= LastPage
             o == Note(call, can)
             bytes == NewBytes(call.req)
             page == IF can THEN tag[call.page] ELSE nfcPageBuffer
             most == SubSeq(bytes, 1, PageSize - call.used)
  <1>0. /\ CallOK(call) /\ Numbers(call) /\ nfcPageBuffer \in Page
        /\ call.req \in Records /\ call.pc # "idle" /\ call.req.pos # "first" /\ tag' = tag
    <2>1. call.pc = "readLast" /\ tag' = tag  BY DEF ReadLast
    <2> QED  BY <2>1 DEF TagInv, TagNumbers
  <1>1. CallOK(o) /\ o.req = call.req /\ Numbers(o) /\ o.req.pos # "first"
    <2>1. can \in BOOLEAN  OBVIOUS
    <2> HIDE DEF can
    <2> QED  BY <1>0, <2>1, Noted, NotedNumbers DEF Numbers
  <1>2. bytes \in Seq(Nat) /\ Len(bytes) \in {5, 7, 10}  BY <1>0, NewBytesNumbers
  <1>3. page \in Page /\ call.used \in Nat /\ call.page \in Nat
    BY <1>0, TagAssumption DEF TagNumbers, Numbers
  <1>4. \/ call' = [o EXCEPT !.pc = "fault"] /\ nfcPageBuffer' = nfcPageBuffer
        \/ /\ call.used + Len(bytes) < PageSize
           /\ StartPayload(o, Overlay(page, call.used, bytes), call.used + Len(bytes))
        \/ /\ ~(call.used + Len(bytes) < PageSize) /\ ~(call.used >= PageSize)
           /\ nfcPageBuffer' = Overlay(page, call.used, most) /\ call' = [o EXCEPT !.pc = "splitWrite"]
    BY DEF ReadLast
  <1> HIDE DEF o, page, bytes
  <1>5. CASE call' = [o EXCEPT !.pc = "fault"] /\ nfcPageBuffer' = nfcPageBuffer
    <2>1. Numbers(call')  BY <1>1, <1>5 DEF CallOK, Fields, Numbers
    <2> QED  BY <1>0, <1>5, <2>1 DEF TagNumbers, Numbers
  <1>6. CASE /\ call.used + Len(bytes) < PageSize
             /\ StartPayload(o, Overlay(page, call.used, bytes), call.used + Len(bytes))
    <2>1. call.used + Len(bytes) \in 0 .. 16
      <3>1. PICK n : n = Len(bytes)  OBVIOUS
      <3>2. PICK m : m = call.used  OBVIOUS
      <3>3. \A i \in {5, 7, 10} : i \in Nat  OBVIOUS
      <3>4. n \in Nat /\ m \in Nat /\ m + n < 16  BY <1>2, <1>3, <1>6, <3>1, <3>2, <3>3 DEF PageSize
      <3>5. m + n \in 0 .. 16  BY <3>4
      <3> QED  BY <3>1, <3>2, <3>5
    <2>2. Overlay(page, call.used, bytes) \in Page  BY <1>2, <1>3, Overlaid
    <2>3. nfcPageBuffer' \in Page /\ Numbers(call')
      <3> DEFINE at == call.used + Len(bytes)
                 over == Overlay(page, call.used, bytes)
      <3>1. at \in 0 .. 16 /\ over \in Page /\ StartPayload(o, over, at)  BY <1>6, <2>1, <2>2
      <3> HIDE DEF at, over
      <3> QED  BY <1>0, <1>1, <3>1, StartedNumbers
    <2> QED  BY <1>0, <2>3 DEF TagNumbers, Numbers
  <1>7. CASE /\ ~(call.used + Len(bytes) < PageSize) /\ ~(call.used >= PageSize)
             /\ nfcPageBuffer' = Overlay(page, call.used, most) /\ call' = [o EXCEPT !.pc = "splitWrite"]
    <2>0. o.used < PageSize
      <3>1. o.used = call.used  BY <1>0, NotedNumbers DEF o
      <3> QED  BY <1>3, <1>7, <3>1 DEF PageSize
    <2>1. Numbers(call')  BY <1>1, <1>7, <2>0 DEF CallOK, Fields, Numbers
    <2>2. most \in Seq(Nat)
      <3>1. ~(Len(bytes) < PageSize - call.used)
        <4>1. \A n \in {5, 7, 10} : n \in Nat  OBVIOUS
        <4> QED  BY <1>2, <1>3, <1>7, <4>1 DEF PageSize
      <3> QED  BY <1>2, <1>3, <3>1, Part
    <2> HIDE DEF most
    <2>3. nfcPageBuffer' \in Page  BY <1>3, <1>7, <2>2, Overlaid
    <2> QED  BY <1>0, <2>1, <2>3 DEF TagNumbers, Numbers
  <1> QED  BY <1>4, <1>5, <1>6, <1>7

\* In a split the first part of the new record's header does not fit its page.
LEMMA SplitNumbers ==
    ASSUME TagInv, TagNumbers, NEW ok \in BOOLEAN, SplitWrite(ok) PROVE TagNumbers'
  <1> DEFINE next == call.page + 1
             o == [Note(call, ok) EXCEPT !.page = next]
             bytes == NewBytes(call.req)
             rest == SubSeq(bytes, PageSize - call.used + 1, Len(bytes))
             page == Overlay(nfcPageBuffer, 0, rest)
  <1>0. /\ CallOK(call) /\ Numbers(call) /\ nfcPageBuffer \in Page /\ DOMAIN tag = 0 .. LastPage
        /\ call.req \in Records /\ call.pc # "idle" /\ call.req.pos # "first"
        /\ NT3HWriteUserData(call.page, nfcPageBuffer, ok) /\ call.used < PageSize
    <2>1. call.pc = "splitWrite" /\ NT3HWriteUserData(call.page, nfcPageBuffer, ok)  BY DEF SplitWrite
    <2>2. Numbers(call)  BY DEF TagNumbers
    <2>3. call.used < PageSize  BY <2>1, <2>2 DEF Numbers
    <2> QED  BY <2>1, <2>2, <2>3 DEF TagInv, TagNumbers
  <1>1. /\ CallOK(Note(call, ok)) /\ Note(call, ok).req = call.req /\ Note(call, ok).page = call.page
        /\ Numbers(Note(call, ok)) /\ call.used \in Nat
    BY <1>0, Noted, NotedNumbers DEF Numbers
  <1>2. StartPayload(o, page, Len(rest))
    <2>1. StartPayload([Note(call, ok) EXCEPT !.page = @ + 1], page, Len(rest))  BY DEF SplitWrite
    <2>2. o = [Note(call, ok) EXCEPT !.page = @ + 1]  BY <1>1
    <2> QED  BY <2>1, <2>2
  <1>3. bytes \in Seq(Nat) /\ Len(bytes) \in {5, 7, 10}  BY <1>0, NewBytesNumbers
  <1> HIDE DEF bytes
  <1>4. rest \in Seq(Nat) /\ Len(rest) \in 0 .. 10  BY <1>0, <1>1, <1>3, Part
  <1> HIDE DEF rest
  <1>5. page \in Page  BY <1>0, <1>4, Overlaid
  <1>6. next \in Nat  BY <1>0 DEF Numbers
  <1> HIDE DEF page, next
  <1>7. CallOK(o) /\ Numbers(o) /\ o.req = call.req
    <2>1. PICK c : c = Note(call, ok)  OBVIOUS
    <2>2. o = [c EXCEPT !.page = next] /\ CallOK(c) /\ Numbers(c) /\ c.req = call.req  BY <1>1, <2>1
    <2>3. CallOK(o) /\ o.req = c.req  BY <2>2 DEF CallOK, Fields
    <2>4. Numbers(o)
      <3>1. /\ o.used = c.used /\ o.end = c.end /\ o.mbMe = c.mbMe /\ o.page = next /\ o.added = c.added
            /\ o.pc = c.pc
        BY <2>2 DEF CallOK, Fields
      <3>2. c.pc = call.pc  BY <1>0, <2>1, NotedNumbers
      <3> QED  BY <1>0, <1>6, <2>2, <2>3, <3>1, <3>2 DEF Numbers
    <2> QED  BY <2>2, <2>3, <2>4
  <1> HIDE DEF o
  <1>8. Len(rest) \in 0 .. 16  BY <1>4
  <1>9. nfcPageBuffer' \in Page /\ Numbers(call')  BY <1>0, <1>2, <1>5, <1>7, <1>8, StartedNumbers
  <1>10. \A p \in 0 .. LastPage : tag'[p] \in Page  BY <1>0, WrittenNumbers
  <1> QED  BY <1>9, <1>10 DEF TagNumbers, Numbers

LEMMA TagStepNumbers == ASSUME TagInv, TagNumbers, TagStep PROVE TagNumbers'
  BY WriteFirstNumbers, WriteNextNumbers, ReadsNumbers, RewriteNumbers, ReadLastNumbers, SplitNumbers, Zenon
  DEF TagStep

LEMMA TagPowerLossNumbers == ASSUME TagNumbers, TagPowerLoss PROVE TagNumbers'
  BY ZeroPage, IdleNumbers DEF TagNumbers, TagPowerLoss, Numbers

LEMMA TagNumbersSame == ASSUME TagNumbers, UNCHANGED tagVars PROVE TagNumbers'
  BY DEF TagNumbers, tagVars, Numbers

LEMMA TagNumbersInitially == TagInit => TagNumbers
  <1> SUFFICES ASSUME TagInit PROVE TagNumbers  OBVIOUS
  <1> DEFINE bytes == <<NDEF_START_BYTE, 3, NTAG_ERASED, 0, 0, NDEF_END_BYTE>>
  <1>1. bytes \in Seq(Nat)  BY DEF NDEF_START_BYTE, NTAG_ERASED, NDEF_END_BYTE
  <1> HIDE DEF bytes
  <1>2. Overlay(Zero, 0, bytes) \in Page  BY <1>1, ZeroPage, Overlaid
  <1>3. NT3HEraseAllTag \in Page  BY <1>2 DEF NT3HEraseAllTag, bytes
  <1>4. tag = [p \in 0 .. LastPage |-> IF p = 0 THEN NT3HEraseAllTag ELSE Zero]  BY DEF TagInit
  <1>5. \A p \in 0 .. LastPage : tag[p] \in Page  BY <1>3, <1>4, ZeroPage
  <1> QED  BY <1>5, ZeroPage, IdleNumbers DEF TagInit, TagNumbers, Numbers

\* While only first records are stored, the page and the end are bytes.
LEMMA TagTyped ==
    ASSUME TagNumbers, call.pc = "idle" \/ call.req.pos = "first"
    PROVE  TagTypeOK
  <1>1. call.end = 0 /\ call.page \in 0 .. LastPage + 1  BY DEF TagNumbers, Numbers
  <1>2. call.page \in 0 .. 255  BY <1>1, TagAssumption
  <1> QED  BY <1>1, <1>2 DEF TagTypeOK, TagNumbers, Page

----------------------------------------------------------------------------
(* Adding a record: a first record of the short form                       *)

Pre == IF HasBit(At(2), BIT_SR) THEN 4 ELSE 7
Payload == IF HasBit(At(2), BIT_SR) THEN At(4) ELSE BigEndian(4)
ShortReadable ==
    /\ At(0) = NDEF_START_BYTE
    /\ \A k \in 0 .. 6 : At(2 + k) < 256 \/ (HasBit(At(2), BIT_SR) /\ k > 3)
    /\ HasBit(At(2), BIT_MB) /\ At(3) = 1
    /\ HasBit(At(2), BIT_ME) => Pre + Payload = At(1)
    /\ Pre + Payload <= At(1)
    /\ 2 + Pre + Payload <= PageSize * (LastPage + 1)
ShortRecord == [type |-> At(2 + Pre - 1), body |-> [k \in 1 .. Payload |-> At(2 + Pre + k - 1)]]

\* The first record is w, of the short form, and over before byte end + 2.
Kept(w, end) == At(1) # 255 /\ ShortReadable /\ ShortRecord = w /\ Pre + Payload <= end

LEMMA ShortForm ==
    ASSUME At(1) # 255
    PROVE  FirstRecord = IF ShortReadable THEN ShortRecord ELSE Broken
  <1> DEFINE base  == IF Long THEN 4 ELSE 2
             short == HasBit(At(base), BIT_SR)
             len   == IF short THEN At(base + 2) ELSE BigEndian(base + 2)
             pre   == IF short THEN 4 ELSE 7
             wellFormed ==
                 /\ At(0) = NDEF_START_BYTE
                 /\ \A k \in 0 .. 6 : At(base + k) < 256 \/ (short /\ k > 3)
                 /\ HasBit(At(base), BIT_MB) /\ At(base + 1) = 1
                 /\ HasBit(At(base), BIT_ME) => pre + len = Limit
                 /\ pre + len <= Limit
                 /\ base + pre + len <= PageSize * (LastPage + 1)
  <1>1. base = 2 /\ Limit = At(1)  BY DEF Long, Limit
  <1>2. FirstRecord = IF wellFormed
                      THEN [type |-> At(base + pre - 1), body |-> [k \in 1 .. len |-> At(base + pre + k - 1)]]
                      ELSE Broken
    BY DEF FirstRecord
  <1> HIDE DEF base
  <1>3. base + 1 = 3 /\ base + 2 = 4  BY <1>1
  <1>4. pre = Pre /\ len = Payload /\ (short <=> HasBit(At(2), BIT_SR))  BY <1>1, <1>3 DEF Pre, Payload
  <1> HIDE DEF short, len, pre
  <1>5. wellFormed <=> ShortReadable  BY <1>1, <1>3, <1>4 DEF ShortReadable
  <1> HIDE DEF wellFormed
  <1> QED  BY <1>1, <1>2, <1>4, <1>5 DEF ShortRecord

LEMMA OnFirstPage == \A k \in Index : k \div PageSize = 0 /\ k % PageSize = k
  BY DEF Index, PageSize

LEMMA FirstBytes ==
    ASSUME TagNumbers, NEW k \in Index
    PROVE  At(k) = tag[0][k] /\ At(k) \in Nat
  <1>1. k \div PageSize = 0 /\ k % PageSize = k  BY OnFirstPage
  <1>2. tag[0] \in Page  BY TagAssumption DEF TagNumbers
  <1> QED  BY <1>1, <1>2 DEF At, Page

\* What may change so that the record stays: the length grows, ME is cleared, and the bytes
\* behind the record.
LEMMA KeptThrough ==
    ASSUME TagNumbers, NEW w, NEW end \in Nat, Kept(w, end),
           At(0)' = At(0), At(1)' \in Nat, At(1)' # 255, At(1) <= At(1)', At(2)' < 256,
           HasBit(At(2)', BIT_MB), HasBit(At(2)', BIT_SR) <=> HasBit(At(2), BIT_SR),
           HasBit(At(2)', BIT_ME) => At(1)' = At(1) /\ HasBit(At(2), BIT_ME),
           \A k \in 3 .. end + 1 : At(k)' = At(k)
    PROVE  Kept(w, end)'
  <1>1. Pre \in {4, 7} /\ Payload \in Nat /\ At(1) \in Nat
    <2>1. {1, 4, 5, 6, 7} \subseteq Index  BY DEF Index, PageSize
    <2>2. At(1) \in Nat /\ At(4) \in Nat /\ At(5) \in Nat /\ At(6) \in Nat /\ At(7) \in Nat
      BY <2>1, FirstBytes
    <2>3. BigEndian(4) \in Nat  BY <2>2 DEF BigEndian
    <2> QED  BY <2>2, <2>3 DEF Pre, Payload
  <1>2. ShortReadable /\ Pre + Payload <= end /\ ShortRecord = w  BY DEF Kept
  <1>3. Pre <= end /\ (HasBit(At(2), BIT_SR) => Pre = 4) /\ (~HasBit(At(2), BIT_SR) => Pre = 7)
    BY <1>1, <1>2 DEF Pre
  <1>4. Pre' = Pre  BY DEF Pre
  <1>5. Payload' = Payload
    <2>1. CASE HasBit(At(2), BIT_SR)
      <3>1. 4 \in 3 .. end + 1  BY <1>3, <2>1
      <3> QED  BY <2>1, <3>1 DEF Payload
    <2>2. CASE ~HasBit(At(2), BIT_SR)
      <3>1. {4, 5, 6, 7} \subseteq 3 .. end + 1  BY <1>3, <2>2
      <3>2. At(4)' = At(4) /\ At(5)' = At(5) /\ At(6)' = At(6) /\ At(7)' = At(7)  BY <3>1
      <3>3. 4 + 1 = 5 /\ 4 + 2 = 6 /\ 4 + 3 = 7  OBVIOUS
      <3>4. BigEndian(4)' = BigEndian(4)  BY <3>2, <3>3 DEF BigEndian
      <3> QED  BY <2>2, <3>4 DEF Payload
    <2> QED  BY <2>1, <2>2
  <1>6. ShortReadable'
    <2>1. ASSUME NEW k \in 0 .. 6, ~(HasBit(At(2), BIT_SR) /\ k > 3) PROVE At(2 + k)' < 256
      <3>1. CASE k = 0  BY <3>1
      <3>2. CASE k # 0
        <4>1. 2 + k \in 3 .. end + 1  BY <1>3, <2>1, <3>2
        <4>2. At(2 + k) < 256  BY <1>2, <2>1 DEF ShortReadable
        <4> QED  BY <4>1, <4>2
      <3> QED  BY <3>1, <3>2
    <2>2. At(3)' = 1
      <3>1. 3 \in 3 .. end + 1  BY <1>3, <1>1
      <3> QED  BY <1>2, <3>1 DEF ShortReadable
    <2>3. Pre + Payload <= At(1)' /\ (HasBit(At(2)', BIT_ME) => Pre + Payload = At(1)')
      BY <1>1, <1>2 DEF ShortReadable
    <2> QED  BY <1>2, <1>4, <1>5, <2>1, <2>2, <2>3 DEF ShortReadable
  <1>7. ShortRecord' = ShortRecord
    <2>1. At(2 + Pre - 1)' = At(2 + Pre - 1)
      <3>1. PICK n \in {4, 7} : n = Pre  BY <1>1
      <3>2. 2 + n - 1 \in 3 .. end + 1  BY <1>3, <3>1
      <3>3. At(2 + n - 1)' = At(2 + n - 1)  BY <3>2
      <3>4. Pre' = n  BY <1>4, <3>1
      <3> QED  BY <3>1, <3>3, <3>4
    <2>2. ASSUME NEW k \in 1 .. Payload PROVE At(2 + Pre + k - 1)' = At(2 + Pre + k - 1)
      <3>1. PICK n \in {4, 7} : n = Pre  BY <1>1
      <3>2. 2 + n + k - 1 \in 3 .. end + 1  BY <1>1, <1>2, <2>2, <3>1
      <3>3. At(2 + n + k - 1)' = At(2 + n + k - 1)  BY <3>2
      <3>4. Pre' = n  BY <1>4, <3>1
      <3> QED  BY <3>1, <3>3, <3>4
    <2> QED  BY <1>5, <2>1, <2>2 DEF ShortRecord
  <1> QED  BY <1>2, <1>4, <1>5, <1>6, <1>7 DEF Kept

LEMMA KeptBelow ==
    ASSUME TagNumbers, NEW w, NEW end \in Nat, Kept(w, end), \A k \in 0 .. end + 1 : At(k)' = At(k)
    PROVE  Kept(w, end)'
  <1>1. end >= 4 /\ At(1) \in Nat
    <2>1. {1, 4, 5, 6, 7} \subseteq Index  BY DEF Index, PageSize
    <2>2. At(1) \in Nat /\ At(4) \in Nat /\ At(5) \in Nat /\ At(6) \in Nat /\ At(7) \in Nat
      BY <2>1, FirstBytes
    <2>3. Pre \in {4, 7} /\ Payload \in Nat  BY <2>2 DEF Pre, Payload, BigEndian
    <2>4. Pre + Payload <= end  BY DEF Kept
    <2> QED  BY <2>2, <2>3, <2>4
  <1>2. At(0)' = At(0) /\ At(1)' = At(1) /\ At(2)' = At(2)
    <2>1. {0, 1, 2} \subseteq 0 .. end + 1  BY <1>1
    <2> QED  BY <2>1
  <1>3. \A k \in 3 .. end + 1 : At(k)' = At(k)
    <2>1. 3 .. end + 1 \subseteq 0 .. end + 1  BY <1>1
    <2> QED  BY <2>1
  <1>4. At(2) < 256 /\ HasBit(At(2), BIT_MB) /\ At(1) # 255
    <2>1. ShortReadable /\ At(1) # 255  BY DEF Kept
    <2>2. At(2 + 0) < 256 \/ (HasBit(At(2), BIT_SR) /\ 0 > 3)  BY <2>1 DEF ShortReadable
    <2> QED  BY <2>1, <2>2 DEF ShortReadable
  <1> QED  BY <1>1, <1>2, <1>3, <1>4, KeptThrough

\* Writing a page that agrees with the tag where the record may be.
LEMMA WrittenBehind ==
    ASSUME DOMAIN tag = 0 .. LastPage, NEW p \in Nat, NEW bytes, NEW ok, NT3HWriteUserData(p, bytes, ok),
           NEW end \in Nat, \A k \in Index : PageSize * p + k < end + 4 => bytes[k] = tag[p][k]
    PROVE  \A k \in 0 .. end + 1 : At(k)' = At(k)
  <1>1. ASSUME NEW k \in 0 .. end + 1 PROVE At(k)' = At(k)
    <2>1. k \in Nat /\ k < end + 4  BY <1>1
    <2>2. k \div PageSize \in Nat /\ k % PageSize \in Index /\ k = PageSize * (k \div PageSize) + (k % PageSize)
      BY <2>1, Place
    <2>3. CASE tag' = tag  BY <2>3 DEF At
    <2>4. CASE p <= LastPage /\ tag' = [tag EXCEPT ![p] = bytes]
      <3>1. p \in DOMAIN tag  BY <2>4, TagAssumption
      <3>2. CASE k \div PageSize = p
        <4>1. bytes[k % PageSize] = tag[p][k % PageSize]  BY <2>1, <2>2, <3>2
        <4>2. tag'[p] = bytes  BY <2>4, <3>1
        <4> QED  BY <3>2, <4>1, <4>2 DEF At
      <3>3. CASE k \div PageSize # p
        <4>1. tag'[k \div PageSize] = tag[k \div PageSize]  BY <2>4, <3>3
        <4> QED  BY <4>1 DEF At
      <3> QED  BY <3>2, <3>3
    <2> QED  BY <2>3, <2>4 DEF NT3HWriteUserData
  <1> QED  BY <1>1

\* The header as it is rewritten: it begins the message, and does not end it.
LEMMA RewrittenHeader ==
    ASSUME NEW h \in Nat
    PROVE  /\ ~HasBit(composeNDEFMBME(TRUE, FALSE, h), BIT_ME)
           /\ h < 256 /\ HasBit(h, BIT_MB) =>
                /\ composeNDEFMBME(TRUE, FALSE, h) < 256 /\ HasBit(composeNDEFMBME(TRUE, FALSE, h), BIT_MB)
                /\ HasBit(composeNDEFMBME(TRUE, FALSE, h), BIT_SR) <=> HasBit(h, BIT_SR)
  <1> DEFINE mb == Set(h, 128)
             out == Clear(mb, 64)
  <1>1. composeNDEFMBME(TRUE, FALSE, h) = out  BY DEF composeNDEFMBME, BIT_MB, BIT_ME
  <1>2. mb \in Nat  BY Bits128
  <1>3. h < 256 /\ HasBit(h, 128) => mb = h  BY DEF Set
  <1> HIDE DEF mb
  <1>4. ~HasBit(out, 64)
    <2>1. CASE HasBit(mb, 64)
      <3>1. (mb - 64) \div 64 = (mb \div 64) - 1  BY <1>2
      <3>2. out = mb - 64  BY <2>1 DEF Clear
      <3>3. (mb \div 64) % 2 = 1  BY <2>1 DEF HasBit
      <3> QED  BY <1>2, <3>1, <3>2, <3>3 DEF HasBit
    <2>2. CASE ~HasBit(mb, 64)  BY <2>2 DEF Clear
    <2> QED  BY <2>1, <2>2
  <1>5. ASSUME h < 256, HasBit(h, 128)
        PROVE  out < 256 /\ HasBit(out, 128) /\ (HasBit(out, 16) <=> HasBit(h, 16))
    <2>1. mb = h  BY <1>3, <1>5
    <2>2. CASE HasBit(h, 64)
      <3>1. out = h - 64  BY <2>1, <2>2 DEF Clear
      <3>2. (h \div 64) % 2 = 1  BY <2>2 DEF HasBit
      <3>3. (h - 64) \div 128 = h \div 128  BY <3>2
      <3>4. (h - 64) \div 16 = (h \div 16) - 4  OBVIOUS
      <3>5. ((h \div 16) - 4) % 2 = (h \div 16) % 2  OBVIOUS
      <3> QED  BY <1>5, <3>1, <3>3, <3>4, <3>5 DEF HasBit
    <2>3. CASE ~HasBit(h, 64)  BY <1>5, <2>1, <2>3 DEF Clear
    <2> QED  BY <2>2, <2>3
  <1> HIDE DEF out
  <1> QED  BY <1>1, <1>4, <1>5 DEF BIT_MB, BIT_ME, BIT_SR
----------------------------------------------------------------------------
(* Pages that look erased to NT3HReadHeaderNfc, though a phone may find a  *)
(* record there                                                            *)

LooksErased(p) == p[0] = NDEF_START_BYTE /\ p[2] = NTAG_ERASED

\* It does not find one: in the short form the record has no type of one byte; in the
\* long form it does not begin a message, or is one of more bytes than the tag has.
Safe(p) ==
    LooksErased(p) => IF p[1] = 255 THEN p[4] < 256 /\ HasBit(p[4], BIT_MB) => HasBit(p[4], BIT_ME)
                                    ELSE p[3] # 1

SafeInv ==
    /\ \A p \in 0 .. LastPage : Safe(tag[p])
    /\ Safe(nfcPageBuffer)
    /\ call.pc \in {"rewriteRead", "rewriteWrite"} => ~HasBit(call.mbMe, BIT_ME)

LEMMA ErasedIsBroken == ASSUME TagNumbers, Safe(tag[0]), LooksErased(tag[0]) PROVE FirstRecord = Broken
  <1>0. {0, 1, 2, 3, 4} \subseteq Index  BY DEF Index, PageSize
  <1>1. /\ At(1) = tag[0][1] /\ At(2) = NTAG_ERASED /\ At(3) = tag[0][3] /\ At(4) = tag[0][4]
        /\ At(3) \in Nat /\ At(4) \in Nat
    BY <1>0, FirstBytes DEF LooksErased
  <1>2. CASE At(1) # 255
    <2>1. At(3) # 1  BY <1>1, <1>2 DEF Safe
    <2> QED  BY <1>2, <2>1, ShortForm DEF ShortReadable
  <1>3. CASE At(1) = 255
    <2> DEFINE base  == IF Long THEN 4 ELSE 2
               short == HasBit(At(base), BIT_SR)
               len   == IF short THEN At(base + 2) ELSE BigEndian(base + 2)
               pre   == IF short THEN 4 ELSE 7
               wellFormed ==
                   /\ At(0) = NDEF_START_BYTE
                   /\ \A k \in 0 .. 6 : At(base + k) < 256 \/ (short /\ k > 3)
                   /\ HasBit(At(base), BIT_MB) /\ At(base + 1) = 1
                   /\ HasBit(At(base), BIT_ME) => pre + len = Limit
                   /\ pre + len <= Limit
                   /\ base + pre + len <= PageSize * (LastPage + 1)
    <2>1. base = 4  BY <1>3 DEF Long
    <2>2. FirstRecord = IF wellFormed
                        THEN [type |-> At(base + pre - 1), body |-> [k \in 1 .. len |-> At(base + pre + k - 1)]]
                        ELSE Broken
      BY DEF FirstRecord
    <2> HIDE DEF base
    <2>3. Limit = 256 * At(2) + At(3)  BY <1>3 DEF Limit, Long
    <2>4. Limit > 16 * 255  BY <1>1, <2>3 DEF NTAG_ERASED
    <2> HIDE DEF short, len, pre
    <2>5. ASSUME wellFormed PROVE FALSE
      <3>1. At(base + 0) < 256 \/ (short /\ 0 > 3)  BY <2>5
      <3>2. At(4) < 256 /\ HasBit(At(4), BIT_MB)  BY <2>1, <2>5, <3>1
      <3>3. HasBit(At(4), BIT_ME)  BY <1>1, <1>3, <3>2 DEF Safe
      <3>4. pre + len = Limit  BY <2>1, <2>5, <3>3
      <3>5. base + pre + len <= PageSize * (LastPage + 1)  BY <2>5
      <3>6. PageSize * (LastPage + 1) <= 16 * 255  BY TagAssumption DEF PageSize
      <3>7. pre \in Int /\ len \in Int
        <4>1. pre \in Int  BY DEF pre
        <4>2. {6, 7, 8, 9} \subseteq Index  BY DEF Index, PageSize
        <4>3. At(6) \in Nat /\ At(7) \in Nat /\ At(8) \in Nat /\ At(9) \in Nat  BY <4>2, FirstBytes
        <4>4. base + 2 = 6 /\ 6 + 1 = 7 /\ 6 + 2 = 8 /\ 6 + 3 = 9  BY <2>1
        <4>5. BigEndian(6) \in Int  BY <4>3, <4>4 DEF BigEndian
        <4> QED  BY <4>1, <4>3, <4>4, <4>5 DEF len
      <3>8. base + pre + len = 4 + Limit  BY <2>1, <3>4, <3>7
      <3>9. Limit \in Int  BY <3>4, <3>7
      <3>10. PICK m : m = PageSize * (LastPage + 1)  OBVIOUS
      <3>11. m \in Int /\ m <= 16 * 255  BY <3>6, <3>10, TagAssumption DEF PageSize
      <3>12. 4 + Limit <= m  BY <3>5, <3>8, <3>10
      <3> QED  BY <2>4, <3>9, <3>11, <3>12
    <2> HIDE DEF wellFormed
    <2> QED  BY <2>2, <2>5
  <1> QED  BY <1>2, <1>3

\* The pages a store of a first record writes.
LEMMA FirstPageSafe == ASSUME NEW r \in Records PROVE Safe(Fill(r, HeaderPage(r), Ptr(r)))
  <1> DEFINE bytes == Bytes(r)
             total == r.len + Len(bytes)
             start == [Zero EXCEPT ![0] = NDEF_START_BYTE]
             page == Overlay(start, Base(r), bytes)
             high == total \div 256
             low == total % 256
             new == Fill(r, HeaderPage(r), Ptr(r))
  <1>0. r.len \in Nat /\ r.type \in {RTD_TEXT, RTD_URI}  BY RecordFields
  <1>1. /\ bytes[1] \in {193, 209}
        /\ Len(bytes) = IF r.type = RTD_TEXT THEN IF r.len + 3 > 255 THEN 10 ELSE 7 ELSE 5
    <2> DEFINE uri == (r.len + 1) % 256
               hi == (r.len + 3) \div 256
               lo == (r.len + 3) % 256
    <2>1. bytes = IF r.type = RTD_TEXT
                  THEN IF r.len + 3 > 255 THEN <<193, 1, 0, 0, hi, lo, RTD_TEXT, 2, 101, 110>>
                       ELSE <<209, 1, r.len + 3, RTD_TEXT, 2, 101, 110>>
                  ELSE <<209, 1, uri, RTD_URI, 1>>
      BY Headers DEF Bytes, Compose, composeRtdText, composeRtdUri
    <2> HIDE DEF uri, hi, lo, bytes
    <2> QED  BY <2>1
  <1> HIDE DEF bytes
  <1>2. total \in Nat /\ (total > 255 => r.len > 248) /\ Len(bytes) \in {5, 7, 10}
    <2>1. PICK n : n = Len(bytes)  OBVIOUS
    <2>2. n = IF r.type = RTD_TEXT THEN IF r.len + 3 > 255 THEN 10 ELSE 7 ELSE 5  BY <1>1, <2>1
    <2>3. r.len + n \in Nat /\ (r.len + n > 255 => r.len > 248)  BY <1>0, <2>2
    <2> QED  BY <2>1, <2>2, <2>3
  <1>3. firstRecord(r) = IF total > 255
                         THEN [page |-> [page EXCEPT ![1] = 255, ![2] = high, ![3] = low], ptr |-> 4 + Len(bytes)]
                         ELSE [page |-> [page EXCEPT ![1] = total], ptr |-> 2 + Len(bytes)]
    <2> DEFINE h == composeNDEFMBME(TRUE, TRUE, 0)
               composed == Compose(r, h)
               sum == r.len + Len(composed)
               all == Overlay(start, IF r.len > 248 THEN 4 ELSE 2, composed)
    <2>1. firstRecord(r) = IF sum > 255
                           THEN [page |-> [all EXCEPT ![1] = 255, ![2] = sum \div 256, ![3] = sum % 256],
                                 ptr |-> 4 + Len(composed)]
                           ELSE [page |-> [all EXCEPT ![1] = sum], ptr |-> 2 + Len(composed)]
      BY DEF firstRecord
    <2>2. h = 192  BY Headers
    <2> HIDE DEF h
    <2>3. composed = bytes  BY <2>2 DEF bytes, Bytes
    <2> HIDE DEF composed
    <2>4. all = page /\ sum = total  BY <2>3 DEF Base
    <2> HIDE DEF all, page, sum, total
    <2> QED  BY <2>1, <2>3, <2>4
  <1>4. Base(r) \in {2, 4} /\ (total > 255 => Base(r) = 4)  BY <1>2 DEF Base
  <1>5. {0, 1, 2, 3, 4} \subseteq Index  BY DEF Index, PageSize
  <1>6. DOMAIN page = Index /\ (Base(r) = 2 => page[2] = bytes[1]) /\ (Base(r) = 4 => page[4] = bytes[1] /\ page[2] = 0)
    <2>1. DOMAIN page = Index  BY DEF Overlay
    <2>2. \A n \in {5, 7, 10} : 0 \in 0 .. n - 1 /\ -2 \notin 0 .. n - 1  OBVIOUS
    <2>3. 0 \in 0 .. Len(bytes) - 1 /\ -2 \notin 0 .. Len(bytes) - 1  BY <1>2, <2>2
    <2>4. 2 - 2 = 0 /\ 4 - 4 = 0 /\ 2 - 4 = -2 /\ 0 + 1 = 1  OBVIOUS
    <2>5. start[2] = 0  BY <1>5 DEF Zero
    <2> HIDE DEF start
    <2>6. Base(r) = 2 => page[2] = bytes[1]  BY <1>5, <2>3, <2>4 DEF Overlay
    <2>7. Base(r) = 4 => page[4] = bytes[1]  BY <1>5, <2>3, <2>4 DEF Overlay
    <2>8. Base(r) = 4 => page[2] = 0  BY <1>5, <2>3, <2>4, <2>5 DEF Overlay
    <2> QED  BY <2>1, <2>6, <2>7, <2>8
  <1> HIDE DEF page, total
  <1>7. \A k \in {0, 1, 2, 3, 4} : new[k] = HeaderPage(r)[k]
    <2>1. Ptr(r) \in 7 .. 14  BY FirstPageNumbers
    <2> QED  BY <1>5, <2>1 DEF Fill
  <1> HIDE DEF new
  <1>8. CASE total > 255
    <2>1. HeaderPage(r) = [page EXCEPT ![1] = 255, ![2] = high, ![3] = low]  BY <1>3, <1>8 DEF HeaderPage
    <2> DEFINE a == 255
    <2>2. HeaderPage(r) = [page EXCEPT ![1] = a, ![2] = high, ![3] = low]  BY <2>1
    <2> HIDE DEF high, low, a
    <2>3. HeaderPage(r)[1] = a /\ HeaderPage(r)[4] = page[4]  BY <1>5, <1>6, <2>2, ThreeBytes
    <2>4. new[1] = 255 /\ new[4] \in {193, 209}  BY <1>1, <1>4, <1>6, <1>7, <1>8, <2>3 DEF a
    <2>5. HasBit(new[4], BIT_ME)  BY <2>4, Headers
    <2> QED  BY <2>4, <2>5 DEF Safe, new
  <1>9. CASE ~(total > 255)
    <2>1. HeaderPage(r) = [page EXCEPT ![1] = total]  BY <1>3, <1>9 DEF HeaderPage
    <2>2. HeaderPage(r)[2] = page[2]  BY <1>5, <1>6, <2>1
    <2>3. new[2] \in {0, 193, 209}  BY <1>1, <1>4, <1>6, <1>7, <2>2
    <2>4. new[2] # NTAG_ERASED  BY <2>3 DEF NTAG_ERASED
    <2> QED  BY <2>4 DEF Safe, LooksErased, new
  <1> QED  BY <1>8, <1>9

LEMMA NextPageSafe == ASSUME NEW r \in Records, NEW added \in Nat PROVE Safe(Chunk(r, added))
  <1>0. r.len \in Nat /\ r.id \in Nat /\ 0 \in Index  BY RecordFields DEF Index, PageSize
  <1>1. Char(r, added + 0) # 3  BY <1>0 DEF Char
  <1>2. Chunk(r, added)[0] # 3  BY <1>0, <1>1 DEF Chunk, NDEF_END_BYTE
  <1> QED  BY <1>2 DEF Safe, LooksErased, NDEF_START_BYTE

\* The bytes before the payload of an added record.
LEMMA NewHeaders == ASSUME NEW r PROVE NewHeader(r) \in {0, 17, 64, 81}
  <1>1. /\ ~HasBit(1, 16) /\ ~HasBit(0, 128) /\ ~HasBit(17, 128) /\ ~HasBit(0, 64) /\ ~HasBit(17, 64)
    BY DEF HasBit
  <1>2. HeaderAfter(r, 0) \in {0, 17}  BY <1>1 DEF HeaderAfter, Set, BIT_SR
  <1> QED  BY <1>1, <1>2 DEF NewHeader, composeNDEFMBME, Set, Clear, BIT_MB, BIT_ME

LEMMA NewBytesAre ==
    ASSUME NEW r \in Records
    PROVE  /\ Len(NewBytes(r)) = Len(Compose(r, 0)) /\ NewBytes(r)[1] = NewHeader(r)
           /\ \A i \in 2 .. Len(NewBytes(r)) : NewBytes(r)[i] = Compose(r, 0)[i]
  <1> DEFINE bytes == Compose(r, 0)
             rest == Tail(bytes)
             h == NewHeader(r)
             head == <<h>>
  <1>1. bytes \in Seq(Nat) /\ Len(bytes) \in {5, 7, 10}  BY Composed
  <1>2. h \in Nat  BY NewHeaders
  <1>3. NewBytes(r) = head \o rest  BY DEF NewBytes
  <1> HIDE DEF bytes, h
  <1>4. Len(bytes) \in Nat /\ Len(bytes) >= 5
    <2>1. \A n \in {5, 7, 10} : n \in Nat /\ n >= 5  OBVIOUS
    <2> QED  BY <1>1, <2>1
  <1>5. bytes # <<>>  BY <1>4
  <1>6. /\ rest \in Seq(Nat) /\ Len(rest) = Len(bytes) - 1
        /\ \A i \in 1 .. Len(rest) : rest[i] = bytes[i + 1]
    BY <1>1, <1>5, HeadTailProperties
  <1>7. head \in Seq(Nat) /\ Len(head) = 1 /\ head[1] = h  BY <1>2
  <1> HIDE DEF rest, head
  <1>8. /\ Len(head \o rest) = Len(head) + Len(rest)
        /\ \A i \in 1 .. Len(head) + Len(rest) :
              (head \o rest)[i] = IF i <= Len(head) THEN head[i] ELSE rest[i - Len(head)]
    <2>1. head \in Seq(Nat) /\ rest \in Seq(Nat)  BY <1>6, <1>7
    <2> QED  BY <2>1, ConcatProperties, Zenon
  <1>9. Len(head) + Len(rest) = Len(bytes)  BY <1>4, <1>6, <1>7
  <1>10. (head \o rest)[1] = h  BY <1>4, <1>7, <1>8, <1>9
  <1>11. ASSUME NEW i \in 2 .. Len(bytes) PROVE (head \o rest)[i] = bytes[i]
    <2>1. i \in 1 .. Len(bytes) /\ ~(i <= 1) /\ i - 1 \in 1 .. Len(bytes) - 1 /\ (i - 1) + 1 = i  BY <1>4, <1>11
    <2> QED  BY <1>6, <1>7, <1>8, <1>9, <2>1
  <1> QED  BY <1>3, <1>8, <1>9, <1>10, <1>11 DEF bytes, h

\* A byte 3 among them, which may begin a page, is not followed by what looks erased.
LEMMA NewFacts ==
    ASSUME NEW r \in Records
    PROVE  /\ Len(NewBytes(r)) \in {5, 7, 10} /\ NewBytes(r)[1] \in {0, 17, 64, 81} /\ NewBytes(r)[2] = 1
           /\ \A i \in 2 .. Len(NewBytes(r)) :
                 NewBytes(r)[i] = 3 => i + 2 <= Len(NewBytes(r)) /\ NewBytes(r)[i + 2] # NTAG_ERASED
  <1> DEFINE head == Set(0 + 1, BIT_SR)
             high == (r.len + 3) \div 256
             low == (r.len + 3) % 256
             uri == (r.len + 1) % 256
             sum == r.len + 3
  <1>1. Compose(r, 0) = IF r.type = RTD_TEXT
                        THEN IF sum > 255
                             THEN <<193, 1, 0, 0, high, low, 84, 2, 101, 110>>
                             ELSE <<head, 1, sum, 84, 2, 101, 110>>
                        ELSE <<head, 1, uri, 85, 1>>
    BY DEF Compose, composeRtdText, composeRtdUri, RTD_TEXT, RTD_URI
  <1> HIDE DEF head, high, low, uri, sum
  <1>2. PICK b : b = NewBytes(r)  OBVIOUS
  <1>3. PICK c : c = Compose(r, 0)  OBVIOUS
  <1>4. Len(b) = Len(c) /\ b[1] \in {0, 17, 64, 81} /\ \A i \in 2 .. Len(b) : b[i] = c[i]
    BY <1>2, <1>3, NewBytesAre, NewHeaders
  <1>5. ASSUME c = <<head, 1, sum, 84, 2, 101, 110>>
        PROVE  /\ Len(b) = 7 /\ b[2] = 1
               /\ \A i \in 2 .. Len(b) : b[i] = 3 => i + 2 <= Len(b) /\ b[i + 2] # 208
    <2>1. c[2] = 1 /\ c[4] = 84 /\ c[5] = 2 /\ c[6] = 101 /\ c[7] = 110 /\ Len(c) = 7  BY <1>5
    <2>2. \A i \in 2 .. 7 : i = 2 \/ i = 3 \/ i = 4 \/ i = 5 \/ i = 6 \/ i = 7  OBVIOUS
    <2>3. \A i \in 2 .. 7 : b[i] = 3 => i = 3  BY <1>4, <2>1, <2>2
    <2>4. 3 + 2 = 5 /\ 5 \in 2 .. 7 /\ 2 \in 2 .. 7  OBVIOUS
    <2> QED  BY <1>4, <2>1, <2>3, <2>4
  <1>6. ASSUME c = <<193, 1, 0, 0, high, low, 84, 2, 101, 110>>
        PROVE  /\ Len(b) = 10 /\ b[2] = 1
               /\ \A i \in 2 .. Len(b) : b[i] = 3 => i + 2 <= Len(b) /\ b[i + 2] # 208
    <2>1. /\ c[2] = 1 /\ c[3] = 0 /\ c[4] = 0 /\ c[7] = 84 /\ c[8] = 2 /\ c[9] = 101 /\ c[10] = 110
          /\ Len(c) = 10
      BY <1>6
    <2>2. \A i \in 2 .. 10 : i = 2 \/ i = 3 \/ i = 4 \/ i = 5 \/ i = 6 \/ i = 7 \/ i = 8 \/ i = 9 \/ i = 10  OBVIOUS
    <2>3. \A i \in 2 .. 10 : b[i] = 3 => i = 5 \/ i = 6  BY <1>4, <2>1, <2>2
    <2>4. 5 + 2 = 7 /\ 6 + 2 = 8 /\ 7 \in 2 .. 10 /\ 8 \in 2 .. 10 /\ 2 \in 2 .. 10  OBVIOUS
    <2> QED  BY <1>4, <2>1, <2>3, <2>4
  <1>7. ASSUME c = <<head, 1, uri, 85, 1>>
        PROVE  /\ Len(b) = 5 /\ b[2] = 1
               /\ \A i \in 2 .. Len(b) : b[i] = 3 => i + 2 <= Len(b) /\ b[i + 2] # 208
    <2>1. c[2] = 1 /\ c[4] = 85 /\ c[5] = 1 /\ Len(c) = 5  BY <1>7
    <2>2. \A i \in 2 .. 5 : i = 2 \/ i = 3 \/ i = 4 \/ i = 5  OBVIOUS
    <2>3. \A i \in 2 .. 5 : b[i] = 3 => i = 3  BY <1>4, <2>1, <2>2
    <2>4. 3 + 2 = 5 /\ 5 \in 2 .. 5 /\ 2 \in 2 .. 5  OBVIOUS
    <2> QED  BY <1>4, <2>1, <2>3, <2>4
  <1>8. \/ c = <<head, 1, sum, 84, 2, 101, 110>> \/ c = <<193, 1, 0, 0, high, low, 84, 2, 101, 110>>
        \/ c = <<head, 1, uri, 85, 1>>
    BY <1>1, <1>3
  <1> QED  BY <1>2, <1>4, <1>5, <1>6, <1>7, <1>8 DEF NTAG_ERASED

\* The pages on which an added record begins, whole or in part, and on which it goes on.
LEMMA OverlayBelow ==
    ASSUME NEW page, NEW at \in Nat, NEW bytes, Len(bytes) \in Nat, NEW k \in Index, k < at
    PROVE  Overlay(page, at, bytes)[k] = page[k]
  <1>0. PICK n \in Nat : n = Len(bytes)  OBVIOUS
  <1>1. k \in Nat  BY DEF Index, PageSize
  <1>2. k - at \notin 0 .. n - 1  BY <1>1
  <1> QED  BY <1>0, <1>2 DEF Overlay

LEMMA OverlayByte ==
    ASSUME NEW page, NEW at \in Nat, NEW bytes, Len(bytes) \in Nat, NEW k \in Index,
           NEW i \in 1 .. Len(bytes), k = at + (i - 1)
    PROVE  Overlay(page, at, bytes)[k] = bytes[i]
  <1>0. PICK n \in Nat : n = Len(bytes)  OBVIOUS
  <1>1. k - at \in 0 .. n - 1 /\ k - at + 1 = i  BY <1>0
  <1> QED  BY <1>0, <1>1 DEF Overlay

Begins(new, page, used, bytes) ==
    /\ used \in 0 .. 15 /\ Len(bytes) \in Nat /\ Len(bytes) >= 5
    /\ bytes[1] \in {0, 17, 64, 81} /\ bytes[2] = 1
    /\ \A k \in 0 .. 4 : new[k] = Overlay(page, used, bytes)[k]

LEMMA BeginsSafe ==
    ASSUME NEW page, Safe(page), NEW used, NEW bytes, NEW new, Begins(new, page, used, bytes)
    PROVE  Safe(new)
  <1> /\ used \in 0 .. 15 /\ Len(bytes) \in Nat /\ Len(bytes) >= 5
      /\ bytes[1] \in {0, 17, 64, 81} /\ bytes[2] = 1
      /\ \A k \in 0 .. 4 : new[k] = Overlay(page, used, bytes)[k]
    BY DEF Begins
  <1>0. {0, 1, 2, 3, 4} \subseteq Index  BY DEF Index, PageSize
  <1>1. \A k \in {0, 1, 2, 3, 4} : new[k] = Overlay(page, used, bytes)[k]
    <2>1. \A k \in {0, 1, 2, 3, 4} : k \in 0 .. 4  OBVIOUS
    <2> QED  BY <2>1
  <1>2. \A k \in {0, 1, 2, 3, 4} : k < used => new[k] = page[k]
    <2>1. used \in Nat  OBVIOUS
    <2> QED  BY <1>0, <1>1, <2>1, OverlayBelow
  <1>3. \A k \in {0, 1, 2, 3, 4} : k = used => new[k] = bytes[1]
    <2>1. ASSUME NEW k \in {0, 1, 2, 3, 4}, k = used PROVE new[k] = bytes[1]
      <3>1. /\ used \in Nat /\ 1 \in 1 .. Len(bytes) /\ k = used + (1 - 1) /\ k \in Index
            /\ Len(bytes) \in Nat
        BY <1>0, <2>1
      <3>2. Overlay(page, used, bytes)[k] = bytes[1]  BY <3>1, OverlayByte
      <3> QED  BY <1>1, <3>2
    <2> QED  BY <2>1
  <1>4. \A k \in {1, 2, 3, 4} : k = used + 1 => new[k] = 1
    <2>1. ASSUME NEW k \in {1, 2, 3, 4}, k = used + 1 PROVE new[k] = 1
      <3>1. /\ used \in Nat /\ 2 \in 1 .. Len(bytes) /\ k = used + (2 - 1) /\ k \in Index
            /\ Len(bytes) \in Nat
        BY <1>0, <2>1
      <3>2. Overlay(page, used, bytes)[k] = bytes[2]  BY <3>1, OverlayByte
      <3> QED  BY <1>1, <3>2
    <2> QED  BY <2>1
  <1>5. ~HasBit(1, 128) /\ ~HasBit(0, 128) /\ ~HasBit(17, 128) /\ ~HasBit(64, 128) /\ ~HasBit(81, 128)
    BY DEF HasBit
  <1>6. CASE used = 0
    <2>1. new[0] \in {0, 17, 64, 81}  BY <1>3, <1>6
    <2> QED  BY <2>1 DEF Safe, LooksErased, NDEF_START_BYTE
  <1>7. CASE used = 1
    <2>1. new[2] = 1  BY <1>4, <1>7
    <2> QED  BY <2>1 DEF Safe, LooksErased, NTAG_ERASED
  <1>8. CASE used = 2
    <2>1. new[2] \in {0, 17, 64, 81}  BY <1>3, <1>8
    <2> QED  BY <2>1 DEF Safe, LooksErased, NTAG_ERASED
  <1>9. CASE used = 3
    <2>1. new[3] \in {0, 17, 64, 81} /\ new[4] = 1  BY <1>3, <1>4, <1>9
    <2> QED  BY <1>5, <2>1 DEF Safe, BIT_MB
  <1>10. CASE used = 4
    <2>1. new[4] \in {0, 17, 64, 81}  BY <1>3, <1>10
    <2>2. new[0] = page[0] /\ new[1] = page[1] /\ new[2] = page[2] /\ new[3] = page[3]  BY <1>2, <1>10
    <2>3. ~HasBit(new[4], BIT_MB)  BY <1>5, <2>1 DEF BIT_MB
    <2> QED  BY <2>2, <2>3 DEF Safe, LooksErased
  <1>11. CASE used > 4
    <2>1. /\ new[0] = page[0] /\ new[1] = page[1] /\ new[2] = page[2] /\ new[3] = page[3]
          /\ new[4] = page[4]
      BY <1>2, <1>11
    <2> QED  BY <2>1 DEF Safe, LooksErased
  <1>12. used = 0 \/ used = 1 \/ used = 2 \/ used = 3 \/ used = 4 \/ used > 4  OBVIOUS
  <1> QED  BY <1>6, <1>7, <1>8, <1>9, <1>10, <1>11, <1>12

LEMMA WholeSafe ==
    ASSUME NEW r \in Records, NEW page, Safe(page), NEW used \in 0 .. 15
    PROVE  Safe(Fill(r, Overlay(page, used, NewBytes(r)), used + Len(NewBytes(r))))
  <1>1. PICK bytes : bytes = NewBytes(r)  OBVIOUS
  <1>2. Len(bytes) \in {5, 7, 10} /\ bytes[1] \in {0, 17, 64, 81} /\ bytes[2] = 1  BY <1>1, NewFacts
  <1>3. Len(bytes) \in Nat /\ Len(bytes) >= 5
    <2>1. \A n \in {5, 7, 10} : n \in Nat /\ n >= 5  OBVIOUS
    <2> QED  BY <1>2, <2>1
  <1>4. PICK new : new = Fill(r, Overlay(page, used, bytes), used + Len(bytes))  OBVIOUS
  <1>5. \A k \in 0 .. 4 : new[k] = Overlay(page, used, bytes)[k]
    <2>1. PICK over : over = Overlay(page, used, bytes)  OBVIOUS
    <2>2. PICK n \in Nat : n = Len(bytes) /\ n >= 5  BY <1>3
    <2>3. 0 .. 4 \subseteq Index /\ \A k \in 0 .. 4 : k < used + n  BY <2>2 DEF Index, PageSize
    <2> QED  BY <1>4, <2>1, <2>2, <2>3 DEF Fill
  <1>6. Safe(new)
    <2>1. Begins(new, page, used, bytes)  BY <1>2, <1>3, <1>5, Zenon DEF Begins
    <2> QED  BY <2>1, BeginsSafe, Zenon
  <1> QED  BY <1>1, <1>4, <1>6

LEMMA FirstPartSafe ==
    ASSUME NEW r \in Records, NEW page, Safe(page), NEW used \in 0 .. 15,
           ~(used + Len(NewBytes(r)) < PageSize)
    PROVE  Safe(Overlay(page, used, SubSeq(NewBytes(r), 1, PageSize - used)))
  <1>1. PICK most : most = SubSeq(NewBytes(r), 1, PageSize - used)  OBVIOUS
  <1>2. used >= 6
    <2>1. PICK n \in {5, 7, 10} : n = Len(NewBytes(r))  BY NewFacts
    <2>2. ~(used + n < 16)  BY <2>1 DEF PageSize
    <2> QED  BY <2>2
  <1>3. PICK new : new = Overlay(page, used, most)  OBVIOUS
  <1>4. new[0] = page[0] /\ new[1] = page[1] /\ new[2] = page[2] /\ new[3] = page[3] /\ new[4] = page[4]
    <2>1. {0, 1, 2, 3, 4} \subseteq Index  BY DEF Index, PageSize
    <2>2. \A k \in {0, 1, 2, 3, 4} : ~(k - used \in 0 .. Len(most) - 1)  BY <1>2
    <2> QED  BY <1>3, <2>1, <2>2 DEF Overlay
  <1> QED  BY <1>1, <1>3, <1>4 DEF Safe, LooksErased

LEMMA SecondPartSafe ==
    ASSUME NEW r \in Records, NEW page, NEW used \in 0 .. 15, NEW rest,
           rest = SubSeq(NewBytes(r), PageSize - used + 1, Len(NewBytes(r)))
    PROVE  Safe(Fill(r, Overlay(page, 0, rest), Len(rest)))
  <1>0. r.len \in Nat /\ r.id \in Nat /\ {0, 2} \subseteq Index  BY RecordFields DEF Index, PageSize
  <1>1. PICK bytes : bytes = NewBytes(r)  OBVIOUS
  <1>2. PICK n \in Nat : n = Len(bytes)
    <2>1. \A i \in {5, 7, 10} : i \in Nat  OBVIOUS
    <2> QED  BY <1>1, <2>1, NewFacts
  <1>3. /\ \A i \in 1 .. n : bytes[i] \in Nat
        /\ \A i \in 2 .. n : bytes[i] = 3 => i + 2 <= n /\ bytes[i + 2] # NTAG_ERASED
    <2>1. bytes \in Seq(Nat)  BY <1>1, NewBytesNumbers
    <2> QED  BY <1>1, <1>2, <2>1, NewFacts, ElementOfSeq
  <1>4. PICK from \in 2 .. 17 : from = PageSize - used + 1  BY DEF PageSize
  <1>5. rest = SubSeq(bytes, from, n)  BY <1>1, <1>2, <1>4
  <1>6. PICK m : m = Len(rest)  OBVIOUS
  <1>7. /\ m = IF from <= n THEN n - from + 1 ELSE 0
        /\ \A i \in 1 .. n - from + 1 : rest[i] = bytes[from + i - 1]
    <2>1. \A i \in from .. n : bytes[i] \in Nat  BY <1>3
    <2>2. from \in Int /\ n \in Int  OBVIOUS
    <2>3. /\ Len(SubSeq(bytes, from, n)) = IF from <= n THEN n - from + 1 ELSE 0
          /\ \A i \in 1 .. n - from + 1 : SubSeq(bytes, from, n)[i] = bytes[from + i - 1]
      BY <2>1, <2>2, SubSeqProperties
    <2> QED  BY <1>5, <1>6, <2>3, Zenon
  <1>8. PICK over : over = Overlay(page, 0, rest)  OBVIOUS
  <1>9. PICK new : new = Fill(r, over, m)  OBVIOUS
  <1>10. CASE ~(from <= n)
    <2>1. m = 0  BY <1>7, <1>10
    <2>2. ~(0 < 0) /\ 0 - 0 = 0  OBVIOUS
    <2>3. new[0] = IF 0 < r.len THEN Char(r, 0) ELSE IF 0 = r.len THEN NDEF_END_BYTE ELSE over[0]
      BY <1>0, <1>9, <2>1, <2>2 DEF Fill
    <2>4. new[0] # 3  BY <1>0, <2>3 DEF Char, NDEF_END_BYTE
    <2> QED  BY <1>6, <1>8, <1>9, <2>4 DEF Safe, LooksErased, NDEF_START_BYTE
  <1>11. CASE from <= n
    <2>0. m = n - from + 1 /\ m \in Nat /\ m >= 1  BY <1>7, <1>11
    <2>1. \A k \in {0, 2} : k < m => new[k] = rest[k + 1]
      <3>1. ASSUME NEW k \in {0, 2}, k < m PROVE new[k] = rest[k + 1]
        <4>0. PICK i : i = k + 1  OBVIOUS
        <4>1. k \in Index /\ i \in 1 .. m /\ k = 0 + (i - 1) /\ 0 \in Nat  BY <1>0, <2>0, <3>1, <4>0
        <4>2. k - 0 \in 0 .. m - 1 /\ k - 0 + 1 = i  BY <2>0, <3>1, <4>0, <4>1
        <4>4. Overlay(page, 0, rest)[k] = rest[k + 1]  BY <1>6, <4>0, <4>1, <4>2 DEF Overlay
        <4>3. new[k] = over[k]  BY <1>9, <3>1, <4>1 DEF Fill
        <4> QED  BY <1>8, <4>3, <4>4
      <3> QED  BY <3>1
    <2>2. new[0] = bytes[from]
      <3>1. 0 < m /\ 0 + 1 = 1 /\ 1 \in 1 .. n - from + 1 /\ from + 1 - 1 = from  BY <2>0
      <3> QED  BY <1>7, <2>1, <3>1
    <2>3. ASSUME new[0] = 3 PROVE new[2] # NTAG_ERASED
      <3>1. from \in 2 .. n  BY <1>11
      <3>2. from + 2 <= n /\ bytes[from + 2] # NTAG_ERASED  BY <1>3, <2>2, <2>3, <3>1
      <3>3. 2 < m /\ 2 + 1 = 3 /\ 3 \in 1 .. n - from + 1 /\ from + 3 - 1 = from + 2  BY <2>0, <3>2
      <3>4. new[2] = rest[3]  BY <2>1, <3>3
      <3> QED  BY <1>7, <3>2, <3>3, <3>4
    <2> QED  BY <1>6, <1>8, <1>9, <2>3 DEF Safe, LooksErased, NDEF_START_BYTE
  <1> QED  BY <1>10, <1>11

----------------------------------------------------------------------------
(* Every step keeps the pages safe *)

ClearsEnd(c) == c.pc \in {"rewriteRead", "rewriteWrite"} => ~HasBit(c.mbMe, BIT_ME)

LEMMA SafeNext ==
    ASSUME \A p \in 0 .. LastPage : Safe(tag'[p]), Safe(nfcPageBuffer'), ClearsEnd(call')
    PROVE  SafeInv'
  BY DEF SafeInv, Safe, LooksErased, ClearsEnd, HasBit

LEMMA SafeWritten ==
    ASSUME SafeInv, DOMAIN tag = 0 .. LastPage, NEW page, NEW bytes, NEW ok, Safe(bytes),
           NT3HWriteUserData(page, bytes, ok)
    PROVE  \A p \in 0 .. LastPage : Safe(tag'[p])
  <1>1. ASSUME NEW p \in 0 .. LastPage PROVE tag'[p] = tag[p] \/ tag'[p] = bytes
    BY DEF NT3HWriteUserData
  <1> QED  BY <1>1 DEF SafeInv

LEMMA SafeRead ==
    ASSUME SafeInv, NEW page \in Nat, NEW ok, NT3HReadUserData(page, ok)
    PROVE  Safe(nfcPageBuffer')
  <1>1. LastPage \in Nat  BY TagAssumption
  <1>2. nfcPageBuffer' = nfcPageBuffer \/ (page \in 0 .. LastPage /\ nfcPageBuffer' = tag[page])
    BY <1>1 DEF NT3HReadUserData
  <1> QED  BY <1>2 DEF SafeInv

LEMMA ZeroSafe == Safe(Zero) /\ Safe(NT3HEraseAllTag)
  <1>1. {0, 1, 2, 3} \subseteq Index  BY DEF Index, PageSize
  <1>2. Zero[0] = 0  BY <1>1 DEF Zero
  <1>3. Safe(Zero)  BY <1>2 DEF Safe, LooksErased, NDEF_START_BYTE
  <1> DEFINE bytes == <<NDEF_START_BYTE, 3, NTAG_ERASED, 0, 0, NDEF_END_BYTE>>
  <1>4. bytes[2] = 3 /\ bytes[4] = 0 /\ Len(bytes) = 6  OBVIOUS
  <1> HIDE DEF bytes
  <1>5. 1 - 0 \in 0 .. 6 - 1 /\ 3 - 0 \in 0 .. 6 - 1 /\ 1 - 0 + 1 = 2 /\ 3 - 0 + 1 = 4  OBVIOUS
  <1>6. Overlay(Zero, 0, bytes)[1] = 3 /\ Overlay(Zero, 0, bytes)[3] = 0
    BY <1>1, <1>4, <1>5 DEF Overlay
  <1>7. NT3HEraseAllTag[1] = 3 /\ NT3HEraseAllTag[3] = 0  BY <1>6 DEF NT3HEraseAllTag, bytes
  <1>8. Safe(NT3HEraseAllTag)  BY <1>7 DEF Safe
  <1> QED  BY <1>3, <1>8

LEMMA SafeInitially == TagInit => SafeInv
  <1> SUFFICES ASSUME TagInit PROVE SafeInv  OBVIOUS
  <1>1. /\ tag = [p \in 0 .. LastPage |-> IF p = 0 THEN NT3HEraseAllTag ELSE Zero]
        /\ nfcPageBuffer = Zero /\ call = Idle
    BY DEF TagInit
  <1>2. \A p \in 0 .. LastPage : tag[p] = NT3HEraseAllTag \/ tag[p] = Zero  BY <1>1
  <1>3. call.pc = "idle"  BY <1>1 DEF Idle
  <1> QED  BY <1>1, <1>2, <1>3, ZeroSafe DEF SafeInv

LEMMA StartedSafe ==
    ASSUME NEW o, CallOK(o), NEW page, NEW ptr, StartPayload(o, page, ptr), Safe(Fill(o.req, page, ptr))
    PROVE  Safe(nfcPageBuffer') /\ ClearsEnd(call')
  <1>1. call'.pc = "firstPage" /\ nfcPageBuffer' = Fill(o.req, page, ptr)
    BY Started DEF StartPayload
  <1> QED  BY <1>1 DEF ClearsEnd

LEMMA StoreSafe == ASSUME TagInv, SafeInv, NEW r \in Records, Store(r) PROVE SafeInv'
  <1>1. \A p \in 0 .. LastPage : Safe(tag'[p])  BY DEF Store, SafeInv
  <1>2. CASE r.pos = "first"
    <2> DEFINE o == [Idle EXCEPT !.req = r]
    <2>1. StartPayload(o, HeaderPage(r), Ptr(r))  BY <1>2 DEF Store, HeaderPage, Ptr
    <2>2. CallOK(o) /\ o.req = r  BY DEF CallOK, Fields, Idle
    <2> HIDE DEF o
    <2>3. Safe(Fill(o.req, HeaderPage(r), Ptr(r)))  BY <2>2, FirstPageSafe
    <2>4. Safe(nfcPageBuffer') /\ ClearsEnd(call')  BY <2>1, <2>2, <2>3, StartedSafe
    <2> QED  BY <1>1, <2>4, SafeNext
  <1>3. CASE r.pos # "first"
    <2>1. call' = [Idle EXCEPT !.req = r, !.pc = "readEnd", !.was = FirstRecord] /\ nfcPageBuffer' = nfcPageBuffer
      BY <1>3 DEF Store
    <2>2. call'.pc = "readEnd"  BY <2>1 DEF Idle
    <2>3. ClearsEnd(call')  BY <2>2 DEF ClearsEnd
    <2>4. Safe(nfcPageBuffer')  BY <2>1 DEF SafeInv
    <2> QED  BY <1>1, <2>3, <2>4, SafeNext
  <1> QED  BY <1>2, <1>3

LEMMA WriteFirstSafe == ASSUME TagInv, SafeInv, NEW ok \in BOOLEAN, WriteFirstPage(ok) PROVE SafeInv'
  <1>0. DOMAIN tag = 0 .. LastPage /\ CallOK(call)  BY DEF TagInv
  <1>1. Safe(nfcPageBuffer)  BY DEF SafeInv
  <1>2. nfcPageBuffer' = nfcPageBuffer /\ NT3HWriteUserData(call.page, nfcPageBuffer, ok)
    BY DEF WriteFirstPage
  <1>3. \A p \in 0 .. LastPage : Safe(tag'[p])  BY <1>0, <1>1, <1>2, SafeWritten
  <1>4. ClearsEnd(call')
    <2>1. CASE Return(Note(call, ok), Written(ok))
      <3>1. call'.pc = "idle"  BY <2>1 DEF Return, Idle
      <3> QED  BY <3>1 DEF ClearsEnd
    <2>2. CASE call' = [Note(call, ok) EXCEPT !.pc = "nextPage", !.page = @ + 1]
      <3>1. CallOK(Note(call, ok))  BY <1>0, Noted
      <3>2. call'.pc = "nextPage"  BY <2>2, <3>1 DEF CallOK, Fields
      <3> QED  BY <3>2 DEF ClearsEnd
    <2> QED  BY <2>1, <2>2 DEF WriteFirstPage
  <1> QED  BY <1>1, <1>2, <1>3, <1>4, SafeNext

LEMMA WriteNextSafe == ASSUME TagInv, TagNumbers, SafeInv, NEW ok \in BOOLEAN, WriteNextPage(ok) PROVE SafeInv'
  <1>0. DOMAIN tag = 0 .. LastPage /\ CallOK(call) /\ call.pc = "nextPage"  BY DEF TagInv, WriteNextPage
  <1>1. call.req \in Records /\ call.added \in Nat  BY <1>0 DEF TagInv, TagNumbers, Numbers
  <1>2. nfcPageBuffer' = Chunk(call.req, call.added) /\ NT3HWriteUserData(call.page, nfcPageBuffer', ok)
    BY DEF WriteNextPage
  <1>3. Safe(nfcPageBuffer')  BY <1>1, <1>2, NextPageSafe
  <1>4. \A p \in 0 .. LastPage : Safe(tag'[p])  BY <1>0, <1>2, <1>3, SafeWritten
  <1>5. ClearsEnd(call')
    <2>1. CASE Return(Note(call, ok), Written(ok))
      <3>1. call'.pc = "idle"  BY <2>1 DEF Return, Idle
      <3> QED  BY <3>1 DEF ClearsEnd
    <2>2. CASE call' = [call EXCEPT !.page = @ + 1, !.added = @ + PageSize]
      <3>1. call'.pc = "nextPage"  BY <1>0, <2>2 DEF CallOK, Fields
      <3> QED  BY <3>1 DEF ClearsEnd
    <2> QED  BY <2>1, <2>2 DEF WriteNextPage
  <1> QED  BY <1>3, <1>4, <1>5, SafeNext

LEMMA ReadsSafe ==
    ASSUME TagInv, TagNumbers, SafeInv, NEW ok \in BOOLEAN, ReadEnd(ok) \/ ReadHeader(ok)
    PROVE  SafeInv'
  <1>0. /\ CallOK(call) /\ Numbers(call) /\ tag[0] \in Page /\ call.pc # "idle" /\ call.req.pos # "first"
        /\ NT3HReadUserData(0, ok) /\ tag' = tag
    <2>1. CallOK(call) /\ Numbers(call)  BY DEF TagInv, TagNumbers
    <2>2. tag[0] \in Page  BY TagAssumption DEF TagNumbers
    <2>3. call.pc \in {"readEnd", "readHeader"} /\ NT3HReadUserData(0, ok) /\ tag' = tag
      BY DEF ReadEnd, ReadHeader
    <2>4. call.pc # "idle" /\ call.req.pos # "first"  BY <2>3 DEF TagInv
    <2> QED  BY <2>1, <2>2, <2>3, <2>4
  <1>1. /\ CallOK(Note(call, ok)) /\ Numbers(Note(call, ok)) /\ Note(call, ok).req = call.req
        /\ Note(call, ok).pc = call.pc
    BY <1>0, Noted, NotedNumbers DEF Numbers
  <1>2. Safe(nfcPageBuffer') /\ \A p \in 0 .. LastPage : Safe(tag'[p])
    <2>1. Safe(nfcPageBuffer')  BY <1>0, SafeRead
    <2> QED  BY <1>0, <2>1 DEF SafeInv
  <1>3. CASE ReadEnd(ok)
    <2>1. PICK o \in HeaderRead(Note(call, ok), tag[0], ok) :
            call' = [o EXCEPT !.pc = "readHeader", !.page = EndPage(o.end), !.used = UsedBytes(o.end)]
      BY <1>3 DEF ReadEnd
    <2>2. CallOK(o)  BY <1>1, <2>1, Header
    <2>3. call'.pc = "readHeader"  BY <2>1, <2>2 DEF CallOK, Fields
    <2>4. ClearsEnd(call')  BY <2>3 DEF ClearsEnd
    <2> QED  BY <1>2, <2>4, SafeNext
  <1>4. CASE ReadHeader(ok)
    <2>1. PICK o \in HeaderRead(Note(call, ok), tag[0], ok) :
            call' = [o EXCEPT !.pc = "rewriteRead", !.mbMe = composeNDEFMBME(TRUE, FALSE, @)]
      BY <1>4 DEF ReadHeader
    <2>2. CallOK(o) /\ Numbers(o)  BY <1>0, <1>1, <2>1, Header, HeaderNumbers
    <2> DEFINE h == composeNDEFMBME(TRUE, FALSE, o.mbMe)
    <2>3. ~HasBit(h, BIT_ME)  BY <2>2, RewrittenHeader DEF Numbers
    <2>4. call' = [o EXCEPT !.pc = "rewriteRead", !.mbMe = h]  BY <2>1
    <2> HIDE DEF h
    <2>5. call'.mbMe = h  BY <2>2, <2>4 DEF CallOK, Fields
    <2>6. ClearsEnd(call')  BY <2>3, <2>5 DEF ClearsEnd
    <2> QED  BY <1>2, <2>6, SafeNext
  <1> QED  BY <1>3, <1>4

LEMMA RewritesSafe ==
    ASSUME TagInv, TagNumbers, SafeInv, NEW ok \in BOOLEAN, RewriteRead(ok) \/ RewriteWrite(ok)
    PROVE  SafeInv'
  <1>0. /\ CallOK(call) /\ DOMAIN tag = 0 .. LastPage /\ nfcPageBuffer \in Page
        /\ ~HasBit(call.mbMe, BIT_ME)
    <2>1. call.pc \in {"rewriteRead", "rewriteWrite"}  BY DEF RewriteRead, RewriteWrite
    <2> QED  BY <2>1 DEF TagInv, TagNumbers, SafeInv
  <1>1. CallOK(Note(call, ok)) /\ Note(call, ok).mbMe = call.mbMe  BY <1>0, Noted, NotedNumbers
  <1>2. ASSUME NEW where, call' = [Note(call, ok) EXCEPT !.pc = where]
        PROVE  ClearsEnd(call')
    <2>1. call'.mbMe = call.mbMe  BY <1>1, <1>2 DEF CallOK, Fields
    <2> QED  BY <1>0, <2>1 DEF ClearsEnd
  <1>3. CASE RewriteRead(ok)
    <2>1. ClearsEnd(call')  BY <1>2, <1>3 DEF RewriteRead
    <2>2. NT3HReadUserData(0, ok) /\ tag' = tag  BY <1>3 DEF RewriteRead
    <2>3. Safe(nfcPageBuffer')  BY <2>2, SafeRead
    <2>4. \A p \in 0 .. LastPage : Safe(tag'[p])  BY <2>2 DEF SafeInv
    <2> QED  BY <2>1, <2>3, <2>4, SafeNext
  <1>4. CASE RewriteWrite(ok)
    <2> DEFINE sum == (call.end + call.req.len + Len(NewBytes(call.req))) % 256
               mbMe == call.mbMe
               page == [nfcPageBuffer EXCEPT ![1] = sum, ![2] = mbMe]
    <2>1. nfcPageBuffer' = page /\ NT3HWriteUserData(0, nfcPageBuffer', ok)  BY <1>4 DEF RewriteWrite
    <2>2. ~HasBit(mbMe, BIT_ME)  BY <1>0
    <2> HIDE DEF sum, mbMe
    <2>3. page[2] = mbMe  BY <1>0 DEF Page, Index, PageSize
    <2>4. HasBit(NTAG_ERASED, BIT_ME)  BY DEF HasBit, NTAG_ERASED, BIT_ME
    <2>5. page[2] # NTAG_ERASED  BY <2>2, <2>3, <2>4
    <2>6. Safe(nfcPageBuffer')  BY <2>1, <2>5 DEF Safe, LooksErased
    <2>7. \A p \in 0 .. LastPage : Safe(tag'[p])  BY <1>0, <2>1, <2>6, SafeWritten
    <2>8. ClearsEnd(call')  BY <1>2, <1>4 DEF RewriteWrite
    <2> QED  BY <2>6, <2>7, <2>8, SafeNext
  <1> QED  BY <1>3, <1>4

LEMMA ReadLastSafe == ASSUME TagInv, TagNumbers, SafeInv, NEW ok \in BOOLEAN, ReadLast(ok) PROVE SafeInv'
  <1> DEFINE can == ok /\ call.page <= LastPage
             o == Note(call, can)
             bytes == NewBytes(call.req)
             page == IF can THEN tag[call.page] ELSE nfcPageBuffer
             most == SubSeq(bytes, 1, PageSize - call.used)
  <1>0. CallOK(call) /\ call.req \in Records /\ tag' = tag /\ call.used \in Nat /\ call.page \in Nat
    <2>1. call.pc = "readLast" /\ tag' = tag  BY DEF ReadLast
    <2> QED  BY <2>1 DEF TagInv, TagNumbers, Numbers
  <1>1. CallOK(o) /\ o.req = call.req
    <2>1. can \in BOOLEAN  OBVIOUS
    <2> HIDE DEF can
    <2> QED  BY <1>0, <2>1, Noted
  <1>2. Safe(page)
    <2>1. LastPage \in Nat  BY TagAssumption
    <2>2. can => call.page \in 0 .. LastPage  BY <1>0, <2>1
    <2> QED  BY <2>2 DEF SafeInv
  <1>3. \/ call' = [o EXCEPT !.pc = "fault"] /\ nfcPageBuffer' = nfcPageBuffer
        \/ /\ ~(call.used >= PageSize)
           /\ StartPayload(o, Overlay(page, call.used, bytes), call.used + Len(bytes))
        \/ /\ ~(call.used + Len(bytes) < PageSize) /\ ~(call.used >= PageSize)
           /\ nfcPageBuffer' = Overlay(page, call.used, most) /\ call' = [o EXCEPT !.pc = "splitWrite"]
    BY DEF ReadLast
  <1>4. ~(call.used >= PageSize) => call.used \in 0 .. 15  BY <1>0 DEF PageSize
  <1>5. \A p \in 0 .. LastPage : Safe(tag'[p])  BY <1>0 DEF SafeInv
  <1> HIDE DEF o, page
  <1>6. CASE call' = [o EXCEPT !.pc = "fault"] /\ nfcPageBuffer' = nfcPageBuffer
    <2>1. call'.pc = "fault"  BY <1>1, <1>6 DEF CallOK, Fields
    <2>2. ClearsEnd(call') /\ Safe(nfcPageBuffer')  BY <1>6, <2>1 DEF ClearsEnd, SafeInv
    <2> QED  BY <1>5, <2>2, SafeNext
  <1>7. CASE /\ ~(call.used >= PageSize)
             /\ StartPayload(o, Overlay(page, call.used, bytes), call.used + Len(bytes))
    <2>1. Safe(Fill(call.req, Overlay(page, call.used, bytes), call.used + Len(bytes)))
      BY <1>0, <1>2, <1>4, <1>7, WholeSafe
    <2> DEFINE over == Overlay(page, call.used, bytes)
               at == call.used + Len(bytes)
    <2>2. StartPayload(o, over, at) /\ Safe(Fill(o.req, over, at))  BY <1>1, <1>7, <2>1
    <2> HIDE DEF over, at
    <2>3. Safe(nfcPageBuffer') /\ ClearsEnd(call')  BY <1>1, <2>2, StartedSafe
    <2> QED  BY <1>5, <2>3, SafeNext
  <1>8. CASE /\ ~(call.used + Len(bytes) < PageSize) /\ ~(call.used >= PageSize)
             /\ nfcPageBuffer' = Overlay(page, call.used, most) /\ call' = [o EXCEPT !.pc = "splitWrite"]
    <2>1. Safe(nfcPageBuffer')  BY <1>0, <1>2, <1>4, <1>8, FirstPartSafe
    <2>2. call'.pc = "splitWrite"  BY <1>1, <1>8 DEF CallOK, Fields
    <2>3. ClearsEnd(call')  BY <2>2 DEF ClearsEnd
    <2> QED  BY <1>5, <2>1, <2>3, SafeNext
  <1> QED  BY <1>3, <1>6, <1>7, <1>8

LEMMA SplitSafe == ASSUME TagInv, TagNumbers, SafeInv, NEW ok \in BOOLEAN, SplitWrite(ok) PROVE SafeInv'
  <1> DEFINE next == call.page + 1
             o == [Note(call, ok) EXCEPT !.page = next]
             bytes == NewBytes(call.req)
             rest == SubSeq(bytes, PageSize - call.used + 1, Len(bytes))
             page == Overlay(nfcPageBuffer, 0, rest)
  <1>0. /\ CallOK(call) /\ DOMAIN tag = 0 .. LastPage /\ call.req \in Records /\ call.used \in 0 .. 15
        /\ NT3HWriteUserData(call.page, nfcPageBuffer, ok) /\ Safe(nfcPageBuffer)
    <2>1. call.pc = "splitWrite" /\ NT3HWriteUserData(call.page, nfcPageBuffer, ok)  BY DEF SplitWrite
    <2>2. Numbers(call)  BY DEF TagNumbers
    <2>3. call.used \in 0 .. 15  BY <2>1, <2>2 DEF Numbers, PageSize
    <2> QED  BY <2>1, <2>3 DEF TagInv, SafeInv
  <1>1. CallOK(Note(call, ok)) /\ Note(call, ok).req = call.req /\ Note(call, ok).page = call.page
    BY <1>0, Noted
  <1>2. StartPayload(o, page, Len(rest))
    <2>1. StartPayload([Note(call, ok) EXCEPT !.page = @ + 1], page, Len(rest))  BY DEF SplitWrite
    <2>2. o = [Note(call, ok) EXCEPT !.page = @ + 1]  BY <1>1
    <2> QED  BY <2>1, <2>2
  <1>3. Safe(Fill(call.req, page, Len(rest)))  BY <1>0, SecondPartSafe
  <1> HIDE DEF rest, page, next
  <1>4. CallOK(o) /\ o.req = call.req  BY <1>1 DEF CallOK, Fields
  <1> HIDE DEF o
  <1>5. Safe(nfcPageBuffer') /\ ClearsEnd(call')  BY <1>2, <1>3, <1>4, StartedSafe
  <1>6. \A p \in 0 .. LastPage : Safe(tag'[p])  BY <1>0, SafeWritten
  <1> QED  BY <1>5, <1>6, SafeNext

LEMMA TagStepSafe == ASSUME TagInv, TagNumbers, SafeInv, TagStep PROVE SafeInv'
  BY WriteFirstSafe, WriteNextSafe, ReadsSafe, RewritesSafe, ReadLastSafe, SplitSafe, Zenon DEF TagStep

LEMMA TagPowerLossSafe == ASSUME SafeInv, TagPowerLoss PROVE SafeInv'
  <1>1. tag' = tag /\ nfcPageBuffer' = Zero /\ call' = Idle  BY DEF TagPowerLoss
  <1>2. call'.pc = "idle"  BY <1>1 DEF Idle
  <1>3. ClearsEnd(call') /\ Safe(nfcPageBuffer')  BY <1>1, <1>2, ZeroSafe DEF ClearsEnd
  <1>4. \A p \in 0 .. LastPage : Safe(tag'[p])  BY <1>1 DEF SafeInv
  <1> QED  BY <1>3, <1>4, SafeNext

LEMMA TagSafeSame == ASSUME SafeInv, UNCHANGED tagVars PROVE SafeInv'
  <1>1. tag' = tag /\ nfcPageBuffer' = nfcPageBuffer /\ call' = call  BY DEF tagVars
  <1>2. ClearsEnd(call') /\ Safe(nfcPageBuffer')  BY <1>1 DEF ClearsEnd, SafeInv
  <1>3. \A p \in 0 .. LastPage : Safe(tag'[p])  BY <1>1 DEF SafeInv
  <1> QED  BY <1>2, <1>3, SafeNext

----------------------------------------------------------------------------
(* The steps that add a record                                             *)

Adding(c) == c.pc # "idle" /\ c.req.pos # "first" /\ c.clean /\ c.was # Broken
Fits(c)   == c.end + c.req.len + Len(NewBytes(c.req)) < 255
Placed(c) == c.page = EndPage(c.end) /\ c.used = UsedBytes(c.end)

\* Where the first record may be, the bytes to write are those on the tag.
Agrees(page, bytes, end) == \A k \in Index : PageSize * page + k < end + 4 => bytes[k] = tag[page][k]

Rewriting == {"rewriteRead", "rewriteWrite"}
Appending == {"readLast", "splitWrite", "firstPage", "nextPage"}

\* What a call has found and left, if no transfer of it failed.
Stage(c) ==
    /\ c.pc \in {"readEnd", "readHeader"} \cup Rewriting => FirstRecord = c.was
    /\ c.pc \in {"readHeader"} \cup Rewriting => c.end = At(1) /\ Placed(c)
    /\ c.pc \in Rewriting => c.mbMe = composeNDEFMBME(TRUE, FALSE, At(2))
    /\ c.pc = "rewriteWrite" => nfcPageBuffer = tag[0]
    /\ c.pc \in Appending /\ Fits(c) =>
           /\ Kept(c.was, c.end)
           /\ c.pc \in {"readLast", "splitWrite"} => Placed(c)
           /\ c.pc \in {"splitWrite", "firstPage"} => Agrees(c.page, nfcPageBuffer, c.end)
           /\ c.pc = "firstPage" => c.page >= EndPage(c.end)
           /\ c.pc = "nextPage" => c.page > EndPage(c.end)

StoredKept ==
    stored.req.pos \in {"middle", "last"} /\ stored.was # Broken
        /\ stored.end + stored.req.len + Len(Compose(stored.req, 0)) < 255
        => stored.end \in Nat /\ Kept(stored.was, stored.end)

AddInv == (Adding(call) => Stage(call)) /\ StoredKept

LEMMA SameTag ==
    ASSUME tag' = tag
    PROVE  /\ FirstRecord' = FirstRecord /\ \A k : At(k)' = At(k)
           /\ \A w, end : Kept(w, end) => Kept(w, end)'
  <1>1. \A k : At(k)' = At(k)  BY DEF At
  <1>2. \A k : BigEndian(k)' = BigEndian(k)  BY <1>1, SMT DEF BigEndian
  <1>3. (Long <=> Long') /\ Limit' = Limit  BY <1>1, SMT DEF Long, Limit
  <1>4. FirstRecord' = FirstRecord
    <2> DEFINE base  == IF Long THEN 4 ELSE 2
               short == HasBit(At(base), BIT_SR)
               len   == IF short THEN At(base + 2) ELSE BigEndian(base + 2)
               pre   == IF short THEN 4 ELSE 7
               body  == [k \in 1 .. len |-> At(base + pre + k - 1)]
               wellFormed ==
                   /\ At(0) = NDEF_START_BYTE
                   /\ \A k \in 0 .. 6 : At(base + k) < 256 \/ (short /\ k > 3)
                   /\ HasBit(At(base), BIT_MB) /\ At(base + 1) = 1
                   /\ HasBit(At(base), BIT_ME) => pre + len = Limit
                   /\ pre + len <= Limit
                   /\ base + pre + len <= PageSize * (LastPage + 1)
    <2>1. FirstRecord = IF wellFormed THEN [type |-> At(base + pre - 1), body |-> body] ELSE Broken
      BY DEF FirstRecord
    <2>9. FirstRecord' = IF wellFormed'
                         THEN [type |-> At(base + pre - 1)', body |-> body'] ELSE Broken
      BY DEF FirstRecord, Broken
    <2>2. base' = base  BY <1>3
    <2> HIDE DEF base
    <2>3. (short <=> short') /\ len' = len  BY <1>1, <1>2, <2>2, SMT
    <2> HIDE DEF short, len
    <2>4. pre' = pre  BY <2>3
    <2> HIDE DEF pre
    <2>5. wellFormed <=> wellFormed'  BY <1>1, <1>3, <2>2, <2>3, <2>4, SMT
    <2>6. \A k : At(base + pre + k - 1)' = At(base + pre + k - 1)  BY <1>1, <2>2, <2>4
    <2>7. body' = body  BY <2>3, <2>6
    <2>8. At(base + pre - 1)' = At(base + pre - 1)  BY <1>1, <2>2, <2>4
    <2> HIDE DEF wellFormed, body
    <2> QED  BY <2>1, <2>5, <2>7, <2>8, <2>9
  <1>5. ASSUME NEW w, NEW end, Kept(w, end) PROVE Kept(w, end)'
    <2>1. Pre' = Pre /\ Payload' = Payload  BY <1>1, <1>2, SMT DEF Pre, Payload
    <2>2. ShortReadable => ShortReadable'  BY <1>1, <2>1, SMT DEF ShortReadable
    <2>3. ShortRecord' = ShortRecord
      <3>1. At(2 + Pre - 1)' = At(2 + Pre - 1)  BY <1>1, <2>1
      <3>2. \A k : At(2 + Pre + k - 1)' = At(2 + Pre + k - 1)  BY <1>1, <2>1
      <3> QED  BY <2>1, <3>1, <3>2 DEF ShortRecord
    <2> QED  BY <1>1, <1>5, <2>1, <2>2, <2>3, SMT DEF Kept
  <1> QED  BY <1>1, <1>4, <1>5

\* The place where the old records end, and what comes after it.
LEMMA EndPlace ==
    ASSUME NEW end \in Nat
    PROVE  /\ EndPage(end) \in Nat /\ UsedBytes(end) \in Nat
           /\ UsedBytes(end) < PageSize => PageSize * EndPage(end) + UsedBytes(end) = end + 4
           /\ PageSize * (EndPage(end) + 1) >= end + 4
  <1>1. PICK m : m = end + 5  OBVIOUS
  <1>2. PICK q : q = m \div 16  OBVIOUS
  <1>3. PICK r : r = m % 16  OBVIOUS
  <1>4. q \in Nat /\ r \in 0 .. 15 /\ m = 16 * q + r  BY <1>1, <1>2, <1>3, SMT
  <1>5. EndPage(end) = q /\ UsedBytes(end) = (r - 1) % 65536
    BY <1>1, <1>2, <1>3, SMT DEF EndPage, UsedBytes, PageSize
  <1>8. PICK x \in Int : x = r - 1  BY <1>4
  <1>6. UsedBytes(end) \in Nat /\ (UsedBytes(end) < 16 => UsedBytes(end) = r - 1)
    <2>1. CASE r = 0
      <3>1. x + 1 = 0  BY <1>8, <2>1
      <3>2. x % 65536 \in Nat /\ x % 65536 > 15  BY <3>1, SMT
      <3> QED  BY <1>5, <1>8, <3>2, SMT
    <2>2. CASE r # 0
      <3>1. x \in 0 .. 14  BY <1>4, <1>8, <2>2
      <3>2. x % 65536 = x  BY <3>1, SMT
      <3> QED  BY <1>5, <1>8, <3>1, <3>2, SMT
    <2> QED  BY <2>1, <2>2
  <1>7. PICK u : u = UsedBytes(end)  OBVIOUS
  <1> QED  BY <1>1, <1>4, <1>5, <1>6, <1>7 DEF PageSize

\* A record that can be read is not taken for an erased tag.
LEMMA HeaderOf ==
    ASSUME TagNumbers, SafeInv, FirstRecord # Broken, NEW c, NEW o \in HeaderRead(c, tag[0], TRUE)
    PROVE  o = [c EXCEPT !.end = At(1), !.mbMe = At(2)]
  <1>1. {0, 1, 2} \subseteq Index  BY DEF Index, PageSize
  <1>2. At(0) = tag[0][0] /\ At(1) = tag[0][1] /\ At(2) = tag[0][2]  BY <1>1, FirstBytes
  <1>3. Safe(tag[0])  BY TagAssumption DEF SafeInv
  <1>4. ~LooksErased(tag[0])  BY <1>3, ErasedIsBroken
  <1>5. At(0) = NDEF_START_BYTE
    <2>1. CASE At(0) # NDEF_START_BYTE
      <3>1. FirstRecord = Broken  BY <2>1 DEF FirstRecord
      <3> QED  BY <3>1
    <2> QED  BY <2>1
  <1>6. tag[0][0] = NDEF_START_BYTE /\ tag[0][2] # NTAG_ERASED  BY <1>2, <1>4, <1>5 DEF LooksErased
  <1> QED  BY <1>2, <1>6 DEF HeaderRead

\* A first record of the short form that can be read is over where its length says.
LEMMA FoundKept ==
    ASSUME TagNumbers, NEW w, FirstRecord = w, w # Broken, At(1) < 255
    PROVE  Kept(w, At(1))
  <1>1. At(1) # 255
    <2>1. 1 \in Index  BY DEF Index, PageSize
    <2> QED  BY <2>1, FirstBytes
  <1>2. ShortReadable /\ ShortRecord = w  BY <1>1, ShortForm
  <1> QED  BY <1>1, <1>2 DEF Kept, ShortReadable

LEMMA HeaderKeeps ==
    ASSUME NEW c, CallOK(c), NEW page, NEW ok, NEW o \in HeaderRead(c, page, ok)
    PROVE  o.clean = c.clean /\ o.was = c.was /\ o.page = c.page /\ o.used = c.used
  <1>1. CASE ok /\ page[0] = NDEF_START_BYTE /\ page[2] # NTAG_ERASED
    <2> DEFINE e == page[1]
               h == page[2]
    <2>1. o = [c EXCEPT !.end = e, !.mbMe = h]  BY <1>1 DEF HeaderRead
    <2> HIDE DEF e, h
    <2> QED  BY <2>1 DEF CallOK, Fields
  <1>2. CASE ~(ok /\ page[0] = NDEF_START_BYTE /\ page[2] # NTAG_ERASED)
    <2>1. o \in {[c EXCEPT !.end = 0, !.mbMe = g] : g \in {0, 255}}  BY <1>2 DEF HeaderRead
    <2>2. PICK g \in {0, 255} : o = [c EXCEPT !.end = 0, !.mbMe = g]  BY <2>1
    <2> QED  BY <2>2 DEF CallOK, Fields
  <1> QED  BY <1>1, <1>2

LEMMA StartKeeps ==
    ASSUME NEW o, CallOK(o), NEW page, NEW ptr, StartPayload(o, page, ptr)
    PROVE  /\ call'.req = o.req /\ call'.clean = o.clean /\ call'.was = o.was /\ call'.end = o.end
           /\ call'.page = o.page /\ call'.used = o.used
  <1> DEFINE rest == PageSize - ptr
  <1>1. call' = [o EXCEPT !.pc = "firstPage", !.added = rest]  BY DEF StartPayload
  <1> HIDE DEF rest
  <1> QED  BY <1>1 DEF CallOK, Fields

LEMMA NothingKept == ASSUME stored' = Nothing PROVE StoredKept'
  <1>1. stored'.req.pos = "none"  BY DEF Nothing, NoRecord
  <1> QED  BY <1>1 DEF StoredKept

LEMMA StoreAdds == ASSUME TagInv, NEW r \in Records, Store(r) PROVE AddInv'
  <1>1. stored' = Nothing /\ tag' = tag  BY DEF Store
  <1>2. StoredKept'  BY <1>1, NothingKept
  <1>3. CASE r.pos = "first"
    <2> DEFINE o == [Idle EXCEPT !.req = r]
    <2>1. StartPayload(o, HeaderPage(r), Ptr(r))  BY <1>3 DEF Store, HeaderPage, Ptr
    <2>2. CallOK(o) /\ o.req = r  BY DEF CallOK, Fields, Idle
    <2> HIDE DEF o
    <2>3. call'.req = r  BY <2>1, <2>2, Started
    <2> QED  BY <1>2, <1>3, <2>3 DEF AddInv, Adding
  <1>4. CASE r.pos # "first"
    <2>1. call' = [Idle EXCEPT !.req = r, !.pc = "readEnd", !.was = FirstRecord]
      BY <1>4 DEF Store
    <2>2. call'.pc = "readEnd" /\ call'.was = FirstRecord  BY <2>1 DEF Idle
    <2>3. FirstRecord' = FirstRecord  BY <1>1, SameTag
    <2>4. Stage(call)'  BY <2>2, <2>3 DEF Stage, Rewriting, Appending
    <2> QED  BY <1>2, <2>4 DEF AddInv
  <1> QED  BY <1>3, <1>4

LEMMA ReadEndAdds ==
    ASSUME TagInv, TagNumbers, SafeInv, AddInv, NEW ok \in BOOLEAN, ReadEnd(ok) PROVE AddInv'
  <1>0. /\ CallOK(call) /\ call.pc = "readEnd" /\ tag' = tag /\ stored' = stored /\ stored = Nothing
        /\ NT3HReadUserData(0, ok)
    <2>1. call.pc = "readEnd" /\ tag' = tag /\ stored' = stored /\ NT3HReadUserData(0, ok)
      BY DEF ReadEnd
    <2> QED  BY <2>1 DEF TagInv
  <1>1. StoredKept'  BY <1>0, NothingKept
  <1>2. PICK o \in HeaderRead(Note(call, ok), tag[0], ok) :
            call' = [o EXCEPT !.pc = "readHeader", !.page = EndPage(o.end), !.used = UsedBytes(o.end)]
    BY DEF ReadEnd
  <1>3. /\ CallOK(Note(call, ok)) /\ Note(call, ok).req = call.req /\ Note(call, ok).clean = (call.clean /\ ok)
        /\ Note(call, ok).was = call.was /\ Note(call, ok).pc = call.pc
    BY <1>0, Noted, NotedNumbers
  <1>4. CallOK(o) /\ o.req = call.req /\ o.clean = (call.clean /\ ok) /\ o.was = call.was
    <2>1. CallOK(o) /\ o.req = call.req  BY <1>2, <1>3, Header
    <2>2. o.clean = Note(call, ok).clean /\ o.was = Note(call, ok).was
      BY <1>2, <1>3, HeaderKeeps
    <2> QED  BY <1>3, <2>1, <2>2
  <1>5. /\ call'.pc = "readHeader" /\ call'.req = o.req /\ call'.clean = o.clean /\ call'.was = o.was
        /\ call'.end = o.end /\ call'.page = EndPage(o.end) /\ call'.used = UsedBytes(o.end)
    BY <1>2, <1>4 DEF CallOK, Fields
  <1>6. ASSUME Adding(call)' PROVE Stage(call)'
    <2>1. Adding(call) /\ ok = TRUE  BY <1>0, <1>4, <1>5, <1>6 DEF Adding
    <2>2. FirstRecord = call.was /\ call.was # Broken
      BY <1>0, <2>1 DEF AddInv, Stage, Adding
    <2>3. o = [Note(call, ok) EXCEPT !.end = At(1), !.mbMe = At(2)]  BY <1>2, <2>1, <2>2, HeaderOf
    <2>4. o.end = At(1)  BY <1>3, <2>3 DEF CallOK, Fields
    <2>5. FirstRecord' = FirstRecord /\ At(1)' = At(1)  BY <1>0, SameTag
    <2> QED  BY <1>4, <1>5, <2>2, <2>4, <2>5 DEF Stage, Placed, Rewriting, Appending
  <1> QED  BY <1>1, <1>6 DEF AddInv

LEMMA ReadHeaderAdds ==
    ASSUME TagInv, TagNumbers, SafeInv, AddInv, NEW ok \in BOOLEAN, ReadHeader(ok) PROVE AddInv'
  <1>0. CallOK(call) /\ call.pc = "readHeader" /\ tag' = tag /\ stored' = stored /\ stored = Nothing
    <2>1. call.pc = "readHeader" /\ tag' = tag /\ stored' = stored  BY DEF ReadHeader
    <2> QED  BY <2>1 DEF TagInv
  <1>1. StoredKept'  BY <1>0, NothingKept
  <1>2. PICK o \in HeaderRead(Note(call, ok), tag[0], ok) :
            call' = [o EXCEPT !.pc = "rewriteRead", !.mbMe = composeNDEFMBME(TRUE, FALSE, @)]
    BY DEF ReadHeader
  <1>3. /\ CallOK(Note(call, ok)) /\ Note(call, ok).req = call.req /\ Note(call, ok).clean = (call.clean /\ ok)
        /\ Note(call, ok).was = call.was /\ Note(call, ok).page = call.page /\ Note(call, ok).used = call.used
    BY <1>0, Noted, NotedNumbers
  <1>4. /\ CallOK(o) /\ o.req = call.req /\ o.clean = (call.clean /\ ok) /\ o.was = call.was
        /\ o.page = call.page /\ o.used = call.used
    <2>1. CallOK(o) /\ o.req = call.req  BY <1>2, <1>3, Header
    <2>2. /\ o.clean = Note(call, ok).clean /\ o.was = Note(call, ok).was /\ o.page = Note(call, ok).page
          /\ o.used = Note(call, ok).used
      BY <1>2, <1>3, HeaderKeeps
    <2> QED  BY <1>3, <2>1, <2>2
  <1> DEFINE h == composeNDEFMBME(TRUE, FALSE, o.mbMe)
  <1>5. call' = [o EXCEPT !.pc = "rewriteRead", !.mbMe = h]  BY <1>2
  <1> HIDE DEF h
  <1>6. /\ call'.pc = "rewriteRead" /\ call'.req = o.req /\ call'.clean = o.clean /\ call'.was = o.was
        /\ call'.end = o.end /\ call'.page = o.page /\ call'.used = o.used /\ call'.mbMe = h
    BY <1>4, <1>5 DEF CallOK, Fields
  <1>7. ASSUME Adding(call)' PROVE Stage(call)'
    <2>1. Adding(call) /\ ok = TRUE  BY <1>0, <1>4, <1>6, <1>7 DEF Adding
    <2>2. FirstRecord = call.was /\ call.was # Broken /\ call.end = At(1) /\ Placed(call)
      BY <1>0, <2>1 DEF AddInv, Stage, Adding
    <2>3. o = [Note(call, ok) EXCEPT !.end = At(1), !.mbMe = At(2)]  BY <1>2, <2>1, <2>2, HeaderOf
    <2>4. o.end = At(1) /\ o.mbMe = At(2)  BY <1>3, <2>3 DEF CallOK, Fields
    <2>5. FirstRecord' = FirstRecord /\ At(1)' = At(1) /\ At(2)' = At(2)  BY <1>0, SameTag
    <2>6. h = composeNDEFMBME(TRUE, FALSE, At(2)')  BY <2>4, <2>5 DEF h
    <2>7. call'.mbMe = composeNDEFMBME(TRUE, FALSE, At(2))'  BY <1>6, <2>6 DEF composeNDEFMBME, Set, Clear, HasBit
    <2>8. Placed(call)'  BY <1>4, <1>6, <2>2, <2>4 DEF Placed
    <2> QED  BY <1>4, <1>6, <2>2, <2>4, <2>5, <2>7, <2>8 DEF Stage, Rewriting, Appending
  <1> QED  BY <1>1, <1>7 DEF AddInv

LEMMA RewriteReadAdds ==
    ASSUME TagInv, TagNumbers, AddInv, NEW ok \in BOOLEAN, RewriteRead(ok) PROVE AddInv'
  <1>0. /\ CallOK(call) /\ call.pc = "rewriteRead" /\ tag' = tag /\ stored' = stored /\ stored = Nothing
        /\ NT3HReadUserData(0, ok)
    <2>1. call.pc = "rewriteRead" /\ tag' = tag /\ stored' = stored /\ NT3HReadUserData(0, ok)
      BY DEF RewriteRead
    <2> QED  BY <2>1 DEF TagInv
  <1>1. StoredKept'  BY <1>0, NothingKept
  <1> DEFINE c == Note(call, ok)
  <1>2. /\ CallOK(c) /\ c.req = call.req /\ c.clean = (call.clean /\ ok) /\ c.end = call.end
        /\ c.was = call.was /\ c.page = call.page /\ c.used = call.used /\ c.mbMe = call.mbMe
    BY <1>0, Noted, NotedNumbers
  <1>3. PICK where : call' = [c EXCEPT !.pc = where] /\ (ok => where = "rewriteWrite")  BY DEF RewriteRead
  <1> HIDE DEF c
  <1>4. /\ call'.pc = where /\ call'.req = c.req /\ call'.clean = c.clean /\ call'.was = c.was
        /\ call'.end = c.end /\ call'.page = c.page /\ call'.used = c.used /\ call'.mbMe = c.mbMe
    BY <1>2, <1>3 DEF CallOK, Fields
  <1>5. ASSUME Adding(call)' PROVE Stage(call)'
    <2>1. Adding(call) /\ ok  BY <1>0, <1>2, <1>4, <1>5 DEF Adding
    <2>2. /\ FirstRecord = call.was /\ call.end = At(1) /\ Placed(call)
          /\ call.mbMe = composeNDEFMBME(TRUE, FALSE, At(2))
      BY <1>0, <2>1 DEF AddInv, Stage, Rewriting
    <2>3. FirstRecord' = FirstRecord /\ At(1)' = At(1) /\ At(2)' = At(2)  BY <1>0, SameTag
    <2>4. nfcPageBuffer' = tag[0]  BY <1>0, <2>1, TagAssumption DEF NT3HReadUserData
    <2>5. call'.mbMe = composeNDEFMBME(TRUE, FALSE, At(2))'
      BY <1>2, <1>4, <2>2, <2>3 DEF composeNDEFMBME, Set, Clear, HasBit
    <2>6. Placed(call)'  BY <1>2, <1>4, <2>2 DEF Placed
    <2> QED  BY <1>0, <1>2, <1>3, <1>4, <2>1, <2>2, <2>3, <2>4, <2>5, <2>6 DEF Stage, Rewriting, Appending
  <1> QED  BY <1>1, <1>5 DEF AddInv

\* The first page as it is rewritten: another length, another header.
LEMMA RewrittenKept ==
    ASSUME TagNumbers, DOMAIN tag = 0 .. LastPage, NEW w, FirstRecord = w, w # Broken,
           NEW sum \in Nat, At(1) <= sum, sum < 255,
           NEW h, h = composeNDEFMBME(TRUE, FALSE, At(2)),
           NEW page, page[0] = tag[0][0], page[1] = sum, page[2] = h,
           \A k \in Index \ {1, 2} : page[k] = tag[0][k], tag' = [tag EXCEPT ![0] = page],
           NEW end, end = At(1)
    PROVE  Kept(w, end)'
  <1>0. {0, 1, 2} \subseteq Index /\ 0 \in 0 .. LastPage
    <2>1. {0, 1, 2} \subseteq Index  BY DEF Index, PageSize
    <2>2. 0 \in 0 .. LastPage  BY TagAssumption
    <2> QED  BY <2>1, <2>2
  <1>1. end \in Nat /\ At(2) \in Nat  BY <1>0, FirstBytes
  <1>2. end < 255  BY <1>1
  <1>3. Kept(w, end)  BY <1>2, FoundKept
  <1>7. tag'[0] = page /\ \A p \in 0 .. LastPage : p # 0 => tag'[p] = tag[p]  BY <1>0
  <1>8. At(0)' = At(0) /\ At(1)' = sum /\ At(2)' = h
    <2>1. \A k \in {0, 1, 2} : k \div PageSize = 0 /\ k % PageSize = k  BY <1>0, OnFirstPage
    <2> QED  BY <1>7, <2>1 DEF At
  <1>9. \A k \in 3 .. end + 1 : At(k)' = At(k)
    <2>1. ASSUME NEW k \in 3 .. end + 1 PROVE At(k)' = At(k)
      <3>1. k \in Nat /\ k > 2  BY <1>1, <2>1
      <3>2. PICK q \in Nat : q = k \div PageSize  BY <3>1, Place
      <3>3. PICK r \in Index : r = k % PageSize  BY <3>1, Place
      <3>4. k = PageSize * q + r  BY <3>1, <3>2, <3>3, Place
      <3>5. CASE q = 0
        <4>1. r \notin {1, 2}  BY <3>1, <3>4, <3>5 DEF PageSize
        <4>2. tag'[q][r] = tag[q][r]  BY <1>0, <1>7, <3>5, <4>1
        <4> QED  BY <3>2, <3>3, <4>2 DEF At
      <3>6. CASE q # 0
        <4>1. tag'[q] = tag[q]  BY <3>6
        <4> QED  BY <3>2, <3>3, <4>1 DEF At
      <3> QED  BY <3>5, <3>6
    <2> QED  BY <2>1
  <1>10. At(2) < 256 /\ HasBit(At(2), BIT_MB)
    <2>1. ShortReadable  BY <1>3 DEF Kept
    <2>2. At(2 + 0) < 256 \/ (HasBit(At(2), BIT_SR) /\ 0 > 3)  BY <2>1 DEF ShortReadable
    <2> QED  BY <2>1, <2>2 DEF ShortReadable
  <1>11. h < 256 /\ HasBit(h, BIT_MB) /\ ~HasBit(h, BIT_ME) /\ (HasBit(h, BIT_SR) <=> HasBit(At(2), BIT_SR))
    <2>1. PICK old \in Nat : old = At(2)  BY <1>1
    <2>2. PICK new : new = composeNDEFMBME(TRUE, FALSE, old)  OBVIOUS
    <2>3. h = new /\ old < 256 /\ HasBit(old, BIT_MB)  BY <1>10, <2>1, <2>2
    <2>4. /\ ~HasBit(new, BIT_ME) /\ new < 256 /\ HasBit(new, BIT_MB)
          /\ HasBit(new, BIT_SR) <=> HasBit(old, BIT_SR)
      BY <2>2, <2>3, RewrittenHeader
    <2> QED  BY <2>1, <2>3, <2>4
  <1>12. At(2)' < 256 /\ HasBit(At(2)', BIT_MB) /\ ~HasBit(At(2)', BIT_ME) /\ (HasBit(At(2)', BIT_SR) <=> HasBit(At(2), BIT_SR))
    BY <1>8, <1>11, Zenon
  <1>13. At(1)' \in Nat /\ At(1)' # 255 /\ At(1) <= At(1)' /\ At(0)' = At(0)  BY <1>8
  <1> QED  BY <1>1, <1>3, <1>9, <1>12, <1>13, KeptThrough

LEMMA RewriteWriteAdds ==
    ASSUME TagInv, TagNumbers, AddInv, NEW ok \in BOOLEAN, RewriteWrite(ok) PROVE AddInv'
  <1> DEFINE total == call.end + call.req.len + Len(NewBytes(call.req))
             sum == total % 256
             mbMe == call.mbMe
             page == [nfcPageBuffer EXCEPT ![1] = sum, ![2] = mbMe]
             c == Note(call, ok)
  <1>0. /\ CallOK(call) /\ call.pc = "rewriteWrite" /\ stored' = stored /\ stored = Nothing
        /\ NT3HWriteUserData(0, page, ok) /\ DOMAIN tag = 0 .. LastPage /\ call.req \in Records
        /\ call' = [c EXCEPT !.pc = "readLast"]
    <2>1. call.pc = "rewriteWrite" /\ stored' = stored /\ NT3HWriteUserData(0, page, ok)
      BY DEF RewriteWrite
    <2>2. call' = [c EXCEPT !.pc = "readLast"]  BY DEF RewriteWrite
    <2> QED  BY <2>1, <2>2 DEF TagInv
  <1>1. StoredKept'  BY <1>0, NothingKept
  <1>2. /\ CallOK(c) /\ c.req = call.req /\ c.clean = (call.clean /\ ok) /\ c.end = call.end
        /\ c.was = call.was /\ c.page = call.page /\ c.used = call.used
    BY <1>0, Noted, NotedNumbers
  <1> HIDE DEF c, sum, mbMe, page, total
  <1>3. /\ call'.pc = "readLast" /\ call'.req = c.req /\ call'.clean = c.clean /\ call'.was = c.was
        /\ call'.end = c.end /\ call'.page = c.page /\ call'.used = c.used
    BY <1>0, <1>2 DEF CallOK, Fields
  <1>4. ASSUME Adding(call)', Fits(call)' PROVE Kept(call.was, call.end)' /\ Placed(call)'
    <2>1. Adding(call) /\ ok  BY <1>0, <1>2, <1>3, <1>4 DEF Adding
    <2>2. /\ FirstRecord = call.was /\ call.end = At(1) /\ Placed(call) /\ nfcPageBuffer = tag[0]
          /\ mbMe = composeNDEFMBME(TRUE, FALSE, At(2)) /\ call.was # Broken
      BY <1>0, <2>1 DEF AddInv, Stage, Rewriting, mbMe, Adding
    <2>3. total \in Nat /\ call.end \in Nat /\ call.end <= total
      <3>1. call.end \in Nat /\ call.req.len \in Nat  BY <1>0, RecordFields DEF TagNumbers, Numbers
      <3>2. Len(NewBytes(call.req)) \in {5, 7, 10}  BY <1>0, NewFacts
      <3>3. PICK n \in {5, 7, 10} : n = Len(NewBytes(call.req))  BY <3>2
      <3>4. total = call.end + call.req.len + n  BY <3>3 DEF total
      <3> QED  BY <3>1, <3>4
    <2>4. total < 255  BY <1>2, <1>3, <1>4 DEF Fits, total
    <2>5. sum = total  BY <2>3, <2>4 DEF sum
    <2>6. /\ tag' = [tag EXCEPT ![0] = page] /\ page[0] = tag[0][0] /\ page[1] = sum /\ page[2] = mbMe
          /\ \A k \in Index \ {1, 2} : page[k] = tag[0][k]
      <3>1. {0, 1, 2} \subseteq Index /\ DOMAIN nfcPageBuffer = Index  BY DEF Index, PageSize, TagNumbers, Page
      <3>2. page[1] = sum /\ page[2] = mbMe  BY <3>1 DEF page
      <3>3. \A k \in Index \ {1, 2} : page[k] = tag[0][k]  BY <2>2, <3>1 DEF page
      <3>4. 0 <= LastPage  BY TagAssumption
      <3>5. tag' = [tag EXCEPT ![0] = page]  BY <1>0, <2>1, <3>4 DEF NT3HWriteUserData
      <3> QED  BY <3>1, <3>2, <3>3, <3>5
    <2>7. PICK w : w = call.was  OBVIOUS
    <2>8. PICK end : end = call.end  OBVIOUS
    <2>9. Kept(w, end)'
      <3>1. sum \in Nat /\ At(1) <= sum /\ sum < 255  BY <2>2, <2>3, <2>4, <2>5
      <3>2. FirstRecord = w /\ w # Broken /\ end = At(1)  BY <2>2, <2>7, <2>8
      <3> QED  BY <1>0, <2>2, <2>6, <3>1, <3>2, RewrittenKept
    <2>10. w = call'.was /\ end = call'.end  BY <1>2, <1>3, <2>7, <2>8
    <2>11. Kept(call.was, call.end)'  BY <2>9, <2>10
    <2>12. Placed(call)'  BY <1>2, <1>3, <2>2 DEF Placed
    <2> QED  BY <2>11, <2>12
  <1>5. ASSUME Adding(call)' PROVE Stage(call)'  BY <1>3, <1>4, <1>5 DEF Stage, Rewriting, Appending
  <1> QED  BY <1>1, <1>5 DEF AddInv

\* What is put on the last used page is behind what it holds.
LEMMA OverlayAgrees ==
    ASSUME NEW end \in Nat, NEW used, used = UsedBytes(end), used < PageSize, NEW at, at = EndPage(end),
           NEW page, NEW new, \A k \in Index : k < used => new[k] = page[k]
    PROVE  \A k \in Index : PageSize * at + k < end + 4 => new[k] = page[k]
  <1>1. at \in Nat /\ used \in Nat /\ PageSize * at + used = end + 4  BY EndPlace
  <1>2. \A k \in Index : PageSize * at + k < end + 4 => k < used  BY <1>1 DEF Index, PageSize
  <1> QED  BY <1>2

LEMMA ReadLastAdds ==
    ASSUME TagInv, TagNumbers, AddInv, NEW ok \in BOOLEAN, ReadLast(ok) PROVE AddInv'
  <1> DEFINE can == ok /\ call.page <= LastPage
             o == Note(call, can)
             bytes == NewBytes(call.req)
             page == IF can THEN tag[call.page] ELSE nfcPageBuffer
             most == SubSeq(bytes, 1, PageSize - call.used)
             part == Overlay(page, call.used, most)
             over == Overlay(page, call.used, bytes)
             at == call.used + Len(bytes)
             whole == Fill(call.req, over, at)
  <1>0. /\ CallOK(call) /\ call.pc = "readLast" /\ stored' = stored /\ stored = Nothing /\ tag' = tag
        /\ call.req \in Records /\ call.used \in Nat /\ call.page \in Nat /\ call.end \in Nat
    <2>1. call.pc = "readLast" /\ tag' = tag /\ stored' = stored  BY DEF ReadLast
    <2> QED  BY <2>1 DEF TagInv, TagNumbers, Numbers
  <1>1. StoredKept'  BY <1>0, NothingKept
  <1>2. /\ CallOK(o) /\ o.req = call.req /\ (o.clean => call.clean /\ can) /\ o.was = call.was
        /\ o.page = call.page /\ o.used = call.used /\ o.end = call.end
    <2>1. can \in BOOLEAN  OBVIOUS
    <2> HIDE DEF can
    <2> QED  BY <1>0, <2>1, Noted, NotedNumbers
  <1>3. \/ call' = [o EXCEPT !.pc = "fault"]
        \/ StartPayload(o, over, at) /\ ~(call.used >= PageSize)
        \/ ~(call.used >= PageSize) /\ nfcPageBuffer' = part /\ call' = [o EXCEPT !.pc = "splitWrite"]
    BY DEF ReadLast
  <1>4. \A k \in Index : k < call.used => whole[k] = page[k] /\ part[k] = page[k]
    <2>1. ASSUME NEW k \in Index, k < call.used PROVE whole[k] = page[k] /\ part[k] = page[k]
      <3>1. PICK n \in {5, 7, 10} : n = Len(bytes)  BY <1>0, NewFacts
      <3>2. k \in Nat  BY DEF Index, PageSize
      <3>3. over[k] = page[k]
        <4>1. ~(k - call.used \in 0 .. n - 1)  BY <1>0, <2>1, <3>2
        <4> QED  BY <3>1, <4>1 DEF Overlay
      <3>4. k < at  BY <1>0, <2>1, <3>1, <3>2
      <3>5. whole[k] = over[k]
        <4> HIDE DEF over, at
        <4> QED  BY <3>4 DEF Fill
      <3>6. ~(k - call.used \in 0 .. Len(most) - 1)  BY <1>0, <2>1, <3>2
      <3>7. part[k] = page[k]
        <4> HIDE DEF most
        <4> QED  BY <3>6 DEF Overlay
      <3> QED  BY <3>3, <3>5, <3>7
    <2> QED  BY <2>1
  <1> HIDE DEF o, page, part, over, at
  <1>5. \/ call'.pc = "fault"
        \/ call'.pc = "firstPage" /\ ~(call.used >= PageSize) /\ nfcPageBuffer' = whole
        \/ call'.pc = "splitWrite" /\ ~(call.used >= PageSize) /\ nfcPageBuffer' = part
    <2>1. CASE call' = [o EXCEPT !.pc = "fault"]  BY <1>2, <2>1 DEF CallOK, Fields
    <2>2. CASE StartPayload(o, over, at) /\ ~(call.used >= PageSize)
      <3>1. call'.pc = "firstPage"  BY <1>2, <2>2, Started
      <3>2. nfcPageBuffer' = whole  BY <1>2, <2>2 DEF StartPayload
      <3> QED  BY <2>2, <3>1, <3>2
    <2>3. CASE ~(call.used >= PageSize) /\ nfcPageBuffer' = part /\ call' = [o EXCEPT !.pc = "splitWrite"]
      BY <1>2, <2>3 DEF CallOK, Fields
    <2> QED  BY <1>3, <2>1, <2>2, <2>3
  <1>6. /\ call'.req = o.req /\ call'.clean = o.clean /\ call'.was = o.was /\ call'.end = o.end
        /\ call'.page = o.page /\ call'.used = o.used
    <2>1. CASE \E where : call' = [o EXCEPT !.pc = where]  BY <1>2, <2>1 DEF CallOK, Fields
    <2>2. CASE StartPayload(o, over, at)  BY <1>2, <2>2, StartKeeps
    <2> QED  BY <1>3, <2>1, <2>2
  <1> HIDE DEF whole
  <1>7. ASSUME Adding(call)' PROVE Stage(call)'
    <2>1. Adding(call) /\ can  BY <1>0, <1>2, <1>6, <1>7 DEF Adding
    <2>2. page = tag[call.page]  BY <2>1 DEF page
    <2>3. ASSUME Fits(call)' PROVE Kept(call.was, call.end)' /\ Placed(call)' /\ Placed(call)
      <3>1. Fits(call)  BY <1>2, <1>6, <2>3 DEF Fits
      <3>2. Kept(call.was, call.end) /\ Placed(call)  BY <1>0, <2>1, <3>1 DEF AddInv, Stage, Appending
      <3>3. PICK w : w = call.was  OBVIOUS
      <3>4. PICK end : end = call.end  OBVIOUS
      <3>5. Kept(w, end)'  BY <1>0, <3>2, <3>3, <3>4, SameTag
      <3>6. w = call'.was /\ end = call'.end  BY <1>2, <1>6, <3>3, <3>4
      <3>7. Kept(call.was, call.end)'  BY <3>5, <3>6
      <3>8. Placed(call)'  BY <1>2, <1>6, <3>2 DEF Placed
      <3> QED  BY <3>2, <3>7, <3>8
    <2>4. ASSUME Fits(call)', call'.pc \in {"firstPage", "splitWrite"}
          PROVE  Agrees(call.page, nfcPageBuffer, call.end)'
      <3>1. Placed(call)  BY <2>3, <2>4
      <3>2. nfcPageBuffer' \in {whole, part} /\ ~(call.used >= PageSize)  BY <1>5, <2>4
      <3>3. PICK new : new = nfcPageBuffer'  OBVIOUS
      <3>4. \A k \in Index : k < call.used => new[k] = tag[call.page][k]  BY <1>4, <2>2, <3>2, <3>3
      <3>5. call.used < PageSize  BY <1>0, <3>2 DEF PageSize
      <3>6. PICK end \in Nat : end = call.end  BY <1>0
      <3>7. PICK p : p = call.page  OBVIOUS
      <3>8. \A k \in Index : PageSize * p + k < end + 4 => new[k] = tag[p][k]
        BY <3>1, <3>4, <3>5, <3>6, <3>7, OverlayAgrees DEF Placed
      <3>9. p = call'.page /\ end = call'.end  BY <1>2, <1>6, <3>6, <3>7
      <3> QED  BY <1>0, <3>3, <3>8, <3>9 DEF Agrees
    <2>5. ASSUME Fits(call)' PROVE call'.page >= EndPage(call'.end)
      <3>1. call'.page = EndPage(call'.end) /\ call'.page \in Nat  BY <1>0, <1>2, <1>6, <2>3, <2>5 DEF Placed
      <3> QED  BY <3>1
    <2> QED  BY <1>5, <2>3, <2>4, <2>5 DEF Stage, Rewriting, Appending
  <1> QED  BY <1>1, <1>7 DEF AddInv

\* Writing a page of the new record leaves the first one.
LEMMA WrittenKept ==
    ASSUME TagNumbers, DOMAIN tag = 0 .. LastPage, NEW p \in Nat, NEW bytes, NEW ok, NT3HWriteUserData(p, bytes, ok),
           NEW w, NEW end \in Nat, Kept(w, end), Agrees(p, bytes, end)
    PROVE  Kept(w, end)'
  <1>1. \A k \in 0 .. end + 1 : At(k)' = At(k)  BY WrittenBehind DEF Agrees
  <1> QED  BY <1>1, KeptBelow

\* A later page is behind the old records.
LEMMA Later ==
    ASSUME NEW end \in Nat, NEW p \in Nat, p > EndPage(end)
    PROVE  \A k \in Index : ~(PageSize * p + k < end + 4)
  <1>1. PICK q \in Nat : q = EndPage(end)  BY EndPlace
  <1>2. 16 * (q + 1) >= end + 4  BY <1>1, EndPlace DEF PageSize
  <1>3. \A k \in Index : ~(16 * p + k < end + 4)  BY <1>1, <1>2 DEF Index, PageSize
  <1> QED  BY <1>3 DEF PageSize

LEMMA SplitAdds ==
    ASSUME TagInv, TagNumbers, AddInv, NEW ok \in BOOLEAN, SplitWrite(ok) PROVE AddInv'
  <1> DEFINE next == call.page + 1
             o == [Note(call, ok) EXCEPT !.page = next]
             rest == SubSeq(NewBytes(call.req), PageSize - call.used + 1, Len(NewBytes(call.req)))
             page == Overlay(nfcPageBuffer, 0, rest)
             at == Len(rest)
  <1>0. /\ CallOK(call) /\ DOMAIN tag = 0 .. LastPage /\ call.pc = "splitWrite" /\ call.page \in Nat
        /\ call.end \in Nat /\ NT3HWriteUserData(call.page, nfcPageBuffer, ok)
        /\ stored' = stored /\ stored = Nothing
    <2>1. call.pc = "splitWrite" /\ NT3HWriteUserData(call.page, nfcPageBuffer, ok) /\ stored' = stored
      BY DEF SplitWrite
    <2> QED  BY <2>1 DEF TagInv, TagNumbers, Numbers
  <1>1. StoredKept'  BY <1>0, NothingKept
  <1>2. /\ CallOK(Note(call, ok)) /\ Note(call, ok).req = call.req /\ Note(call, ok).page = call.page
        /\ Note(call, ok).clean = (call.clean /\ ok) /\ Note(call, ok).was = call.was /\ Note(call, ok).end = call.end
    BY <1>0, Noted, NotedNumbers
  <1>3. StartPayload(o, page, at)
    <2>1. StartPayload([Note(call, ok) EXCEPT !.page = @ + 1], page, at)  BY DEF SplitWrite
    <2>2. o = [Note(call, ok) EXCEPT !.page = @ + 1]  BY <1>2
    <2> QED  BY <2>1, <2>2
  <1> HIDE DEF next, page, at
  <1>4. /\ CallOK(o) /\ o.req = call.req /\ o.clean = (call.clean /\ ok) /\ o.was = call.was /\ o.end = call.end
        /\ o.page = next
    BY <1>2 DEF CallOK, Fields
  <1> HIDE DEF o
  <1>5. /\ call'.pc = "firstPage" /\ call'.req = o.req /\ call'.clean = o.clean /\ call'.was = o.was
        /\ call'.end = o.end /\ call'.page = next
    BY <1>3, <1>4, Started, StartKeeps
  <1>6. ASSUME Adding(call)', Fits(call)'
        PROVE  /\ Kept(call.was, call.end)' /\ Agrees(call.page, nfcPageBuffer, call.end)'
               /\ call'.page >= EndPage(call'.end)
    <2>1. Adding(call) /\ Fits(call)  BY <1>0, <1>4, <1>5, <1>6 DEF Adding, Fits
    <2>2. Kept(call.was, call.end) /\ Placed(call) /\ Agrees(call.page, nfcPageBuffer, call.end)
      BY <1>0, <2>1 DEF AddInv, Stage, Appending
    <2>3. PICK w : w = call.was  OBVIOUS
    <2>4. PICK end \in Nat : end = call.end  BY <1>0
    <2>5. Kept(w, end)'  BY <1>0, <2>2, <2>3, <2>4, WrittenKept
    <2>6. w = call'.was /\ end = call'.end  BY <1>4, <1>5, <2>3, <2>4
    <2>7. next \in Nat /\ next > EndPage(end)
      <3>1. call.page = EndPage(end)  BY <2>2, <2>4 DEF Placed
      <3> QED  BY <1>0, <3>1 DEF next
    <2>8. \A k \in Index : ~(PageSize * next + k < end + 4)  BY <2>7, Later
    <2>9. \A k \in Index : ~(PageSize * call'.page + k < call'.end + 4)  BY <1>5, <2>6, <2>8
    <2>10. Agrees(call.page, nfcPageBuffer, call.end)'  BY <2>9 DEF Agrees
    <2>11. call'.page >= EndPage(call'.end)
      <3>1. PICK q \in Nat : q = EndPage(end)  BY EndPlace
      <3>2. next >= q  BY <2>7, <3>1
      <3> QED  BY <1>5, <2>6, <3>1, <3>2
    <2> QED  BY <2>5, <2>6, <2>10, <2>11
  <1>7. ASSUME Adding(call)' PROVE Stage(call)'  BY <1>5, <1>6, <1>7 DEF Stage, Rewriting, Appending
  <1> QED  BY <1>1, <1>7 DEF AddInv

\* A call that returns leaves what it has kept.
LEMMA ReturnAdds ==
    ASSUME CallOK(call), call.pc # "idle", call.req \in Records, call.end \in Nat,
           NEW ok \in BOOLEAN, Return(Note(call, ok), Written(ok)),
           NEW w, w = call.was, NEW end, end = call.end, Adding(call) /\ Fits(call) => Kept(w, end)'
    PROVE  AddInv'
  <1>1. /\ Note(call, ok).clean = (call.clean /\ ok) /\ Note(call, ok).req = call.req
        /\ Note(call, ok).was = call.was /\ Note(call, ok).end = call.end
    BY Noted, NotedNumbers
  <1>2. call' = Idle  BY DEF Return
  <1>3. ~Adding(call)'  BY <1>2 DEF Adding, Idle
  <1>4. StoredKept'
    <2>1. CASE stored' = Nothing  BY <2>1, NothingKept
    <2>2. CASE Note(call, ok).clean /\ stored' = [req |-> call.req, was |-> call.was, end |-> call.end]
      <3>1. stored'.req = call.req /\ stored'.was = w /\ stored'.end = end  BY <2>2
      <3>2. ASSUME stored'.req.pos \in {"middle", "last"}, stored'.was # Broken,
                   stored'.end + stored'.req.len + Len(Compose(stored'.req, 0)) < 255
            PROVE  stored'.end \in Nat /\ Kept(stored.was, stored.end)'
        <4>1. Len(NewBytes(call.req)) = Len(Compose(call.req, 0))  BY NewBytesAre
        <4>2. PICK n : n = Len(NewBytes(call.req))  OBVIOUS
        <4>3. call.end + call.req.len + n < 255  BY <3>1, <3>2, <4>1, <4>2
        <4>4. Fits(call)  BY <4>2, <4>3 DEF Fits
        <4>5. Adding(call)  BY <1>1, <2>2, <3>1, <3>2 DEF Adding
        <4>6. Kept(w, end)'  BY <4>4, <4>5
        <4> QED  BY <3>1, <4>6
      <3> QED  BY <3>2 DEF StoredKept, Compose, composeRtdText, composeRtdUri, Set, HasBit
    <2>3. stored' = Nothing \/ (Note(call, ok).clean /\ stored' = [req |-> call.req, was |-> call.was, end |-> call.end])
      BY <1>1 DEF Return
    <2> QED  BY <2>1, <2>2, <2>3
  <1> QED  BY <1>3, <1>4 DEF AddInv

LEMMA WriteFirstAdds ==
    ASSUME TagInv, TagNumbers, AddInv, NEW ok \in BOOLEAN, WriteFirstPage(ok) PROVE AddInv'
  <1>0. /\ CallOK(call) /\ DOMAIN tag = 0 .. LastPage /\ call.pc = "firstPage" /\ call.page \in Nat
        /\ call.end \in Nat /\ call.req \in Records /\ NT3HWriteUserData(call.page, nfcPageBuffer, ok)
        /\ stored = Nothing
    <2>1. call.pc = "firstPage" /\ NT3HWriteUserData(call.page, nfcPageBuffer, ok)  BY DEF WriteFirstPage
    <2> QED  BY <2>1 DEF TagInv, TagNumbers, Numbers
  <1>1. PICK w : w = call.was  OBVIOUS
  <1>2. PICK end \in Nat : end = call.end  BY <1>0
  <1>3. ASSUME Adding(call), Fits(call) PROVE Kept(w, end)' /\ call.page >= EndPage(end)
    <2>1. /\ Kept(call.was, call.end) /\ Agrees(call.page, nfcPageBuffer, call.end)
          /\ call.page >= EndPage(call.end)
      BY <1>0, <1>3 DEF AddInv, Stage, Appending
    <2>2. Kept(w, end)'  BY <1>0, <1>1, <1>2, <2>1, WrittenKept
    <2> QED  BY <1>2, <2>1, <2>2
  <1>4. CASE Return(Note(call, ok), Written(ok))
    BY <1>0, <1>1, <1>2, <1>3, <1>4, ReturnAdds
  <1>5. CASE call' = [Note(call, ok) EXCEPT !.pc = "nextPage", !.page = @ + 1] /\ stored' = stored
    <2>1. StoredKept'  BY <1>0, <1>5, NothingKept
    <2> DEFINE next == call.page + 1
               c == Note(call, ok)
    <2>2. /\ CallOK(c) /\ c.req = call.req /\ c.page = call.page
          /\ c.clean = (call.clean /\ ok) /\ c.was = call.was /\ c.end = call.end
      BY <1>0, Noted, NotedNumbers
    <2>3. call' = [c EXCEPT !.pc = "nextPage", !.page = next]  BY <1>5, <2>2
    <2> HIDE DEF c
    <2>4. next \in Nat /\ next > call.page  BY <1>0
    <2> HIDE DEF next
    <2>5. /\ call'.pc = "nextPage" /\ call'.req = c.req /\ call'.clean = c.clean /\ call'.was = c.was
          /\ call'.end = c.end /\ call'.page = next
      BY <2>2, <2>3 DEF CallOK, Fields
    <2>6. ASSUME Adding(call)', Fits(call)' PROVE Kept(call.was, call.end)' /\ call'.page > EndPage(call'.end)
      <3>1. Adding(call) /\ Fits(call)  BY <1>0, <2>2, <2>5, <2>6 DEF Adding, Fits
      <3>2. Kept(w, end)' /\ call.page >= EndPage(end)  BY <1>3, <3>1
      <3>3. w = call'.was /\ end = call'.end  BY <1>1, <1>2, <2>2, <2>5
      <3>4. PICK q \in Nat : q = EndPage(end)  BY EndPlace
      <3>5. next > q  BY <1>0, <2>4, <3>2, <3>4
      <3> QED  BY <2>5, <3>2, <3>3, <3>4, <3>5
    <2>7. ASSUME Adding(call)' PROVE Stage(call)'  BY <2>5, <2>6, <2>7 DEF Stage, Rewriting, Appending
    <2> QED  BY <2>1, <2>7 DEF AddInv
  <1> QED  BY <1>4, <1>5 DEF WriteFirstPage

LEMMA WriteNextAdds ==
    ASSUME TagInv, TagNumbers, AddInv, NEW ok \in BOOLEAN, WriteNextPage(ok) PROVE AddInv'
  <1> DEFINE bytes == Chunk(call.req, call.added)
  <1>0. /\ CallOK(call) /\ DOMAIN tag = 0 .. LastPage /\ call.pc = "nextPage" /\ call.page \in Nat
        /\ call.end \in Nat /\ call.req \in Records /\ NT3HWriteUserData(call.page, bytes, ok)
        /\ stored = Nothing
    <2>1. call.pc = "nextPage" /\ NT3HWriteUserData(call.page, bytes, ok)  BY DEF WriteNextPage
    <2> HIDE DEF bytes
    <2> QED  BY <2>1 DEF TagInv, TagNumbers, Numbers
  <1> HIDE DEF bytes
  <1>1. PICK w : w = call.was  OBVIOUS
  <1>2. PICK end \in Nat : end = call.end  BY <1>0
  <1>3. ASSUME Adding(call), Fits(call) PROVE Kept(w, end)' /\ call.page > EndPage(end)
    <2>1. Kept(call.was, call.end) /\ call.page > EndPage(call.end)
      BY <1>0, <1>3 DEF AddInv, Stage, Appending
    <2>2. \A k \in Index : ~(PageSize * call.page + k < end + 4)  BY <1>0, <1>2, <2>1, Later
    <2>3. Agrees(call.page, bytes, end)  BY <2>2 DEF Agrees
    <2>4. Kept(w, end)'  BY <1>0, <1>1, <1>2, <2>1, <2>3, WrittenKept
    <2> QED  BY <1>2, <2>1, <2>4
  <1>4. CASE Return(Note(call, ok), Written(ok))
    BY <1>0, <1>1, <1>2, <1>3, <1>4, ReturnAdds
  <1>5. CASE call' = [call EXCEPT !.page = @ + 1, !.added = @ + PageSize] /\ stored' = stored
    <2>1. StoredKept'  BY <1>0, <1>5, NothingKept
    <2> DEFINE next == call.page + 1
               sum == call.added + PageSize
    <2>2. call' = [call EXCEPT !.page = next, !.added = sum]  BY <1>0, <1>5
    <2>3. next \in Nat /\ next > call.page  BY <1>0
    <2> HIDE DEF next, sum
    <2>4. /\ call'.pc = "nextPage" /\ call'.req = call.req /\ call'.clean = call.clean /\ call'.was = call.was
          /\ call'.end = call.end /\ call'.page = next
      BY <1>0, <2>2 DEF CallOK, Fields
    <2>5. ASSUME Adding(call)', Fits(call)' PROVE Kept(call.was, call.end)' /\ call'.page > EndPage(call'.end)
      <3>1. Adding(call) /\ Fits(call)  BY <1>0, <2>4, <2>5 DEF Adding, Fits
      <3>2. Kept(w, end)' /\ call.page > EndPage(end)  BY <1>3, <3>1
      <3>3. w = call'.was /\ end = call'.end  BY <1>1, <1>2, <2>4
      <3>4. PICK q \in Nat : q = EndPage(end)  BY EndPlace
      <3>5. next > q  BY <1>0, <2>3, <3>2, <3>4
      <3> QED  BY <2>4, <3>2, <3>3, <3>4, <3>5
    <2>6. ASSUME Adding(call)' PROVE Stage(call)'  BY <2>4, <2>5, <2>6 DEF Stage, Rewriting, Appending
    <2> QED  BY <2>1, <2>6 DEF AddInv
  <1> QED  BY <1>4, <1>5 DEF WriteNextPage

----------------------------------------------------------------------------
\* What the tag's library keeps, whichever records are stored.
LibraryInv == TagInv /\ TagNumbers /\ SafeInv /\ AddInv

LEMMA TagStepAdds == ASSUME LibraryInv, TagStep PROVE LibraryInv'
  <1> TagInv /\ TagNumbers /\ SafeInv /\ AddInv  BY DEF LibraryInv
  <1>1. AddInv'
    BY WriteFirstAdds, WriteNextAdds, ReadEndAdds, ReadHeaderAdds, RewriteReadAdds, RewriteWriteAdds,
       ReadLastAdds, SplitAdds, Zenon
    DEF TagStep
  <1> QED  BY <1>1, TagStepInv, TagStepNumbers, TagStepSafe DEF LibraryInv

LEMMA TagPowerLossAdds == ASSUME LibraryInv, TagPowerLoss PROVE LibraryInv'
  <1> TagInv /\ TagNumbers /\ SafeInv /\ AddInv  BY DEF LibraryInv
  <1>1. stored' = Nothing /\ call' = Idle  BY DEF TagPowerLoss
  <1>2. AddInv'  BY <1>1, NothingKept DEF AddInv, Adding, Idle
  <1> QED  BY <1>2, TagPowerLossInv, TagPowerLossNumbers, TagPowerLossSafe DEF LibraryInv

LEMMA TagStoreAdds == ASSUME LibraryInv, NEW r \in Records, Store(r) PROVE LibraryInv'
  BY StoreAdds, StoreInv, StoreNumbers, StoreSafe DEF LibraryInv

LEMMA TagSameAdds == ASSUME LibraryInv, UNCHANGED tagVars PROVE LibraryInv'
  <1> TagInv /\ TagNumbers /\ SafeInv /\ AddInv  BY DEF LibraryInv
  <1>1. tag' = tag /\ nfcPageBuffer' = nfcPageBuffer /\ call' = call /\ stored' = stored  BY DEF tagVars
  <1>2. StoredKept'
    <2>1. PICK w : w = stored.was  OBVIOUS
    <2>2. PICK end : end = stored.end  OBVIOUS
    <2>3. Kept(w, end) => Kept(w, end)'  BY <1>1, SameTag
    <2>4. w = stored'.was /\ end = stored'.end  BY <1>1, <2>1, <2>2
    <2>5. Len(Compose(stored.req, 0))' = Len(Compose(stored.req, 0))
      BY <1>1 DEF Compose, composeRtdText, composeRtdUri, Set, HasBit
    <2> QED  BY <1>1, <2>1, <2>2, <2>3, <2>4, <2>5 DEF AddInv, StoredKept
  <1>3. ASSUME Adding(call)' PROVE Stage(call)'
    <2>1. Adding(call) /\ Stage(call)  BY <1>1, <1>3 DEF AddInv, Adding
    <2>2. PICK w : w = call.was  OBVIOUS
    <2>3. PICK end : end = call.end  OBVIOUS
    <2>4. Kept(w, end) => Kept(w, end)'  BY <1>1, SameTag
    <2>5. Kept(call.was, call.end) => Kept(call.was, call.end)'  BY <1>1, <2>2, <2>3, <2>4
    <2>6. FirstRecord' = FirstRecord /\ At(1)' = At(1) /\ At(2)' = At(2)  BY <1>1, SameTag
    <2>7. (Fits(call) <=> Fits(call)') /\ (Placed(call) <=> Placed(call)')
          /\ (Agrees(call.page, nfcPageBuffer, call.end) <=> Agrees(call.page, nfcPageBuffer, call.end)')
      <3>1. (Placed(call) <=> Placed(call)')  BY <1>1 DEF Placed
      <3>2. Fits(call) <=> Fits(call)'  BY <1>1 DEF Fits
      <3>3. Agrees(call.page, nfcPageBuffer, call.end) <=> Agrees(call.page, nfcPageBuffer, call.end)'
        BY <1>1 DEF Agrees
      <3> QED  BY <3>1, <3>2, <3>3
    <2>8. composeNDEFMBME(TRUE, FALSE, At(2))' = composeNDEFMBME(TRUE, FALSE, At(2))
      BY <2>6 DEF composeNDEFMBME, Set, Clear, HasBit
    <2> QED  BY <1>1, <2>1, <2>5, <2>6, <2>7, <2>8 DEF Stage
  <1>4. AddInv'  BY <1>2, <1>3 DEF AddInv
  <1> QED  BY <1>4, TagSame, TagNumbersSame, TagSafeSame DEF LibraryInv

LEMMA LibraryInitially == TagInit => LibraryInv
  <1> SUFFICES ASSUME TagInit PROVE LibraryInv  OBVIOUS
  <1>1. call = Idle /\ stored = Nothing  BY DEF TagInit
  <1>2. AddInv  BY <1>1 DEF AddInv, Adding, Idle, StoredKept, Nothing, NoRecord
  <1> QED  BY <1>2, TagInitially, TagNumbersInitially, SafeInitially DEF LibraryInv

LEMMA StoredSurvives == LibraryInv => FirstRecordSurvives
  <1> SUFFICES ASSUME LibraryInv, stored.req.pos \in {"middle", "last"}, stored.was # Broken,
                      stored.end + stored.req.len + Len(Compose(stored.req, 0)) < 255
               PROVE  FirstRecord = stored.was
    BY DEF FirstRecordSurvives
  <1>1. Kept(stored.was, stored.end)  BY DEF LibraryInv, AddInv, StoredKept
  <1>2. At(1) # 255 /\ ShortReadable /\ ShortRecord = stored.was  BY <1>1 DEF Kept
  <1> QED  BY <1>2, ShortForm
=============================================================================
