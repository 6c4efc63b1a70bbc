---------------------------- MODULE HeaderHasher ----------------------------
(***************************************************************************)
(* PlotHeaderHasher (src/plot_header_hasher.go): a byte buffer holding    *)
(* the header's JSON, patched in place when hash_list_root, time, nonce    *)
(* or interaction_count change, then hashed.  The buffer is a function     *)
(* from positions to cells: each constant label (`","time":` ...) is one  *)
(* cell, each 64-character hex field is one cell holding its value (both  *)
(* are fixed width), and each decimal field is its digits, one cell per   *)
(* character, so length changes shift what follows exactly as in the     *)
(* code.  Bytes past bufLen keep whatever was last written there.  The    *)
(* hash is a function of the buffer prefix, so IDFast equals ID whenever  *)
(* the prefix equals the header's JSON.                                   *)
(***************************************************************************)
EXTENDS Integers, Sequences

CONSTANTS
    Ids,          \* values of the hex fields (model values)
    Times,        \* header times the scriber may set
    Nonces,       \* header nonces the scriber may try
    Counts,       \* interaction counts the plot may reach
    InitHeader,   \* the header the hasher is first used with
    Cap           \* length of the buffer NewPlotHeaderHasher allocates

VARIABLES
    header,       \* the PlotHeader being scribed
    hasher,       \* the PlotHeaderHasher's fields
    result        \* the last value Update returned (a buffer prefix)

vars == <<header, hasher, result>>

-----------------------------------------------------------------------------
(* Canonical JSON of a header (json.Marshal, PlotHeader.ID).              *)

DigitChar == <<"0", "1", "2", "3", "4", "5", "6", "7", "8", "9">>

\* strconv.AppendInt(_, v, 10): the decimal digits, "-" first if negative.
RECURSIVE Digits(_)
Digits(n) == IF n < 10 THEN <<DigitChar[n + 1]>>
             ELSE Digits(n \div 10) \o <<DigitChar[(n % 10) + 1]>>

Decimal(v) == IF v < 0 THEN <<"-">> \o Digits(-v) ELSE Digits(v)

\* Serialize(hd): {"previous":"..","hash_list_root":"..","time":..,
\* "target":"..","thread_work":"..","nonce":..,"height":..,
\* "interaction_count":..} with each label a single cell.
Serialize(hd) ==
    <<"previous", hd.previous, "hash_list_root", hd.hashListRoot, "time">>
    \o Decimal(hd.time)
    \o <<"target", hd.target, "thread_work", hd.threadWork, "nonce">>
    \o Decimal(hd.nonce)
    \o <<"height">> \o Decimal(hd.height) \o <<"interaction_count">>
    \o Decimal(hd.interactionCount)
    \o <<"end">>

-----------------------------------------------------------------------------
(* Go buffer writes.  off is a Go (0-based) offset: the first cell written *)
(* is buffer index off + 1.                                                *)

WriteAt(buf, off, s) ==
    [i \in DOMAIN buf |-> IF off < i /\ i <= off + Len(s) THEN s[i - off] ELSE buf[i]]

NoHash == <<>>

\* Mutant of NewHasher: the length reserves room for the digits of only
\* two of the three int64 fields.
NewHasherShort ==
    [initialized |-> FALSE, buffer |-> [i \in 1..(Cap - 3) |-> "nul"], bufLen |-> 0,
     previousHashListRoot |-> "nul", previousTime |-> 0, previousNonce |-> 0,
     previousInteractionCount |-> 0,
     hashListRootOffset |-> 0, timeOffset |-> 0, nonceOffset |-> 0,
     interactionCountOffset |-> 0, timeLen |-> 0, nonceLen |-> 0, txCountLen |-> 0]

\* NewPlotHeaderHasher: a zeroed buffer of length Cap, not initialized.
NewHasher ==
    [initialized |-> FALSE, buffer |-> [i \in 1..Cap |-> "nul"], bufLen |-> 0,
     previousHashListRoot |-> "nul", previousTime |-> 0, previousNonce |-> 0,
     previousInteractionCount |-> 0,
     hashListRootOffset |-> 0, timeOffset |-> 0, nonceOffset |-> 0,
     interactionCountOffset |-> 0, timeLen |-> 0, nonceLen |-> 0, txCountLen |-> 0]

\* initBuffer: write the whole header and record the offsets and decimal
\* lengths of the mutable fields.
InitBuffer(h, hd) ==
    LET timeLen    == Len(Decimal(hd.time))
        nonceLen   == Len(Decimal(hd.nonce))
        nonceOff   == 5 + timeLen + 5
        countOff   == nonceOff + nonceLen + 1 + Len(Decimal(hd.height)) + 1
        txCountLen == Len(Decimal(hd.interactionCount))
    IN [h EXCEPT !.buffer = WriteAt(@, 0, Serialize(hd)),
                 !.previousHashListRoot = hd.hashListRoot,
                 !.previousTime = hd.time,
                 !.previousNonce = hd.nonce,
                 !.previousInteractionCount = hd.interactionCount,
                 !.hashListRootOffset = 3,
                 !.timeOffset = 5,
                 !.nonceOffset = nonceOff,
                 !.interactionCountOffset = countOff,
                 !.timeLen = timeLen,
                 !.nonceLen = nonceLen,
                 !.txCountLen = txCountLen,
                 !.bufLen = countOff + txCountLen + 1,
                 !.initialized = TRUE]

\* Mutant of UpdateHashListRoot: previousHashListRoot is recorded before
\* the comparison, so a new root is never written.
UpdateHashListRootAfterAssign(h, hd) ==
    LET h1 == [h EXCEPT !.previousHashListRoot = hd.hashListRoot]
    IN IF h1.previousHashListRoot # hd.hashListRoot
       THEN [h1 EXCEPT !.buffer = WriteAt(@, h.hashListRootOffset, <<hd.hashListRoot>>)]
       ELSE h1

\* hash_list_root changed: overwrite its fixed-width cell in place.
UpdateHashListRoot(h, hd) ==
    IF h.previousHashListRoot # hd.hashListRoot
    THEN [h EXCEPT !.previousHashListRoot = hd.hashListRoot,
                   !.buffer = WriteAt(@, h.hashListRootOffset, <<hd.hashListRoot>>)]
    ELSE h

\* time changed: rewrite it; if its length changed, re-emit target,
\* thread_work and the nonce label after it.  Returns the hasher and the
\* running offset.
UpdateTime(h, hd) ==
    IF h.previousTime # hd.time
    THEN LET digits == Decimal(hd.time)
             end    == h.timeOffset + Len(digits)
             offset == Len(digits) - h.timeLen
             buf1   == WriteAt(h.buffer, h.timeOffset, digits)
             buf2   == IF offset # 0
                       THEN WriteAt(buf1, end, <<"target", hd.target, "thread_work", hd.threadWork, "nonce">>)
                       ELSE buf1
         IN [h |-> [h EXCEPT !.previousTime = hd.time, !.timeLen = Len(digits), !.buffer = buf2],
             offset |-> offset]
    ELSE [h |-> h, offset |-> 0]

\* Mutant of UpdateNonce: rewrites the nonce only when its value changed,
\* not when an earlier field moved it.
UpdateNonceOnChange(h, hd, offset) ==
    IF h.previousNonce # hd.nonce
    THEN LET off     == h.nonceOffset + offset
             digits  == Decimal(hd.nonce)
             offset2 == offset + Len(digits) - h.nonceLen
             buf1    == WriteAt(h.buffer, off, digits)
             buf2    == IF offset2 # 0
                        THEN WriteAt(buf1, off + Len(digits),
                                     <<"height">> \o Decimal(hd.height) \o <<"interaction_count">>)
                        ELSE buf1
         IN [h |-> [h EXCEPT !.previousNonce = hd.nonce, !.nonceOffset = off,
                             !.nonceLen = Len(digits), !.buffer = buf2],
             offset |-> offset2]
    ELSE [h |-> h, offset |-> offset]

\* nonce changed or moved: rewrite it at its shifted offset; if the running
\* offset is non-zero, re-emit height and the interaction_count label.
UpdateNonce(h, hd, offset) ==
    IF offset # 0 \/ h.previousNonce # hd.nonce
    THEN LET off     == h.nonceOffset + offset
             digits  == Decimal(hd.nonce)
             offset2 == offset + Len(digits) - h.nonceLen
             buf1    == WriteAt(h.buffer, off, digits)
             buf2    == IF offset2 # 0
                        THEN WriteAt(buf1, off + Len(digits),
                                     <<"height">> \o Decimal(hd.height) \o <<"interaction_count">>)
                        ELSE buf1
         IN [h |-> [h EXCEPT !.previousNonce = hd.nonce, !.nonceOffset = off,
                             !.nonceLen = Len(digits), !.buffer = buf2],
             offset |-> offset2]
    ELSE [h |-> h, offset |-> offset]

\* interaction_count changed or moved: rewrite it; if the running offset is
\* non-zero, re-emit the closing brace.  Finally bufLen moves by the offset.
UpdateInteractionCount(h, hd, offset) ==
    IF offset # 0 \/ h.previousInteractionCount # hd.interactionCount
    THEN LET off     == h.interactionCountOffset + offset
             digits  == Decimal(hd.interactionCount)
             offset2 == offset + Len(digits) - h.txCountLen
             buf1    == WriteAt(h.buffer, off, digits)
             buf2    == IF offset2 # 0 THEN WriteAt(buf1, off + Len(digits), <<"end">>) ELSE buf1
         IN [h EXCEPT !.previousInteractionCount = hd.interactionCount,
                      !.interactionCountOffset = off, !.txCountLen = Len(digits),
                      !.buffer = buf2, !.bufLen = @ + offset2]
    ELSE [h EXCEPT !.bufLen = @ + offset]

\* Update: initialize on first use, else patch the four mutable fields in
\* order, carrying the length offset from one to the next.
Update(h, hd) ==
    IF ~h.initialized THEN InitBuffer(h, hd)
    ELSE LET h1 == UpdateHashListRoot(h, hd)
             t  == UpdateTime(h1, hd)
             n  == UpdateNonce(t.h, hd, t.offset)
         IN UpdateInteractionCount(n.h, hd, n.offset)

\* The bytes Update hashes, h.buffer[:h.bufLen]; past the allocated
\* length the slice expression panics, shown as the single cell "panic".
HashedBytes(h) ==
    IF h.bufLen <= Len(h.buffer) THEN SubSeq(h.buffer, 1, h.bufLen) ELSE <<"panic">>

-----------------------------------------------------------------------------
(* The scriber: between two calls of IDFast it may set a new time, try a   *)
(* new nonce and add interactions (new hash_list_root and count).  The     *)
(* other fields never change for a header being scribed.                   *)

Init ==
    /\ header = InitHeader
    /\ hasher = NewHasher
    /\ result = NoHash

\* header.IDFast(scriberNum): create the hasher on first use, then Update.
IDFast ==
    /\ hasher' = Update(hasher, header)
    /\ result' = HashedBytes(hasher')
    /\ UNCHANGED header

\* Mutate the header's mutable fields (any combination), then hash it.
ScribeAttempt ==
    \E r \in Ids, t \in Times, n \in Nonces, c \in Counts :
        /\ hasher.initialized
        /\ header' = [header EXCEPT !.hashListRoot = r, !.time = t, !.nonce = n,
                                    !.interactionCount = c]
        /\ hasher' = Update(hasher, header')
        /\ result' = HashedBytes(hasher')

Next == IDFast \/ ScribeAttempt

Spec == Init /\ [][Next]_vars

-----------------------------------------------------------------------------

\* Types; the hashed prefix h.buffer[:h.bufLen] never runs past the buffer
\* NewPlotHeaderHasher allocated (Go would panic on the slice expression).
TypeOK ==
    /\ hasher.bufLen \in 0..Len(hasher.buffer)
    /\ header.time \in Times /\ header.nonce \in Nonces
    /\ header.interactionCount \in Counts /\ header.hashListRoot \in Ids

\* After every Update, the bytes hashed by IDFast are exactly the header's
\* canonical JSON, so IDFast returns the same id as PlotHeader.ID, for any
\* sequence of changes to hash_list_root, time, nonce and
\* interaction_count, including length changes that shift later fields and
\* leave stale bytes past the end of the buffer.
FastIDMatchesID ==
    result # NoHash => result = Serialize(header)
=============================================================================
