----------------------------- MODULE DecoderStream -----------------------------
(***************************************************************************)
(* One decoder session: the stream ring, the display flags and the time     *)
(* stamps, through the calls of libnxvpu (nx_video_api.c) and the decoder    *)
(* half of the coda960 driver (nx_vpu_api.c).                               *)
(*                                                                         *)
(* A call is one action, for the ioctl runs under gstDrvMutex from the       *)
(* filling of the ring to the reading of the results.  The block is          *)
(* external: it reads whole chunks, decodes into a frame that is neither     *)
(* flagged nor waiting to be shown, and shows a frame by flagging it.  Its   *)
(* registers are shared with every other instance.  Positions are offsets    *)
(* from strmBufPhyAddr in cells, the smallest unit a chunk is made of.       *)
(*                                                                         *)
(* The client is assumed to feed only what fits, to feed the rest of the same *)
(* picture, with its stamp, to a block that waits for stream, to return a     *)
(* frame once and forget it at a flush, and to flush before it parses anew.   *)
(* It may flush, or call without stream, while the block waits.              *)
(* Definitions whose names end in Bug are plausible mistakes in the          *)
(* definition after them; nothing uses them.                                *)
(***************************************************************************)
EXTENDS Integers, Sequences

CONSTANTS
  StrmBufSize,   \* cells of the stream ring
  ChunkSizes,    \* sizes of what the client feeds in one call
  Stamps,        \* time stamps of the chunks
  Followed,      \* the stamp of one picture at a time
  Frames,        \* indices of the frame buffers
  MaxChunks,     \* bound: chunks in the ring
  MaxLag,        \* chunks a completed PIC_RUN may leave unread
  Failures,      \* the block may time out or report an error
  Stalls         \* the block may ask for more stream inside a command

ASSUME StreamAssumption ==
  /\ StrmBufSize \in Nat \ {0}
  /\ ChunkSizes \subseteq 1 .. StrmBufSize - 1
  /\ Stamps \subseteq Nat \ {0} /\ Followed \in Stamps
  /\ Frames \subseteq Nat
  /\ MaxChunks \in Nat \ {0}
  /\ MaxLag \in Nat
  /\ Failures \in BOOLEAN
  /\ Stalls \in BOOLEAN

NoStamp == -1      \* (uint64_t)-1: no stamp is known
Shown == -10       \* (uint64_t)-10: the frame's stamp was handed out
NoFrame == -1
Hidden == -3       \* a frame the driver keeps from the client
VID_ERR_NONE == 0

VARIABLES
  stage,                  \* "opened", "parsed" or "ready" (isInitialized)
  readPos, writePos,      \* VpuDecInfo
  frameDisplayFlag,       \* frames the block had flagged when last read
  clearDisplayIndexes,    \* frames returned since the last PIC_RUN
  needMoreFrame,
  vc1BframeDisplayValid,  \* TRUE throughout for every codec but VC-1
  savedTimeStamp, prevStrmReadPos, timeStamp,  \* NX_VID_DEC_INFO
  reg,                    \* BIT_WR_PTR, BIT_RD_PTR and BIT_FRM_DIS_FLG of a
                          \* command that waits for stream
  pending,                \* the command the block is inside: "no", "seq", "pic"
  waiting,                \* decoded frames the block has not shown yet
  unread,                 \* chunks in the ring, as the client fed them
  primed,                 \* stamp of the chunk the sequence was parsed from
  flushed,                \* nothing parsed or decoded since open or flush
  picOf,                  \* stamp of the picture in each frame someone wants
  held,                   \* frames the client was given and has not returned
  hidden,                 \* frames flagged but never given to the client
  failed,                 \* some call failed since the last flush
  last                    \* what the last DecodeFrame did and returned

posVars == <<readPos, writePos, unread>>
flagVars == <<frameDisplayFlag, clearDisplayIndexes>>
stampVars == <<savedTimeStamp, prevStrmReadPos, timeStamp>>
blockVars == <<reg, pending, waiting>>
frameVars == <<picOf, held, hidden>>
vars == <<stage, posVars, flagVars, needMoreFrame, vc1BframeDisplayValid, stampVars,
          blockVars, primed, flushed, frameVars, failed, last>>

Offsets == 0 .. StrmBufSize - 1
Chunks == [stamp : Stamps, size : 1 .. StrmBufSize - 1]
Nothing == [outcome |-> "OK", ret |-> VID_ERR_NONE, img |-> NoFrame, stamp |-> NoStamp]

TypeOK ==
  /\ stage \in {"opened", "parsed", "ready"}
  /\ readPos \in Offsets /\ writePos \in Offsets
  /\ frameDisplayFlag \subseteq Frames /\ clearDisplayIndexes \subseteq Frames
  /\ needMoreFrame \in BOOLEAN /\ vc1BframeDisplayValid \in BOOLEAN
  /\ savedTimeStamp \in Stamps \cup {NoStamp}
  /\ prevStrmReadPos \in Offsets
  /\ timeStamp \in [Frames -> Stamps \cup {NoStamp, Shown}]
  /\ reg \in [wr : Offsets, rd : Offsets, flags : SUBSET Frames]
  /\ pending \in {"no", "seq", "pic"}
  /\ waiting \subseteq Frames
  /\ unread \in Seq(Chunks)
  /\ primed \in Stamps \cup {NoStamp} /\ flushed \in BOOLEAN
  /\ picOf \in [Frames -> Stamps \cup {0}]
  /\ held \subseteq Frames /\ hidden \subseteq Frames
  /\ failed \in BOOLEAN
  /\ last \in [outcome : {"OK", "NEED_STREAM", "ERROR"}, ret : Int,
               img : Frames \cup {NoFrame, Hidden}, stamp : Stamps \cup {NoStamp, Shown}]

\* Between commands the registers hold what another instance left in them.
ForeignRegs == [wr |-> 0, rd |-> 0, flags |-> {}]

\* NX_VidDecOpen and NX_VpuDecOpen.
Init ==
  /\ stage = "opened"
  /\ readPos = 0 /\ writePos = 0 /\ unread = <<>>
  /\ frameDisplayFlag = {} /\ clearDisplayIndexes = {}
  /\ needMoreFrame = FALSE
  /\ vc1BframeDisplayValid \in BOOLEAN
  /\ savedTimeStamp = NoStamp /\ prevStrmReadPos = 0
  /\ timeStamp = [f \in Frames |-> Shown]
  /\ reg = ForeignRegs
  /\ pending = "no" /\ waiting = {}
  /\ primed = NoStamp /\ flushed = TRUE
  /\ picOf = [f \in Frames |-> 0]
  /\ held = {} /\ hidden = {}
  /\ failed = FALSE /\ last = Nothing

-----------------------------------------------------------------------------
(* The ring. *)

\* The sizes of the first chunks, for each number of them.
Sums(chunks) ==
  LET upTo[i \in 0 .. Len(chunks)] == IF i = 0 THEN 0 ELSE upTo[i - 1] + chunks[i].size
  IN upTo
Bytes(chunks) == Sums(chunks)[Len(chunks)]
After(pos, size) == (pos + size) % StrmBufSize

\* Bound: one picture at a time carries the stamp Followed, and none does once
\* a call has failed.  Calls only copy and compare stamps, so two pictures whose
\* stamps are mixed up show when either is followed.
Carried == {unread[i].stamp : i \in 1 .. Len(unread)} \cup {picOf[f] : f \in Frames}
             \cup {timeStamp[f] : f \in Frames} \cup {savedTimeStamp, primed}
NewStamps == IF failed \/ Followed \in Carried THEN Stamps \ {Followed} ELSE Stamps

\* What the client may feed: less than the space that is left, for a full ring
\* would look empty to the block.  MaxChunks bounds the model only.
Fits(size) ==
  /\ Bytes(unread) + size < StrmBufSize
  /\ pending = "no" => Len(unread) < MaxChunks

\* The copy ends at offset 0 when it fills the ring to its last cell.
FillBufferBug(pos, size) == IF pos + size > StrmBufSize THEN pos + size - StrmBufSize ELSE pos + size
FillBuffer(pos, size) == IF StrmBufSize - pos > size THEN pos + size ELSE size - (StrmBufSize - pos)

\* What the block asked for more of is one chunk, with the stamp it began with.
Fed(size, stamp) ==
  IF pending # "no" THEN [unread EXCEPT ![Len(unread)].size = @ + size]
  ELSE IF size = 0 THEN unread
  ELSE Append(unread, [stamp |-> stamp, size |-> size])

\* A block that waits for stream keeps its registers but for the write pointer.
SeqInitRegs(w) ==
  IF needMoreFrame THEN [reg EXCEPT !.wr = w]
  ELSE [wr |-> w, rd |-> readPos, flags |-> {}]

StillShown == frameDisplayFlag \ clearDisplayIndexes

PicRunRegsBug(w) ==
  IF needMoreFrame THEN [reg EXCEPT !.wr = w] ELSE [reg EXCEPT !.wr = w, !.flags = StillShown]
PicRunRegs(w) ==
  IF needMoreFrame THEN [reg EXCEPT !.wr = w]
  ELSE [wr |-> w, rd |-> readPos, flags |-> StillShown]

ClearedAtStartBug == clearDisplayIndexes
ClearedAtStart == IF needMoreFrame THEN clearDisplayIndexes ELSE {}

\* A picture, or the data of a sequence, takes at most half of the ring.
MayStall(chunks) ==
  Stalls /\ chunks # <<>> /\ \A size \in ChunkSizes : 2 * (Bytes(chunks) + size) <= StrmBufSize

\* Bound: one call fails on its own account between two flushes.
MayFail == Failures /\ ~failed

\* A call that finds needMoreFrame set issues no command and waits for the end of
\* the one the block is inside.  After a flush there is none.
Commanded == needMoreFrame => pending # "no"

-----------------------------------------------------------------------------
(* Parsing the sequence: NX_VidDecParseVideoCfg, then NX_VidDecInit. *)

\* The head of the call: what it feeds, and the command it starts or goes on with.
ParseWith(size, stamp) ==
  /\ pending = "no" => flushed
  /\ pending # "pic"
  /\ Fits(size)
  /\ unread' = Fed(size, stamp)
  /\ last' = Nothing
  /\ UNCHANGED <<clearDisplayIndexes, vc1BframeDisplayValid, stampVars, frameVars>>

\* SEQ_INIT reads headers only; the pictures of the chunk stay in the ring.
ParseVideoCfg(size, stamp) ==
  LET started == SeqInitRegs(FillBuffer(writePos, size)) IN
  /\ Commanded
  /\ ParseWith(size, stamp)
  /\ reg' = ForeignRegs
  /\ stage' = "parsed"
  /\ needMoreFrame' = FALSE /\ pending' = "no"
  /\ frameDisplayFlag' = started.flags
  /\ readPos' = started.rd
  /\ writePos' = started.wr
  /\ waiting' = {}
  /\ primed' = unread'[Len(unread')].stamp
  /\ flushed' = FALSE
  /\ UNCHANGED failed

ParseNeedsStream(size, stamp) ==
  LET started == SeqInitRegs(FillBuffer(writePos, size)) IN
  /\ Commanded /\ MayStall(Fed(size, stamp))
  /\ ParseWith(size, stamp)
  /\ reg' = started
  /\ stage' = "opened"
  /\ needMoreFrame' = TRUE /\ pending' = "seq"
  /\ writePos' = started.wr
  /\ UNCHANGED <<readPos, frameDisplayFlag, waiting, primed, flushed, failed>>

\* SEQ_INIT times out, or its result says that there is no sequence: then
\* VPU_DecSeqComplete has read the flags and the read pointer already.
ParseFails(size, stamp) ==
  LET started == SeqInitRegs(FillBuffer(writePos, size)) IN
  /\ MayFail \/ ~Commanded
  /\ ParseWith(size, stamp)
  /\ reg' = ForeignRegs
  /\ stage' = "opened"
  /\ needMoreFrame' = FALSE /\ pending' = "no"
  /\ writePos' = started.wr
  /\ \/ UNCHANGED <<readPos, frameDisplayFlag>>
     \/ Commanded /\ readPos' = started.rd /\ frameDisplayFlag' = started.flags
  /\ failed' = TRUE
  /\ UNCHANGED <<waiting, primed, flushed>>

\* A failed SET_FRAME_BUF changes nothing here.
RegFrameBuf ==
  /\ stage = "parsed"
  /\ stage' = "ready"
  /\ last' = Nothing
  /\ UNCHANGED <<posVars, flagVars, needMoreFrame, vc1BframeDisplayValid, stampVars,
                 blockVars, primed, flushed, frameVars, failed>>

-----------------------------------------------------------------------------
(* Decoding: NX_VidDecDecodeFrame. *)

\* The client may hand the stamp of the parsed chunk to a call without stream.
CallStamps(size) ==
  IF pending = "pic" THEN {unread[Len(unread)].stamp}
  ELSE IF size > 0 THEN NewStamps ELSE {NoStamp, primed}

\* The library's unwrapped positions: the write position as if this call's
\* chunk had not wrapped, the read position as if it had not since the last
\* call that fed any.
Unwrapped(size, r, w) ==
  LET up == IF w >= size THEN w ELSE w + StrmBufSize
      rp == IF r >= prevStrmReadPos THEN r ELSE r + StrmBufSize
  IN IF up < rp THEN <<up + StrmBufSize, rp>> ELSE <<up, rp>>

\* The picture is the chunk just fed when the block has begun to read it; else
\* it is the one fed before.  Fewer than four bytes left means none here.
OwnStampBug(size, r, w) == size > 0 \/ savedTimeStamp = NoStamp
OwnStamp(size, r, w) ==
  IF size > 0
    THEN LET u == Unwrapped(size, r, w) IN u[2] + size > u[1]
    ELSE savedTimeStamp = NoStamp /\ w = r

\* DecoderPutDispInfo: a field that finds the frame's stamp set is its second and
\* gets a stamp of its own, SECOND_FIELD, which is left out.
PutDispInfo(f, isInterlaced, stamp) ==
  IF f = NoFrame \/ (isInterlaced /\ timeStamp[f] # Shown) THEN timeStamp
  ELSE [timeStamp EXCEPT ![f] = stamp]

\* The head of the call.
DecodeWith(size) ==
  /\ stage = "ready"
  /\ size > 0 => Fits(size)
  /\ writePos' = FillBuffer(writePos, size)
  /\ clearDisplayIndexes' = ClearedAtStart
  /\ primed' = NoStamp
  /\ flushed' = FALSE
  /\ UNCHANGED stage

\* The block read n chunks, decoded the last of them into f and shows g.  Into a
\* frame that waits to be shown it decodes the second field of its picture.
DecodeFrame(size, stamp, n, f, g, isB, isInterlaced) ==
  LET chunks == Fed(size, stamp)
      started == PicRunRegs(FillBuffer(writePos, size))
      readTo == After(started.rd, Bytes(SubSeq(chunks, 1, n)))
      flags == (started.flags \cup {g}) \ {NoFrame}
      keep == ~vc1BframeDisplayValid /\ isB
      own == OwnStamp(size, readTo, writePos')
      stampOf == PutDispInfo(f, isInterlaced, IF own THEN stamp ELSE savedTimeStamp)
  IN
  /\ Commanded /\ (pending = "pic" => size > 0)
  /\ IF pending = "pic" THEN n = Len(chunks) ELSE Len(chunks) - n <= MaxLag
  /\ f = NoFrame \/ (n > 0 /\ f \in Frames \ started.flags /\ (f \in waiting => isInterlaced))
  /\ DecodeWith(size)
  /\ waiting' = (waiting \cup {f}) \ {g, NoFrame}
  /\ unread' = SubSeq(chunks, n + 1, Len(chunks))
  /\ reg' = ForeignRegs /\ pending' = "no" /\ needMoreFrame' = FALSE
  /\ readPos' = readTo
  /\ frameDisplayFlag' = flags
  /\ vc1BframeDisplayValid' = (vc1BframeDisplayValid \/ ~isB)
  /\ savedTimeStamp' = IF own THEN savedTimeStamp ELSE stamp
  /\ prevStrmReadPos' = IF size > 0 THEN readTo ELSE prevStrmReadPos
  /\ picOf' = IF f \in waiting \cup {NoFrame} THEN picOf
              ELSE [picOf EXCEPT ![f] = chunks[n].stamp]
  /\ IF g = NoFrame \/ keep
       THEN /\ last' = [Nothing EXCEPT !.img = IF keep THEN Hidden ELSE NoFrame]
            /\ timeStamp' = stampOf
            /\ hidden' = (hidden \cup {g}) \ {NoFrame}
            /\ UNCHANGED held
       ELSE /\ last' = [Nothing EXCEPT !.img = g, !.stamp = stampOf[g]]
            /\ timeStamp' = [stampOf EXCEPT ![g] = Shown]
            /\ held' = held \cup {g}
            /\ UNCHANGED hidden
  /\ UNCHANGED failed

\* The ioctl copies the results back for NEED_STREAM, leaves out the copy for an
\* error, and returns 1 or less than 0: either way the library returns
\* decArg.iRet, which nobody sets, and forgets the stamp of the chunk.
DecArgRet == VID_ERR_NONE

DecodeNeedsStream(size, stamp) ==
  /\ Commanded /\ MayStall(Fed(size, stamp))
  /\ DecodeWith(size)
  /\ unread' = Fed(size, stamp)
  /\ reg' = PicRunRegs(writePos')
  /\ needMoreFrame' = TRUE /\ pending' = "pic"
  /\ last' = [Nothing EXCEPT !.outcome = "NEED_STREAM", !.ret = DecArgRet]
  /\ UNCHANGED <<readPos, frameDisplayFlag, vc1BframeDisplayValid, stampVars, waiting,
                 frameVars, failed>>

\* PIC_RUN times out, ends for another reason or reports an access outside its
\* memory: nothing is read back, so the chunks count as unread, but the flags
\* of the returned frames are gone from clearDisplayIndexes.  A call that waits
\* for nothing, or feeds nothing to a block that waits, times out.
DecodeFails(size, stamp) ==
  /\ MayFail \/ ~Commanded \/ (pending = "pic" /\ size = 0)
  /\ DecodeWith(size)
  /\ unread' = Fed(size, stamp)
  /\ reg' = ForeignRegs
  /\ needMoreFrame' = FALSE /\ pending' = "no"
  /\ failed' = TRUE
  /\ last' = [Nothing EXCEPT !.outcome = "ERROR", !.ret = DecArgRet]
  /\ UNCHANGED <<readPos, frameDisplayFlag, vc1BframeDisplayValid, stampVars, waiting, frameVars>>

-----------------------------------------------------------------------------
(* Returning frames and flushing. *)

WithClearedBug(f) == {f}
WithCleared(f) == clearDisplayIndexes \cup {f}

ClrDspFlag(f) ==
  /\ stage = "ready"
  /\ f \in held
  /\ clearDisplayIndexes' = WithCleared(f)
  /\ held' = held \ {f}
  /\ picOf' = [picOf EXCEPT ![f] = 0]
  /\ last' = Nothing
  /\ UNCHANGED <<stage, posVars, frameDisplayFlag, needMoreFrame, vc1BframeDisplayValid,
                 stampVars, blockVars, primed, flushed, hidden, failed>>

\* Chunks and frames are dropped, and the block gives up the command it is inside;
\* needMoreFrame and prevStrmReadPos stay.
Flush ==
  /\ stage = "ready"
  /\ reg' = ForeignRegs /\ pending' = "no"
  /\ frameDisplayFlag' = {} /\ clearDisplayIndexes' = {}
  /\ readPos' = 0 /\ writePos' = 0 /\ unread' = <<>>
  /\ waiting' = {}
  /\ savedTimeStamp' = NoStamp
  /\ timeStamp' = [f \in Frames |-> Shown]
  /\ primed' = NoStamp /\ flushed' = TRUE
  /\ picOf' = [f \in Frames |-> 0]
  /\ held' = {} /\ hidden' = {}
  /\ failed' = FALSE /\ last' = Nothing
  /\ UNCHANGED <<stage, needMoreFrame, vc1BframeDisplayValid, prevStrmReadPos>>

\* DEC_BUF_FLUSH times out; the block is taken to give up its command all the same.
FlushFails ==
  /\ MayFail
  /\ stage = "ready"
  /\ reg' = ForeignRegs /\ pending' = "no"
  /\ clearDisplayIndexes' = {}
  /\ writePos' = readPos /\ unread' = <<>>
  /\ failed' = TRUE /\ last' = Nothing
  /\ UNCHANGED <<stage, readPos, frameDisplayFlag, needMoreFrame, vc1BframeDisplayValid,
                 stampVars, waiting, primed, flushed, frameVars>>

\* NX_VidDecClose, then NX_VidDecOpen: the library and the driver clear what they
\* know of the session.
CloseAndOpen ==
  /\ stage' = "opened"
  /\ readPos' = 0 /\ writePos' = 0 /\ unread' = <<>>
  /\ frameDisplayFlag' = {} /\ clearDisplayIndexes' = {}
  /\ needMoreFrame' = FALSE
  /\ vc1BframeDisplayValid' \in BOOLEAN
  /\ savedTimeStamp' = NoStamp /\ prevStrmReadPos' = 0
  /\ timeStamp' = [f \in Frames |-> Shown]
  /\ reg' = ForeignRegs /\ pending' = "no" /\ waiting' = {}
  /\ primed' = NoStamp /\ flushed' = TRUE
  /\ picOf' = [f \in Frames |-> 0]
  /\ held' = {} /\ hidden' = {}
  /\ failed' = FALSE /\ last' = Nothing

Decode ==
  \E size \in ChunkSizes \cup {0} : \E stamp \in CallStamps(size) :
    \/ \E n \in 0 .. Len(Fed(size, stamp)), f \in Frames \cup {NoFrame} :
         \E g \in waiting \cup {f, NoFrame}, isB \in {FALSE, ~vc1BframeDisplayValid},
            isInterlaced \in {FALSE, f # NoFrame} :
           DecodeFrame(size, stamp, n, f, g, isB, isInterlaced)
    \/ DecodeNeedsStream(size, stamp)
    \/ DecodeFails(size, stamp)

Next ==
  \/ \E size \in ChunkSizes, stamp \in NewStamps :
       \/ ParseVideoCfg(size, stamp)
       \/ ParseNeedsStream(size, stamp)
       \/ ParseFails(size, stamp)
  \/ RegFrameBuf
  \/ Decode
  \/ \E f \in Frames : ClrDspFlag(f)
  \/ Flush \/ FlushFails \/ CloseAndOpen

Spec == Init /\ [][Next]_vars

-----------------------------------------------------------------------------
(* Properties. *)

\* What lies between readPos and writePos is what the client fed and the block
\* has not read, whatever wraps, fails, stalls or is flushed on the way.
RingAgrees ==
  /\ After(readPos, Bytes(unread)) = writePos
  /\ Bytes(unread) < StrmBufSize

\* Every frame the client holds is flagged at the next PIC_RUN, and as long as
\* no call has failed no other frame is but the hidden ones: none is leaked.
FramesAccounted ==
  /\ held \cup hidden \subseteq StillShown
  /\ ~failed /\ ~needMoreFrame => StillShown = held \cup hidden

\* No step decodes into a frame the client holds.
HeldNotOverwritten == [][\A f \in held \cap held' : picOf'[f] = picOf[f]]_vars

\* A frame never comes with the stamp of another picture while the block leaves
\* at most one chunk unread (MaxLag): the library saves one stamp.  It may come
\* with none: a call without stream that decodes nothing overwrites the saved one.
StampFollowsPicture ==
  [][\A f \in held' \ held : ~failed => last'.stamp \in {picOf'[f], NoStamp}]_vars

\* A call the driver did not complete is not reported as VID_ERR_NONE.
ErrorReported == last.outcome # "OK" => last.ret # VID_ERR_NONE
=============================================================================
