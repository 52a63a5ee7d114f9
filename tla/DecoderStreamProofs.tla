-------------------------- MODULE DecoderStreamProofs --------------------------
(***************************************************************************)
(* Theorems about DecoderStream, for every ring, every set of frames and      *)
(* every behaviour of the block: who owns a frame, what the ring holds, and   *)
(* which picture a time stamp belongs to.  The block owns the frames waiting  *)
(* to be shown, the driver those it has flagged, the client those it holds; a *)
(* command that waits for stream runs on the flags it was started with.       *)
(***************************************************************************)
EXTENDS DecoderStream, NumberFacts, SequenceTheorems, TLAPS

\* The shapes the argument needs.  Positions and chunks play no part in it.
FrameTypes ==
  /\ frameDisplayFlag \subseteq Frames /\ clearDisplayIndexes \subseteq Frames
  /\ waiting \subseteq Frames /\ held \subseteq Frames /\ hidden \subseteq Frames
  /\ reg = [wr |-> reg.wr, rd |-> reg.rd, flags |-> reg.flags]
  /\ reg.flags \subseteq Frames
  /\ DOMAIN picOf = Frames
  /\ needMoreFrame \in BOOLEAN /\ failed \in BOOLEAN /\ flushed \in BOOLEAN

\* The block is inside a command only between a call that asked for more
\* stream and the next or a flush, and only in the stage that call belongs to.
PendingInv ==
  /\ pending \in {"no", "seq", "pic"}
  /\ pending # "no" => needMoreFrame
  /\ pending = "seq" => stage = "opened" /\ held = {} /\ hidden = {} /\ reg.flags = {}
  /\ pending = "pic" => stage = "ready"
  /\ stage \in {"opened", "parsed", "ready"}

\* Frames are not both decoded into and flagged, nor both held by the client
\* and kept from it, and after a flush nobody
\* outside the block wants any.
OwnerInv ==
  /\ waiting \cap frameDisplayFlag = {} /\ held \cap hidden = {}
  /\ held \cup hidden \subseteq StillShown
  /\ flushed => held = {} /\ hidden = {}

\* The flags a waiting PIC_RUN runs on, less the frames returned since.
RegisterInv ==
  pending = "pic" =>
    /\ clearDisplayIndexes \subseteq reg.flags
    /\ reg.flags \subseteq frameDisplayFlag
    /\ held \cup hidden \subseteq reg.flags \ clearDisplayIndexes
    /\ ~failed => reg.flags \ clearDisplayIndexes = held \cup hidden

\* Without a failure nothing is flagged for nobody.
NoLeak == ~failed /\ pending = "no" => StillShown = held \cup hidden

FrameInv == FrameTypes /\ PendingInv /\ OwnerInv /\ RegisterInv /\ NoLeak

-----------------------------------------------------------------------------
\* The initial states satisfy the invariant.
LEMMA FrameInit == Init => FrameInv
<1> SUFFICES ASSUME Init PROVE FrameInv
  OBVIOUS
<1>1. FrameTypes
  BY DEF Init, FrameTypes, ForeignRegs
<1>2. PendingInv /\ OwnerInv /\ RegisterInv /\ NoLeak
  BY DEF Init, PendingInv, OwnerInv, RegisterInv, NoLeak, StillShown
<1> QED
  BY <1>1, <1>2 DEF FrameInv

\* What the block is started with is what the client and the driver hold, and
\* what it shows was not among them: the next flags and who holds what agree.
LEMMA Decoded ==
  ASSUME FrameInv, NEW size, NEW stamp, NEW n,
         NEW f \in Frames \cup {NoFrame}, NEW g \in waiting \cup {f, NoFrame},
         NEW isB, NEW isInterlaced, DecodeFrame(size, stamp, n, f, g, isB, isInterlaced)
  PROVE  FrameInv'
<1> DEFINE w == FillBuffer(writePos, size)
           flags == PicRunRegs(w).flags
<1> USE StreamAssumption DEF FrameInv
<1>1. /\ frameDisplayFlag' = (flags \cup {g}) \ {NoFrame}
      /\ waiting' = (waiting \cup {f}) \ {g, NoFrame}
      /\ f = NoFrame \/ f \in Frames \ flags
      /\ needMoreFrame => pending # "no"
      /\ reg' = ForeignRegs /\ pending' = "no" /\ needMoreFrame' = FALSE
      /\ stage = "ready" /\ stage' = stage /\ failed' = failed /\ flushed' = FALSE
      /\ clearDisplayIndexes' = ClearedAtStart
  BY DEF DecodeFrame, DecodeWith, Commanded
<1>2. /\ flags \subseteq Frames /\ waiting \cap flags = {}
      /\ held \cup hidden \subseteq flags \ clearDisplayIndexes'
      /\ ~failed => flags \ clearDisplayIndexes' = held \cup hidden
      /\ clearDisplayIndexes' \subseteq flags
  <2>1. CASE needMoreFrame
    <3>1. pending = "pic" /\ clearDisplayIndexes' = clearDisplayIndexes
      BY <1>1, <2>1 DEF PendingInv, ClearedAtStart
    <3>2. flags = reg.flags
      BY <2>1 DEF PicRunRegs, FrameTypes
    <3> QED
      BY <3>1, <3>2 DEF RegisterInv, OwnerInv, FrameTypes
  <2>2. CASE ~needMoreFrame
    <3>1. pending = "no" /\ clearDisplayIndexes' = {}
      BY <1>1, <2>2 DEF PendingInv, ClearedAtStart
    <3>2. flags = StillShown
      BY <2>2 DEF PicRunRegs
    <3> QED
      BY <3>1, <3>2 DEF NoLeak, OwnerInv, FrameTypes, StillShown
  <2> QED
    BY <2>1, <2>2
<1>3. \/ held' = held /\ hidden' = (hidden \cup {g}) \ {NoFrame}
      \/ g # NoFrame /\ held' = held \cup {g} /\ hidden' = hidden
  BY DEF DecodeFrame
<1>4. NoFrame \notin Frames
  BY DEF NoFrame
<1>5. g = NoFrame \/ g \in Frames \ flags
  BY <1>1, <1>2 DEF FrameTypes
<1>6. DOMAIN picOf' = Frames
  <2>1. picOf' = IF f \in waiting \cup {NoFrame} THEN picOf
                 ELSE [picOf EXCEPT ![f] = Fed(size, stamp)[n].stamp]
    BY DEF DecodeFrame
  <2> QED
    BY <2>1 DEF FrameTypes
<1>7. FrameTypes'
  BY <1>1, <1>2, <1>3, <1>4, <1>5, <1>6 DEF FrameTypes, ForeignRegs
<1>8. StillShown' = (flags \ clearDisplayIndexes') \cup ({g} \ {NoFrame})
  BY <1>1, <1>2, <1>4, <1>5 DEF StillShown
<1>9. OwnerInv'
  <2>1. waiting' \cap frameDisplayFlag' = {}
    BY <1>1, <1>2, <1>4
  <2>2. held' \cup hidden' \subseteq StillShown' /\ held' \cap hidden' = {}
    BY <1>2, <1>3, <1>4, <1>5, <1>8 DEF FrameTypes, OwnerInv
  <2> QED
    BY <1>1, <2>1, <2>2 DEF OwnerInv
<1>10. NoLeak'
  BY <1>1, <1>2, <1>3, <1>4, <1>8 DEF NoLeak, FrameTypes
<1>11. PendingInv' /\ RegisterInv'
  BY <1>1 DEF PendingInv, RegisterInv
<1> QED
  BY <1>7, <1>9, <1>10, <1>11

\* What registers written all at once look like.
LEMMA WholeRegisters ==
  ASSUME NEW w, NEW r, NEW fs, NEW regs, regs = [wr |-> w, rd |-> r, flags |-> fs]
  PROVE  /\ regs = [wr |-> regs.wr, rd |-> regs.rd, flags |-> regs.flags]
         /\ regs.flags = fs
<1>1. regs.wr = w /\ regs.rd = r /\ regs.flags = fs
  OBVIOUS
<1> QED
  BY <1>1

\* The block decodes into a frame the client does not hold and none is hidden in.
LEMMA DecodesElsewhere ==
  ASSUME FrameInv, NEW size, NEW stamp, NEW n, NEW f, NEW g, NEW isB, NEW isInterlaced,
         DecodeFrame(size, stamp, n, f, g, isB, isInterlaced)
  PROVE  f \notin held \cup hidden
<1> DEFINE flags == PicRunRegs(FillBuffer(writePos, size)).flags
<1> USE DEF FrameInv
<1>1. f = NoFrame \/ f \notin flags
  BY DEF DecodeFrame
<1>2. held \cup hidden \subseteq flags
  <2>1. CASE needMoreFrame
    <3>1. pending = "pic"
      BY <2>1 DEF DecodeFrame, DecodeWith, Commanded, PendingInv
    <3>2. flags = reg.flags
      BY <2>1 DEF PicRunRegs, FrameTypes
    <3> QED
      BY <3>1, <3>2 DEF RegisterInv
  <2>2. CASE ~needMoreFrame
    BY <2>2 DEF PicRunRegs, OwnerInv
  <2> QED
    BY <2>1, <2>2
<1>3. NoFrame \notin held \cup hidden
  BY StreamAssumption DEF NoFrame, FrameTypes
<1> QED
  BY <1>1, <1>2, <1>3

\* A PIC_RUN that waits for stream keeps its flags for the next call.
LEMMA DecodeWaits ==
  ASSUME FrameInv, NEW size, NEW stamp, DecodeNeedsStream(size, stamp)
  PROVE  FrameInv'
<1> USE DEF FrameInv
<1>1. /\ reg' = PicRunRegs(writePos') /\ needMoreFrame' = TRUE /\ pending' = "pic"
      /\ clearDisplayIndexes' = ClearedAtStart
      /\ stage = "ready" /\ stage' = stage /\ flushed' = FALSE
      /\ needMoreFrame => pending # "no"
      /\ UNCHANGED <<frameDisplayFlag, waiting, picOf, held, hidden, failed>>
  BY DEF DecodeNeedsStream, DecodeWith, Commanded, frameVars
<1>2. CASE needMoreFrame
  <2>1. pending = "pic" /\ clearDisplayIndexes' = clearDisplayIndexes
    BY <1>1, <1>2 DEF PendingInv, ClearedAtStart
  <2>2. reg' = [wr |-> writePos', rd |-> reg.rd, flags |-> reg.flags]
    BY <1>1, <1>2 DEF PicRunRegs, FrameTypes
  <2>3. /\ reg' = [wr |-> reg'.wr, rd |-> reg'.rd, flags |-> reg'.flags]
        /\ reg'.flags = reg.flags
    BY <2>2, WholeRegisters
  <2>4. FrameTypes'
    <3>1. reg.flags \subseteq Frames
      BY DEF FrameTypes, StillShown
    <3> QED
      BY <1>1, <2>1, <2>3, <3>1 DEF FrameTypes
  <2>5. OwnerInv' /\ PendingInv'
    BY <1>1, <2>1 DEF OwnerInv, PendingInv, StillShown
  <2>6. RegisterInv' /\ NoLeak'
    BY <1>1, <2>1, <2>3 DEF OwnerInv, RegisterInv, NoLeak, StillShown
  <2> QED
    BY <2>4, <2>5, <2>6
<1>3. CASE ~needMoreFrame
  <2>1. pending = "no" /\ clearDisplayIndexes' = {}
    BY <1>1, <1>3 DEF PendingInv, ClearedAtStart
  <2>2. reg' = [wr |-> writePos', rd |-> readPos, flags |-> StillShown]
    BY <1>1, <1>3 DEF PicRunRegs
  <2>3. /\ reg' = [wr |-> reg'.wr, rd |-> reg'.rd, flags |-> reg'.flags]
        /\ reg'.flags = StillShown
    BY <2>2, WholeRegisters
  <2>4. FrameTypes'
    <3>1. StillShown \subseteq Frames
      BY DEF FrameTypes, StillShown
    <3> QED
      BY <1>1, <2>1, <2>3, <3>1 DEF FrameTypes
  <2>5. OwnerInv' /\ PendingInv'
    BY <1>1, <2>1 DEF OwnerInv, PendingInv, StillShown
  <2>6. RegisterInv' /\ NoLeak'
    BY <1>1, <2>1, <2>3 DEF OwnerInv, RegisterInv, NoLeak, StillShown
  <2> QED
    BY <2>4, <2>5, <2>6
<1> QED
  BY <1>2, <1>3 DEF FrameTypes

\* A PIC_RUN that fails drops the flags it was to clear.
LEMMA DecodeFailed ==
  ASSUME FrameInv, NEW size, NEW stamp, DecodeFails(size, stamp)
  PROVE  FrameInv'
<1> USE DEF FrameInv
<1>1. /\ reg' = ForeignRegs /\ needMoreFrame' = FALSE /\ pending' = "no" /\ failed' = TRUE
      /\ clearDisplayIndexes' = ClearedAtStart
      /\ stage' = stage /\ flushed' = FALSE
      /\ UNCHANGED <<frameDisplayFlag, waiting, picOf, held, hidden>>
  BY DEF DecodeFails, DecodeWith, frameVars
<1>2. clearDisplayIndexes' \subseteq clearDisplayIndexes
  BY <1>1 DEF ClearedAtStart
<1> QED
  BY <1>1, <1>2 DEF FrameTypes, PendingInv, OwnerInv, RegisterInv, NoLeak, StillShown,
                    ForeignRegs

\* Nobody holds a frame while a sequence is parsed.
LEMMA Parsed ==
  ASSUME FrameInv, NEW size, NEW stamp,
         \/ ParseVideoCfg(size, stamp)
         \/ ParseNeedsStream(size, stamp)
         \/ ParseFails(size, stamp)
  PROVE  FrameInv'
<1> DEFINE w == FillBuffer(writePos, size)
           started == SeqInitRegs(w)
<1> USE DEF FrameInv
<1>1. /\ held = {} /\ hidden = {} /\ pending # "pic"
      /\ clearDisplayIndexes' = clearDisplayIndexes
      /\ UNCHANGED <<picOf, held, hidden>>
  BY DEF ParseVideoCfg, ParseNeedsStream, ParseFails, ParseWith, PendingInv, OwnerInv, frameVars
<1>2. ASSUME Commanded
      PROVE  /\ started.flags = {}
             /\ started = [wr |-> started.wr, rd |-> started.rd, flags |-> started.flags]
  <2>1. CASE needMoreFrame
    <3>1. pending = "seq" /\ reg.flags = {}
      BY <1>1, <1>2, <2>1 DEF PendingInv, Commanded
    <3> QED
      BY <2>1, <3>1 DEF SeqInitRegs, FrameTypes
  <2>2. CASE ~needMoreFrame
    BY <2>2 DEF SeqInitRegs
  <2> QED
    BY <2>1, <2>2
<1>3. CASE ParseVideoCfg(size, stamp)
  <2>1. /\ reg' = ForeignRegs /\ stage' = "parsed" /\ needMoreFrame' = FALSE
        /\ pending' = "no" /\ frameDisplayFlag' = started.flags /\ waiting' = {}
        /\ flushed' = FALSE /\ failed' = failed /\ Commanded
    BY <1>3 DEF ParseVideoCfg
  <2> QED
    BY <1>1, <1>2, <2>1 DEF FrameTypes, PendingInv, OwnerInv, RegisterInv, NoLeak, StillShown,
                            ForeignRegs
<1>4. CASE ParseNeedsStream(size, stamp)
  <2>1. /\ reg' = started /\ stage' = "opened" /\ needMoreFrame' = TRUE /\ pending' = "seq"
        /\ UNCHANGED <<frameDisplayFlag, waiting, flushed, failed>> /\ Commanded
    BY <1>4 DEF ParseNeedsStream
  <2> QED
    BY <1>1, <1>2, <2>1 DEF FrameTypes, PendingInv, OwnerInv, RegisterInv, NoLeak, StillShown
<1>5. CASE ParseFails(size, stamp)
  <2>1. /\ reg' = ForeignRegs /\ stage' = "opened" /\ needMoreFrame' = FALSE
        /\ pending' = "no" /\ failed' = TRUE
        /\ \/ frameDisplayFlag' = frameDisplayFlag
           \/ Commanded /\ frameDisplayFlag' = started.flags
        /\ UNCHANGED <<waiting, flushed>>
    BY <1>5 DEF ParseFails
  <2> QED
    BY <1>1, <1>2, <2>1 DEF FrameTypes, PendingInv, OwnerInv, RegisterInv, NoLeak, StillShown,
                            ForeignRegs
<1> QED
  BY <1>3, <1>4, <1>5

\* A returned frame leaves its holder and enters clearDisplayIndexes at once.
LEMMA Returned ==
  ASSUME FrameInv, NEW f \in Frames, ClrDspFlag(f)
  PROVE  FrameInv'
<1> USE DEF FrameInv
<1>1. /\ stage = "ready" /\ f \in held
      /\ clearDisplayIndexes' = clearDisplayIndexes \cup {f} /\ held' = held \ {f}
      /\ picOf' = [picOf EXCEPT ![f] = 0]
      /\ UNCHANGED <<stage, frameDisplayFlag, needMoreFrame, reg, pending, waiting, flushed,
                     hidden, failed>>
  BY DEF ClrDspFlag, WithCleared, blockVars
<1> QED
  BY <1>1 DEF FrameTypes, PendingInv, OwnerInv, RegisterInv, NoLeak, StillShown

\* The steps that restart a session, or stop half way in restarting one.
LEMMA Restarted ==
  ASSUME FrameInv, RegFrameBuf \/ Flush \/ FlushFails \/ CloseAndOpen
  PROVE  FrameInv'
<1> USE DEF FrameInv
<1>1. CASE RegFrameBuf
  <2>1. /\ stage' = "ready" /\ pending # "seq"
        /\ UNCHANGED <<flagVars, needMoreFrame, blockVars, flushed, frameVars, failed>>
    BY <1>1 DEF RegFrameBuf, PendingInv
  <2> QED
    BY <2>1 DEF flagVars, blockVars, frameVars, FrameTypes, PendingInv, OwnerInv, RegisterInv,
                NoLeak, StillShown
<1>2. CASE Flush
  <2>1. /\ frameDisplayFlag' = {} /\ clearDisplayIndexes' = {} /\ waiting' = {}
        /\ held' = {} /\ hidden' = {} /\ failed' = FALSE /\ flushed' = TRUE
        /\ picOf' = [f \in Frames |-> 0] /\ reg' = ForeignRegs /\ pending' = "no"
        /\ UNCHANGED <<stage, needMoreFrame>>
    BY <1>2 DEF Flush
  <2> QED
    BY <2>1 DEF FrameTypes, PendingInv, OwnerInv, RegisterInv, NoLeak, StillShown, ForeignRegs
<1>3. CASE FlushFails
  <2>1. /\ clearDisplayIndexes' = {} /\ failed' = TRUE /\ reg' = ForeignRegs /\ pending' = "no"
        /\ UNCHANGED <<stage, frameDisplayFlag, needMoreFrame, waiting, flushed, frameVars>>
    BY <1>3 DEF FlushFails
  <2> QED
    BY <2>1 DEF frameVars, FrameTypes, PendingInv, OwnerInv, RegisterInv, NoLeak, StillShown,
                ForeignRegs
<1>4. CASE CloseAndOpen
  <2>1. /\ frameDisplayFlag' = {} /\ clearDisplayIndexes' = {} /\ waiting' = {}
        /\ held' = {} /\ hidden' = {} /\ failed' = FALSE /\ flushed' = TRUE
        /\ picOf' = [f \in Frames |-> 0] /\ stage' = "opened"
        /\ needMoreFrame' = FALSE /\ reg' = ForeignRegs /\ pending' = "no"
    BY <1>4 DEF CloseAndOpen
  <2> QED
    BY <2>1 DEF FrameTypes, PendingInv, OwnerInv, RegisterInv, NoLeak, StillShown, ForeignRegs
<1> QED
  BY <1>1, <1>2, <1>3, <1>4

\* Every step keeps the invariant.
LEMMA FrameStep == FrameInv /\ [Next]_vars => FrameInv'
<1> SUFFICES ASSUME FrameInv, [Next]_vars PROVE FrameInv'
  OBVIOUS
<1>1. CASE UNCHANGED vars
  BY <1>1 DEF vars, flagVars, blockVars, frameVars, FrameInv, FrameTypes, PendingInv, OwnerInv,
              RegisterInv, NoLeak, StillShown
<1>2. ASSUME NEW size \in ChunkSizes, NEW stamp \in NewStamps,
             \/ ParseVideoCfg(size, stamp)
             \/ ParseNeedsStream(size, stamp)
             \/ ParseFails(size, stamp)
      PROVE  FrameInv'
  BY <1>2, Parsed
<1>3. CASE Decode
  <2>1. PICK size \in ChunkSizes \cup {0} : \E stamp \in CallStamps(size) :
          \/ \E n \in 0 .. Len(Fed(size, stamp)), f \in Frames \cup {NoFrame} :
               \E g \in waiting \cup {f, NoFrame}, isB \in {FALSE, ~vc1BframeDisplayValid},
                  isInterlaced \in {FALSE, f # NoFrame} :
                 DecodeFrame(size, stamp, n, f, g, isB, isInterlaced)
          \/ DecodeNeedsStream(size, stamp)
          \/ DecodeFails(size, stamp)
    BY <1>3 DEF Decode
  <2>2. PICK stamp \in CallStamps(size) :
          \/ \E n \in 0 .. Len(Fed(size, stamp)), f \in Frames \cup {NoFrame} :
               \E g \in waiting \cup {f, NoFrame}, isB \in {FALSE, ~vc1BframeDisplayValid},
                  isInterlaced \in {FALSE, f # NoFrame} :
                 DecodeFrame(size, stamp, n, f, g, isB, isInterlaced)
          \/ DecodeNeedsStream(size, stamp)
          \/ DecodeFails(size, stamp)
    BY <2>1
  <2> QED
    BY <2>2, Decoded, DecodeWaits, DecodeFailed
<1>4. ASSUME NEW f \in Frames, ClrDspFlag(f) PROVE FrameInv'
  BY <1>4, Returned
<1>5. CASE RegFrameBuf \/ Flush \/ FlushFails \/ CloseAndOpen
  BY <1>5, Restarted
<1> QED
  BY <1>1, <1>2, <1>3, <1>4, <1>5 DEF Next

-----------------------------------------------------------------------------
\* The invariant holds in every reachable state.
THEOREM Invariant == Spec => []FrameInv
<1> QED
  BY FrameInit, FrameStep, PTL DEF Spec

\* Every frame the client holds is flagged at the next PIC_RUN
\* (VPU_DecStartOneFrameCommand), and no other is while no call has failed.
THEOREM NoFrameLeaked == Spec => []FramesAccounted
<1>1. FrameInv => FramesAccounted
  BY DEF FrameInv, PendingInv, OwnerInv, NoLeak, FramesAccounted
<1> QED
  BY <1>1, Invariant, PTL

\* No step of the driver or the block writes a frame the client holds before
\* and after it, whatever flags an unfinished command runs on.
THEOREM HeldIsClientsAlone == Spec => HeldNotOverwritten
<1> DEFINE Kept == \A f \in held \cap held' : picOf'[f] = picOf[f]
<1>1. FrameInv /\ [Next]_vars => [Kept]_vars
  <2> SUFFICES ASSUME FrameInv, Next PROVE Kept
    OBVIOUS
  <2>1. held \subseteq Frames /\ DOMAIN picOf = Frames
    BY DEF FrameInv, FrameTypes
  <2>2. ASSUME NEW size, NEW stamp,
               \/ ParseVideoCfg(size, stamp)
               \/ ParseNeedsStream(size, stamp)
               \/ ParseFails(size, stamp)
        PROVE  Kept
    BY <2>2 DEF ParseVideoCfg, ParseNeedsStream, ParseFails, ParseWith, frameVars
  <2>3. ASSUME NEW size, NEW stamp, NEW n, NEW f, NEW g, NEW isB, NEW isInterlaced,
               DecodeFrame(size, stamp, n, f, g, isB, isInterlaced)
        PROVE  Kept
    <3>1. f \notin held
      BY <2>1, <2>3, DecodesElsewhere
    <3>2. \/ picOf' = picOf
          \/ picOf' = [picOf EXCEPT ![f] = Fed(size, stamp)[n].stamp]
      BY <2>3 DEF DecodeFrame
    <3> QED
      BY <2>1, <3>1, <3>2
  <2>4. ASSUME NEW size, NEW stamp,
               DecodeNeedsStream(size, stamp) \/ DecodeFails(size, stamp)
        PROVE  Kept
    BY <2>4 DEF DecodeNeedsStream, DecodeFails, frameVars
  <2>5. ASSUME NEW f \in Frames, ClrDspFlag(f) PROVE Kept
    <3>1. picOf' = [picOf EXCEPT ![f] = 0] /\ f \notin held'
      BY <2>5 DEF ClrDspFlag
    <3> QED
      BY <2>1, <3>1
  <2>6. CASE RegFrameBuf \/ FlushFails
    BY <2>6 DEF RegFrameBuf, FlushFails, frameVars
  <2>7. CASE Flush \/ CloseAndOpen
    <3>1. held' = {}
      BY <2>7 DEF Flush, CloseAndOpen
    <3> QED
      BY <3>1
  <2>8. Decode => Kept
    BY <2>3, <2>4 DEF Decode
  <2> QED
    BY <2>2, <2>5, <2>6, <2>7, <2>8 DEF Next
<1> QED
  BY <1>1, Invariant, PTL DEF Spec, HeldNotOverwritten
-----------------------------------------------------------------------------
(* The chunks in the ring. *)

\* The sums of a sequence of chunks exist, and are computed from the left.
LEMMA SumsFromTheLeft ==
  ASSUME NEW chunks \in Seq(Chunks)
  PROVE  /\ Sums(chunks)[0] = 0
         /\ \A i \in 1 .. Len(chunks) : Sums(chunks)[i] = Sums(chunks)[i - 1] + chunks[i].size
         /\ \A i \in 0 .. Len(chunks) : Sums(chunks)[i] \in Nat
<1> DEFINE Fold(f, m) == f = [i \in 0 .. m |-> IF i = 0 THEN 0 ELSE f[i - 1] + chunks[i].size]
           Reach == {m \in 0 .. Len(chunks) : \E f : Fold(f, m)}
<1>0. Len(chunks) \in Nat
  OBVIOUS
<1>1. 0 \in Reach
  <2>1. Fold([i \in 0 .. 0 |-> 0], 0)
    OBVIOUS
  <2> HIDE DEF Fold
  <2> QED
    BY <2>1, <1>0
<1>2. ASSUME NEW m \in 0 .. Len(chunks) - 1, m \in Reach PROVE m + 1 \in Reach
  <2>1. PICK f : Fold(f, m)
    BY <1>2
  <2> DEFINE g == [i \in 0 .. m + 1 |-> IF i = m + 1 THEN f[m] + chunks[m + 1].size ELSE f[i]]
  <2>2. \A i \in 0 .. m : g[i] = f[i]
    BY <1>0
  <2>3. \A i \in 0 .. m : f[i] = IF i = 0 THEN 0 ELSE f[i - 1] + chunks[i].size
    BY <2>1
  <2>4. \A i \in 0 .. m + 1 : g[i] = IF i = 0 THEN 0 ELSE g[i - 1] + chunks[i].size
    BY <1>0, <2>2, <2>3
  <2>5. Fold(g, m + 1)
    BY <2>4
  <2> HIDE DEF g, Fold
  <2>6. \E f1 : Fold(f1, m + 1)
    BY <2>5
  <2> QED
    BY <1>0, <2>6
<1>3. Len(chunks) \in Reach
  <2> HIDE DEF Reach
  <2>1. 0 .. Len(chunks) \subseteq Reach
    BY <1>0, <1>1, <1>2, Upwards
  <2> QED
    BY <1>0, <2>1
<1>4. Sums(chunks) = [i \in 0 .. Len(chunks) |->
                        IF i = 0 THEN 0 ELSE Sums(chunks)[i - 1] + chunks[i].size]
  <2>1. \E f : f = [i \in 0 .. Len(chunks) |-> IF i = 0 THEN 0 ELSE f[i - 1] + chunks[i].size]
    BY <1>3
  <2> QED
    BY <2>1, Zenon DEF Sums
<1> HIDE DEF Reach, Fold
<1>5. Sums(chunks)[0] = 0
  BY <1>0, <1>4
<1>6. \A i \in 1 .. Len(chunks) : Sums(chunks)[i] = Sums(chunks)[i - 1] + chunks[i].size
  BY <1>0, <1>4
<1>7. \A i \in 0 .. Len(chunks) : Sums(chunks)[i] \in Nat
  <2> DEFINE Good == {i \in 0 .. Len(chunks) : Sums(chunks)[i] \in Nat}
  <2>1. 0 \in Good
    BY <1>0, <1>5
  <2>2. ASSUME NEW i \in 0 .. Len(chunks) - 1, i \in Good PROVE i + 1 \in Good
    <3>1. chunks[i + 1] \in Chunks
      BY <1>0
    <3>2. chunks[i + 1].size \in Nat
      BY <3>1, StreamAssumption DEF Chunks
    <3> QED
      BY <1>0, <1>6, <2>2, <3>2
  <2> HIDE DEF Good
  <2>3. 0 .. Len(chunks) \subseteq Good
    BY <1>0, <2>1, <2>2, Upwards
  <2> QED
    BY <2>3 DEF Good
<1> QED
  BY <1>5, <1>6, <1>7

\* Two sequences that agree on their first sizes agree on the sum of these.
LEMMA SumsAgree ==
  ASSUME NEW a \in Seq(Chunks), NEW b \in Seq(Chunks), NEW m \in 0 .. Len(a), m <= Len(b),
         \A i \in 1 .. m : a[i].size = b[i].size
  PROVE  Sums(a)[m] = Sums(b)[m]
<1> DEFINE Same == {i \in 0 .. m : Sums(a)[i] = Sums(b)[i]}
<1>0. Len(a) \in Nat /\ Len(b) \in Nat /\ m \in Nat
  OBVIOUS
<1>1. 0 \in Same
  BY <1>0, SumsFromTheLeft
<1>2. ASSUME NEW i \in 0 .. m - 1, i \in Same PROVE i + 1 \in Same
  <2>1. i + 1 \in 1 .. Len(a) /\ i + 1 \in 1 .. Len(b) /\ i + 1 \in 1 .. m /\ (i + 1) - 1 = i
    BY <1>0
  <2>2. /\ Sums(a)[i + 1] = Sums(a)[i] + a[i + 1].size
        /\ Sums(b)[i + 1] = Sums(b)[i] + b[i + 1].size
    BY <2>1, SumsFromTheLeft
  <2> QED
    BY <1>0, <1>2, <2>1, <2>2
<1> HIDE DEF Same
<1>3. 0 .. m \subseteq Same
  BY <1>0, <1>1, <1>2, Upwards
<1> QED
  BY <1>0, <1>3 DEF Same

\* How many cells chunks take, and that the last of them is among these.
LEMMA BytesNat ==
  ASSUME NEW chunks \in Seq(Chunks)
  PROVE  /\ Bytes(chunks) \in Nat
         /\ chunks = <<>> => Bytes(chunks) = 0
         /\ chunks # <<>> => /\ Bytes(chunks) >= chunks[Len(chunks)].size
                             /\ Bytes(chunks) > 0
<1>1. Len(chunks) \in Nat
  OBVIOUS
<1>2. Bytes(chunks) \in Nat
  BY <1>1, SumsFromTheLeft DEF Bytes
<1>3. CASE chunks = <<>>
  BY <1>2, <1>3, SumsFromTheLeft DEF Bytes
<1>4. CASE chunks # <<>>
  <2>1. Len(chunks) \in 1 .. Len(chunks) /\ Len(chunks) - 1 \in 0 .. Len(chunks)
    BY <1>1, <1>4
  <2>2. chunks[Len(chunks)].size \in Nat \ {0}
    <3>1. chunks[Len(chunks)] \in Chunks
      BY <2>1
    <3> QED
      BY <3>1, StreamAssumption DEF Chunks
  <2>3. /\ Sums(chunks)[Len(chunks)] = Sums(chunks)[Len(chunks) - 1] + chunks[Len(chunks)].size
        /\ Sums(chunks)[Len(chunks) - 1] \in Nat
    BY <2>1, SumsFromTheLeft
  <2> QED
    BY <1>2, <1>4, <2>2, <2>3 DEF Bytes
<1> QED
  BY <1>2, <1>3, <1>4

\* The client feeds a chunk.
LEMMA BytesAppended ==
  ASSUME NEW chunks \in Seq(Chunks), NEW c \in Chunks
  PROVE  Bytes(Append(chunks, c)) = Bytes(chunks) + c.size
<1> DEFINE longer == Append(chunks, c)
           n == Len(chunks)
<1>1. /\ longer \in Seq(Chunks) /\ Len(longer) = n + 1 /\ longer[n + 1] = c /\ n \in Nat
      /\ \A i \in 1 .. n : longer[i] = chunks[i]
  OBVIOUS
<1> HIDE DEF longer
<1>2. Sums(longer)[n] = Sums(chunks)[n]
  BY <1>1, SumsAgree
<1>3. n + 1 \in 1 .. Len(longer) /\ (n + 1) - 1 = n
  BY <1>1
<1>4. Sums(longer)[n + 1] = Sums(longer)[n] + longer[n + 1].size
  BY <1>3, <1>1, SumsFromTheLeft
<1>5. Bytes(longer) = Bytes(chunks) + c.size
  BY <1>1, <1>2, <1>4 DEF Bytes
<1> QED
  BY <1>5 DEF longer

\* The client feeds more of the last chunk.
LEMMA BytesEnlarged ==
  ASSUME NEW chunks \in Seq(Chunks), chunks # <<>>, NEW k \in Nat,
         Bytes(chunks) + k < StrmBufSize
  PROVE  LET larger == [chunks EXCEPT ![Len(chunks)].size = @ + k]
         IN  /\ larger \in Seq(Chunks) /\ Len(larger) = Len(chunks)
             /\ Bytes(larger) = Bytes(chunks) + k
             /\ \A i \in 1 .. Len(chunks) : larger[i].stamp = chunks[i].stamp
<1> DEFINE larger == [chunks EXCEPT ![Len(chunks)].size = @ + k]
           n == Len(chunks)
<1>1. n \in Nat \ {0} /\ n \in 1 .. n
  OBVIOUS
<1>2. chunks[n] \in Chunks /\ Bytes(chunks) >= chunks[n].size /\ Bytes(chunks) \in Nat
  BY <1>1, BytesNat
<1>3. chunks[n].size \in 1 .. StrmBufSize - 1 /\ chunks[n].stamp \in Stamps
  BY <1>2 DEF Chunks
<1>4. [chunks[n] EXCEPT !.size = @ + k] = [stamp |-> chunks[n].stamp, size |-> chunks[n].size + k]
  BY <1>2 DEF Chunks
<1>5. [chunks[n] EXCEPT !.size = @ + k] \in Chunks
  BY <1>2, <1>3, <1>4, StreamAssumption DEF Chunks
<1>6. larger \in Seq(Chunks) /\ Len(larger) = n
  BY <1>1, <1>5
<1>7. /\ larger[n].size = chunks[n].size + k /\ larger[n].stamp = chunks[n].stamp
      /\ \A i \in 1 .. n - 1 : larger[i] = chunks[i]
  BY <1>1, <1>4
<1> HIDE DEF larger
<1>8. Sums(larger)[n - 1] = Sums(chunks)[n - 1]
  <2>1. n - 1 \in 0 .. Len(chunks) /\ n - 1 <= Len(larger)
    BY <1>1, <1>6
  <2> QED
    BY <1>1, <1>6, <1>7, <2>1, SumsAgree
<1>9. /\ Sums(larger)[n] = Sums(larger)[n - 1] + larger[n].size
      /\ Sums(chunks)[n] = Sums(chunks)[n - 1] + chunks[n].size
      /\ Sums(chunks)[n - 1] \in Nat
  <2>1. n \in 1 .. Len(larger) /\ n - 1 \in 0 .. Len(chunks)
    BY <1>1, <1>6
  <2> QED
    BY <1>1, <1>6, <2>1, SumsFromTheLeft
<1>10. Bytes(larger) = Bytes(chunks) + k
  BY <1>3, <1>6, <1>7, <1>8, <1>9 DEF Bytes
<1>11. \A i \in 1 .. n : larger[i].stamp = chunks[i].stamp
  BY <1>1, <1>7
<1>12. /\ larger \in Seq(Chunks) /\ Len(larger) = Len(chunks)
       /\ Bytes(larger) = Bytes(chunks) + k
       /\ \A i \in 1 .. Len(chunks) : larger[i].stamp = chunks[i].stamp
  BY <1>6, <1>10, <1>11
<1> QED
  BY <1>12 DEF larger

\* The block reads the first n chunks.
LEMMA BytesSplit ==
  ASSUME NEW chunks \in Seq(Chunks), NEW n \in 0 .. Len(chunks)
  PROVE  LET read == SubSeq(chunks, 1, n)
             rest == SubSeq(chunks, n + 1, Len(chunks))
         IN  /\ read \in Seq(Chunks) /\ rest \in Seq(Chunks)
             /\ Len(rest) = Len(chunks) - n
             /\ \A i \in 1 .. Len(rest) : rest[i] = chunks[n + i]
             /\ Bytes(chunks) = Bytes(read) + Bytes(rest)
<1> DEFINE read == SubSeq(chunks, 1, n)
           rest == SubSeq(chunks, n + 1, Len(chunks))
           m == Len(chunks) - n
<1>1. Len(chunks) \in Nat /\ n \in Nat /\ m \in Nat
  OBVIOUS
<1>2. /\ read \in Seq(Chunks) /\ Len(read) = n
      /\ \A i \in 1 .. n : read[i] = chunks[i]
  BY <1>1
<1>3. /\ rest \in Seq(Chunks) /\ Len(rest) = m
      /\ \A i \in 1 .. m : rest[i] = chunks[n + i]
  BY <1>1
<1> HIDE DEF read, rest
<1>4. Sums(read)[n] = Sums(chunks)[n]
  <2>1. n \in 0 .. Len(read) /\ n <= Len(chunks)
    BY <1>1, <1>2
  <2> QED
    BY <1>2, <2>1, SumsAgree
<1> DEFINE Shifted == {i \in 0 .. m : Sums(chunks)[n + i] = Sums(chunks)[n] + Sums(rest)[i]}
<1>5. 0 \in Shifted
  <2>1. Sums(rest)[0] = 0 /\ Sums(chunks)[n] \in Nat
    BY <1>1, <1>3, SumsFromTheLeft
  <2> QED
    BY <1>1, <2>1
<1>6. ASSUME NEW i \in 0 .. m - 1, i \in Shifted PROVE i + 1 \in Shifted
  <2>1. /\ n + i + 1 \in 1 .. Len(chunks) /\ i + 1 \in 1 .. Len(rest)
        /\ n + i \in 0 .. Len(chunks) /\ i \in 0 .. Len(rest)
        /\ (n + i + 1) - 1 = n + i /\ (i + 1) - 1 = i
    BY <1>1, <1>3
  <2>2. Sums(chunks)[n + i + 1] = Sums(chunks)[n + i] + chunks[n + i + 1].size
    BY <2>1, SumsFromTheLeft
  <2>3. Sums(rest)[i + 1] = Sums(rest)[i] + rest[i + 1].size
    BY <1>3, <2>1, SumsFromTheLeft
  <2>4. rest[i + 1] = chunks[n + i + 1]
    <3>1. i + 1 \in 1 .. m /\ n + (i + 1) = n + i + 1
      BY <1>1
    <3>2. \A j \in 1 .. m : rest[j] = chunks[n + j]
      BY <1>3
    <3>3. rest[i + 1] = chunks[n + (i + 1)]
      BY <3>1, <3>2
    <3> QED
      BY <3>1, <3>3
  <2>5. Sums(rest)[i] \in Nat /\ Sums(chunks)[n] \in Nat /\ chunks[n + i + 1].size \in Nat
    <3>1. chunks[n + i + 1] \in Chunks
      BY <2>1
    <3>2. chunks[n + i + 1].size \in Nat
      BY <3>1, StreamAssumption DEF Chunks
    <3>3. n \in 0 .. Len(chunks)
      BY <1>1
    <3> QED
      BY <1>3, <2>1, <3>2, <3>3, SumsFromTheLeft
  <2> QED
    BY <1>1, <1>6, <2>1, <2>2, <2>3, <2>4, <2>5
<1> HIDE DEF Shifted
<1>7. 0 .. m \subseteq Shifted
  BY <1>1, <1>5, <1>6, Upwards
<1>8. Sums(chunks)[n + m] = Sums(chunks)[n] + Sums(rest)[m]
  BY <1>1, <1>7 DEF Shifted
<1>9. Bytes(chunks) = Bytes(read) + Bytes(rest)
  BY <1>1, <1>2, <1>3, <1>4, <1>8 DEF Bytes
<1> QED
  BY <1>2, <1>3, <1>9 DEF read, rest

\* How far a position moves.
LEMMA Moves ==
  ASSUME NEW pos \in Offsets, NEW size \in 0 .. StrmBufSize
  PROVE  /\ After(pos, size) = IF pos + size < StrmBufSize THEN pos + size
                               ELSE pos + size - StrmBufSize
         /\ After(pos, size) \in Offsets
<1>1. StrmBufSize \in Nat /\ pos \in 0 .. StrmBufSize - 1
  BY StreamAssumption DEF Offsets
<1>2. /\ pos + size < StrmBufSize => (pos + size) % StrmBufSize = pos + size
      /\ pos + size >= StrmBufSize => (pos + size) % StrmBufSize = pos + size - StrmBufSize
      /\ (pos + size) % StrmBufSize \in 0 .. StrmBufSize - 1
  BY <1>1, CellAfter
<1> QED
  BY <1>1, <1>2 DEF After, Offsets

\* Moving twice is moving by the sum.
LEMMA MovesTwice ==
  ASSUME NEW pos \in Offsets, NEW a \in Nat, NEW b \in Nat, a + b < StrmBufSize
  PROVE  After(After(pos, a), b) = After(pos, a + b)
<1>1. a \in 0 .. StrmBufSize /\ b \in 0 .. StrmBufSize /\ a + b \in 0 .. StrmBufSize
  BY StreamAssumption
<1>2. After(pos, a) \in Offsets
  BY <1>1, Moves
<1>3. /\ After(pos, a) = IF pos + a < StrmBufSize THEN pos + a ELSE pos + a - StrmBufSize
      /\ After(pos, a + b) = IF pos + (a + b) < StrmBufSize THEN pos + (a + b)
                             ELSE pos + (a + b) - StrmBufSize
  BY <1>1, Moves
<1>4. After(After(pos, a), b) = IF After(pos, a) + b < StrmBufSize THEN After(pos, a) + b
                                ELSE After(pos, a) + b - StrmBufSize
  BY <1>1, <1>2, Moves
<1> QED
  BY <1>1, <1>3, <1>4, StreamAssumption DEF Offsets

-----------------------------------------------------------------------------
(* The ring. *)

\* Where positions are, and what the registers of an unfinished command hold.
Positions ==
  /\ readPos \in Offsets /\ writePos \in Offsets /\ prevStrmReadPos \in Offsets
  /\ unread \in Seq(Chunks)
  /\ reg.wr \in Offsets /\ reg.rd \in Offsets
  /\ pending # "no" => unread # <<>> /\ reg.wr = writePos /\ reg.rd = readPos

\* What DecodeFrame may report.
Results == [outcome : {"OK", "NEED_STREAM", "ERROR"}, ret : Int,
            img : Frames \cup {NoFrame, Hidden}, stamp : Stamps \cup {NoStamp, Shown}]

\* The shapes of the stamps and of the results.
StampTypes ==
  /\ savedTimeStamp \in Stamps \cup {NoStamp} /\ primed \in Stamps \cup {NoStamp}
  /\ timeStamp \in [Frames -> Stamps \cup {NoStamp, Shown}]
  /\ picOf \in [Frames -> Stamps \cup {0}]
  /\ vc1BframeDisplayValid \in BOOLEAN
  /\ last \in Results

\* The ring agrees with what the client fed, and all values have their types.
RingInv == Positions /\ RingAgrees /\ StampTypes

\* An opened decoder's ring is empty.
LEMMA RingInit == Init => RingInv
<1> SUFFICES ASSUME Init PROVE RingInv
  OBVIOUS
<1>1. 0 \in Offsets /\ StrmBufSize \in Nat \ {0}
  BY StreamAssumption DEF Offsets
<1>2. Positions
  BY <1>1 DEF Init, Positions, ForeignRegs
<1>3. RingAgrees
  <2>1. <<>> \in Seq(Chunks) /\ Bytes(<<>>) = 0
    <3>1. <<>> \in Seq(Chunks)
      OBVIOUS
    <3> QED
      BY <3>1, BytesNat
  <2>2. After(0, 0) = 0
    BY <1>1, Moves
  <2> QED
    BY <1>1, <2>1, <2>2 DEF Init, RingAgrees
<1>4. StampTypes
  BY DEF Init, StampTypes, Results, Nothing, VID_ERR_NONE
<1> QED
  BY <1>2, <1>3, <1>4 DEF RingInv

\* What the client feeds lies behind what is there, up to the new write position.
LEMMA Feeding ==
  ASSUME FrameInv, RingInv, NEW size \in ChunkSizes \cup {0}, NEW stamp,
         size > 0 => Fits(size) /\ stamp \in Stamps
  PROVE  /\ Fed(size, stamp) \in Seq(Chunks)
         /\ Bytes(Fed(size, stamp)) = Bytes(unread) + size
         /\ Bytes(Fed(size, stamp)) < StrmBufSize
         /\ FillBuffer(writePos, size) = After(writePos, size)
         /\ FillBuffer(writePos, size) = After(readPos, Bytes(Fed(size, stamp)))
         /\ FillBuffer(writePos, size) \in Offsets
         /\ pending # "no" \/ size > 0 => Fed(size, stamp) # <<>>
<1>1. /\ StrmBufSize \in Nat \ {0} /\ size \in 0 .. StrmBufSize - 1 /\ size \in Nat
      /\ size > 0 => size \in 1 .. StrmBufSize - 1
  BY StreamAssumption
<1>2. unread \in Seq(Chunks) /\ Bytes(unread) \in Nat /\ Bytes(unread) < StrmBufSize
  BY BytesNat DEF RingInv, Positions, RingAgrees
<1>3. Bytes(unread) + size < StrmBufSize
  BY <1>1, <1>2 DEF Fits
<1>4. /\ Fed(size, stamp) \in Seq(Chunks)
      /\ Bytes(Fed(size, stamp)) = Bytes(unread) + size
      /\ pending # "no" \/ size > 0 => Fed(size, stamp) # <<>>
  <2>1. CASE pending # "no"
    <3>1. unread # <<>>
      BY <2>1 DEF RingInv, Positions
    <3>2. Fed(size, stamp) = [unread EXCEPT ![Len(unread)].size = @ + size]
      BY <2>1 DEF Fed
    <3>3. Len(Fed(size, stamp)) = Len(unread) /\ Len(unread) # 0
      BY <1>1, <1>2, <1>3, <3>1, <3>2, BytesEnlarged
    <3>4. Fed(size, stamp) # <<>>
      BY <3>3
    <3> QED
      BY <1>1, <1>2, <1>3, <3>1, <3>2, <3>4, BytesEnlarged
  <2>2. CASE pending = "no" /\ size = 0
    BY <1>2, <2>2 DEF Fed
  <2>3. CASE pending = "no" /\ size # 0
    <3>1. [stamp |-> stamp, size |-> size] \in Chunks
      BY <1>1, <2>3 DEF Chunks
    <3>2. Fed(size, stamp) = Append(unread, [stamp |-> stamp, size |-> size])
      BY <2>3 DEF Fed
    <3>3. Fed(size, stamp) \in Seq(Chunks) /\ Fed(size, stamp) # <<>>
      BY <1>2, <3>1, <3>2, AppendProperties
    <3>4. Bytes(Fed(size, stamp)) = Bytes(unread) + size
      BY <1>2, <3>1, <3>2, BytesAppended
    <3> QED
      BY <3>3, <3>4
  <2> QED
    BY <2>1, <2>2, <2>3
<1>5. writePos \in Offsets /\ readPos \in Offsets /\ After(readPos, Bytes(unread)) = writePos
  BY DEF RingInv, Positions, RingAgrees
<1>6. FillBuffer(writePos, size) = After(writePos, size) /\ After(writePos, size) \in Offsets
  <2>1. writePos \in 0 .. StrmBufSize - 1
    BY <1>5 DEF Offsets
  <2>2. /\ After(writePos, size) = IF writePos + size < StrmBufSize THEN writePos + size
                                   ELSE writePos + size - StrmBufSize
        /\ After(writePos, size) \in Offsets
    <3>1. size \in 0 .. StrmBufSize
      BY <1>1
    <3> QED
      BY <1>5, <3>1, Moves
  <2> QED
    BY <1>1, <2>1, <2>2 DEF FillBuffer
<1>7. After(writePos, size) = After(readPos, Bytes(unread) + size)
  BY <1>1, <1>2, <1>3, <1>5, MovesTwice
<1> QED
  BY <1>2, <1>3, <1>4, <1>6, <1>7

\* The registers a command runs on name the positions of the ring.
LEMMA StartedRegs ==
  ASSUME FrameInv, RingInv, Commanded, NEW w \in Offsets
  PROVE  /\ PicRunRegs(w).wr = w /\ PicRunRegs(w).rd = readPos
         /\ SeqInitRegs(w).wr = w /\ SeqInitRegs(w).rd = readPos
<1>1. CASE needMoreFrame
  <2>1. pending # "no" /\ reg = [wr |-> reg.wr, rd |-> reg.rd, flags |-> reg.flags]
    BY <1>1 DEF FrameInv, FrameTypes, Commanded
  <2>2. reg.rd = readPos
    BY <2>1 DEF RingInv, Positions
  <2>3. [reg EXCEPT !.wr = w] = [wr |-> w, rd |-> reg.rd, flags |-> reg.flags]
    BY <2>1
  <2>4. PicRunRegs(w) = [wr |-> w, rd |-> reg.rd, flags |-> reg.flags]
    BY <1>1, <2>3 DEF PicRunRegs
  <2>5. SeqInitRegs(w) = [wr |-> w, rd |-> reg.rd, flags |-> reg.flags]
    BY <1>1, <2>3 DEF SeqInitRegs
  <2> QED
    BY <2>2, <2>4, <2>5
<1>2. CASE ~needMoreFrame
  BY <1>2 DEF PicRunRegs, SeqInitRegs
<1> QED
  BY <1>1, <1>2

\* The stamp a call comes with.
LEMMA CallStamp ==
  ASSUME FrameInv, RingInv, NEW size \in ChunkSizes \cup {0}, NEW stamp \in CallStamps(size)
  PROVE  stamp \in Stamps \cup {NoStamp} /\ (size > 0 => stamp \in Stamps)
<1>1. CASE pending = "pic"
  <2>1. unread \in Seq(Chunks) /\ unread # <<>>
    BY <1>1 DEF RingInv, Positions
  <2>2. unread[Len(unread)] \in Chunks
    BY <2>1
  <2> QED
    BY <1>1, <2>2 DEF CallStamps, Chunks
<1>2. CASE pending # "pic"
  BY <1>2 DEF CallStamps, NewStamps, RingInv, StampTypes
<1> QED
  BY <1>1, <1>2

\* What a completed PIC_RUN leaves in the ring.
LEMMA RingRead ==
  ASSUME FrameInv, RingInv, NEW size \in ChunkSizes \cup {0}, NEW stamp \in CallStamps(size),
         NEW n \in 0 .. Len(Fed(size, stamp)), NEW f, NEW g, NEW isB, NEW isInterlaced,
         DecodeFrame(size, stamp, n, f, g, isB, isInterlaced)
  PROVE  /\ Positions' /\ RingAgrees'
         /\ writePos' = After(readPos, Bytes(Fed(size, stamp)))
         /\ readPos' = After(readPos, Bytes(SubSeq(Fed(size, stamp), 1, n)))
<1> DEFINE chunks == Fed(size, stamp)
           w == FillBuffer(writePos, size)
           read == SubSeq(chunks, 1, n)
           rest == SubSeq(chunks, n + 1, Len(chunks))
<1>1. /\ writePos' = w
      /\ unread' = rest /\ reg' = ForeignRegs /\ pending' = "no"
      /\ readPos' = After(PicRunRegs(w).rd, Bytes(read))
      /\ prevStrmReadPos' = IF size > 0 THEN readPos' ELSE prevStrmReadPos
      /\ size > 0 => Fits(size)
      /\ Commanded
  BY DEF DecodeFrame, DecodeWith
<1>2. /\ chunks \in Seq(Chunks) /\ Bytes(chunks) < StrmBufSize
      /\ w = After(readPos, Bytes(chunks)) /\ w \in Offsets
  BY <1>1, CallStamp, Feeding
<1>3. PicRunRegs(w).rd = readPos
  BY <1>1, <1>2, StartedRegs
<1> HIDE DEF chunks, w
<1>4. /\ read \in Seq(Chunks) /\ rest \in Seq(Chunks)
      /\ Bytes(chunks) = Bytes(read) + Bytes(rest)
  BY <1>2, BytesSplit DEF chunks
<1> HIDE DEF read, rest
<1>5. Bytes(read) \in Nat /\ Bytes(rest) \in Nat /\ Bytes(read) + Bytes(rest) < StrmBufSize
  BY <1>2, <1>4, BytesNat
<1>6. readPos \in Offsets /\ prevStrmReadPos \in Offsets /\ 0 \in Offsets
  BY StreamAssumption DEF RingInv, Positions, Offsets
<1>7. readPos' = After(readPos, Bytes(read)) /\ readPos' \in Offsets
  <2>1. Bytes(read) \in 0 .. StrmBufSize
    BY <1>5, StreamAssumption
  <2> QED
    BY <1>1, <1>3, <1>6, <2>1, Moves
<1>8. After(readPos', Bytes(rest)) = w
  BY <1>2, <1>4, <1>5, <1>6, <1>7, MovesTwice
<1>9. Bytes(rest) < StrmBufSize
  BY <1>5, StreamAssumption
<1>10. Positions'
  <2>1. reg'.wr = 0 /\ reg'.rd = 0
    BY <1>1 DEF ForeignRegs
  <2> QED
    BY <1>1, <1>2, <1>4, <1>6, <1>7, <2>1 DEF Positions, Offsets
<1>11. RingAgrees'
  BY <1>1, <1>8, <1>9 DEF RingAgrees
<1> QED
  BY <1>1, <1>2, <1>7, <1>10, <1>11 DEF chunks, w, read

\* One field of a result is set, or another.
LEMMA OneField ==
  ASSUME NEW o, NEW r, NEW i, NEW x, NEW y,
         NEW R, R = [outcome |-> o, ret |-> r, img |-> i, stamp |-> x]
  PROVE  /\ [R EXCEPT !.outcome = y] = [outcome |-> y, ret |-> r, img |-> i, stamp |-> x]
         /\ [R EXCEPT !.ret = y] = [outcome |-> o, ret |-> y, img |-> i, stamp |-> x]
         /\ [R EXCEPT !.img = y] = [outcome |-> o, ret |-> r, img |-> y, stamp |-> x]
         /\ [R EXCEPT !.stamp = y] = [outcome |-> o, ret |-> r, img |-> i, stamp |-> y]
  OBVIOUS

\* What a DecodeFrame that shows a frame reports.
LEMMA FrameReported ==
  ASSUME NEW i \in Frames, NEW x \in Stamps \cup {NoStamp, Shown}
  PROVE  [Nothing EXCEPT !.img = i, !.stamp = x] \in Results
<1>1. PICK R : R = [Nothing EXCEPT !.img = i]
  OBVIOUS
<1>2. R = [outcome |-> "OK", ret |-> VID_ERR_NONE, img |-> i, stamp |-> NoStamp]
  BY <1>1, OneField DEF Nothing
<1>3. [R EXCEPT !.stamp = x] = [outcome |-> "OK", ret |-> VID_ERR_NONE, img |-> i, stamp |-> x]
  BY <1>2, OneField
<1>4. [R EXCEPT !.stamp = x] = [Nothing EXCEPT !.img = i, !.stamp = x]
  BY <1>1, Zenon
<1>5. [R EXCEPT !.stamp = x] \in Results
  BY <1>3 DEF Results, VID_ERR_NONE
<1> QED
  BY <1>4, <1>5

\* What one that does not complete reports.
LEMMA OutcomeReported ==
  ASSUME NEW o \in {"OK", "NEED_STREAM", "ERROR"}
  PROVE  [Nothing EXCEPT !.outcome = o, !.ret = DecArgRet] \in Results
<1>1. PICK R : R = [Nothing EXCEPT !.outcome = o]
  OBVIOUS
<1>2. R = [outcome |-> o, ret |-> VID_ERR_NONE, img |-> NoFrame, stamp |-> NoStamp]
  BY <1>1, OneField DEF Nothing
<1>3. [R EXCEPT !.ret = DecArgRet] =
        [outcome |-> o, ret |-> DecArgRet, img |-> NoFrame, stamp |-> NoStamp]
  BY <1>2, OneField
<1>4. [R EXCEPT !.ret = DecArgRet] = [Nothing EXCEPT !.outcome = o, !.ret = DecArgRet]
  BY <1>1, Zenon
<1>5. [R EXCEPT !.ret = DecArgRet] \in Results
  BY <1>3 DEF Results, DecArgRet, VID_ERR_NONE
<1> QED
  BY <1>4, <1>5

\* What it does to the stamps, and what the client is told.
LEMMA StampsDecoded ==
  ASSUME FrameInv, RingInv, NEW size \in ChunkSizes \cup {0}, NEW stamp \in CallStamps(size),
         NEW n \in 0 .. Len(Fed(size, stamp)),
         NEW f \in Frames \cup {NoFrame}, NEW g \in waiting \cup {f, NoFrame},
         NEW isB, NEW isInterlaced, DecodeFrame(size, stamp, n, f, g, isB, isInterlaced)
  PROVE  StampTypes'
<1> DEFINE chunks == Fed(size, stamp)
           w == FillBuffer(writePos, size)
           own == OwnStamp(size, After(PicRunRegs(w).rd, Bytes(SubSeq(chunks, 1, n))), writePos')
           given == IF own THEN stamp ELSE savedTimeStamp
           stampOf == PutDispInfo(f, isInterlaced, given)
           keep == ~vc1BframeDisplayValid /\ isB
<1>1. /\ size > 0 => Fits(size)
      /\ primed' = NoStamp
      /\ f = NoFrame \/ (n > 0 /\ f \in Frames)
      /\ vc1BframeDisplayValid' = (vc1BframeDisplayValid \/ ~isB)
      /\ savedTimeStamp' = IF own THEN savedTimeStamp ELSE stamp
      /\ picOf' = IF f \in waiting \cup {NoFrame} THEN picOf
                  ELSE [picOf EXCEPT ![f] = chunks[n].stamp]
  BY DEF DecodeFrame, DecodeWith
<1>2. \/ /\ last' = [Nothing EXCEPT !.img = IF keep THEN Hidden ELSE NoFrame]
         /\ timeStamp' = stampOf
      \/ /\ g # NoFrame
         /\ last' = [Nothing EXCEPT !.img = g, !.stamp = stampOf[g]]
         /\ timeStamp' = [stampOf EXCEPT ![g] = Shown]
  BY DEF DecodeFrame
<1>3. stamp \in Stamps \cup {NoStamp} /\ (size > 0 => stamp \in Stamps)
  BY <1>1, CallStamp
<1>4. chunks \in Seq(Chunks)
  BY <1>1, <1>3, Feeding
<1>5. given \in Stamps \cup {NoStamp} /\ savedTimeStamp' \in Stamps \cup {NoStamp}
  BY <1>1, <1>3 DEF RingInv, StampTypes
<1> HIDE DEF chunks, own, given
<1>6. stampOf \in [Frames -> Stamps \cup {NoStamp, Shown}]
  BY <1>5 DEF RingInv, StampTypes, PutDispInfo
<1> HIDE DEF stampOf
<1>7. timeStamp' \in [Frames -> Stamps \cup {NoStamp, Shown}]
  BY <1>2, <1>6
<1>8. picOf' \in [Frames -> Stamps \cup {0}]
  <2>1. CASE f \in waiting \cup {NoFrame}
    BY <1>1, <2>1 DEF RingInv, StampTypes
  <2>2. CASE f \notin waiting \cup {NoFrame}
    <3>1. chunks[n] \in Chunks
      BY <1>1, <1>4, <2>2 DEF chunks
    <3>2. chunks[n].stamp \in Stamps
      BY <3>1 DEF Chunks
    <3> QED
      BY <1>1, <2>2, <3>2 DEF RingInv, StampTypes
  <2> QED
    BY <2>1, <2>2
<1>9. g = NoFrame \/ g \in Frames
  BY <1>1 DEF FrameInv, FrameTypes
<1>10. last' \in Results
  <2>1. CASE last' = [Nothing EXCEPT !.img = IF keep THEN Hidden ELSE NoFrame]
    BY <2>1 DEF Nothing, Results, VID_ERR_NONE
  <2>2. CASE g # NoFrame /\ last' = [Nothing EXCEPT !.img = g, !.stamp = stampOf[g]]
    <3>1. stampOf[g] \in Stamps \cup {NoStamp, Shown} /\ g \in Frames
      BY <1>6, <1>9, <2>2
    <3> QED
      BY <2>2, <3>1, FrameReported
  <2> QED
    BY <1>2, <2>1, <2>2
<1>11. vc1BframeDisplayValid' \in BOOLEAN
  BY <1>1
<1> QED
  BY <1>1, <1>5, <1>7, <1>8, <1>10, <1>11 DEF StampTypes

\* A PIC_RUN that does not complete keeps what it was fed.
LEMMA RingKept ==
  ASSUME FrameInv, RingInv, NEW size \in ChunkSizes \cup {0}, NEW stamp \in CallStamps(size),
         DecodeNeedsStream(size, stamp) \/ DecodeFails(size, stamp)
  PROVE  RingInv'
<1> DEFINE w == FillBuffer(writePos, size)
<1>1. /\ size > 0 => Fits(size)
      /\ writePos' = w /\ unread' = Fed(size, stamp) /\ primed' = NoStamp
      /\ UNCHANGED <<readPos, prevStrmReadPos, savedTimeStamp, timeStamp, picOf,
                     vc1BframeDisplayValid>>
      /\ \/ last' = [Nothing EXCEPT !.outcome = "NEED_STREAM", !.ret = DecArgRet]
         \/ last' = [Nothing EXCEPT !.outcome = "ERROR", !.ret = DecArgRet]
  BY DEF DecodeNeedsStream, DecodeFails, DecodeWith, stampVars, frameVars
<1>2. /\ Fed(size, stamp) \in Seq(Chunks) /\ Bytes(Fed(size, stamp)) < StrmBufSize
      /\ w = After(readPos, Bytes(Fed(size, stamp))) /\ w \in Offsets
  BY <1>1, CallStamp, Feeding
<1>3. \/ reg' = ForeignRegs /\ pending' = "no"
      \/ Commanded /\ Fed(size, stamp) # <<>> /\ reg' = PicRunRegs(w) /\ pending' = "pic"
  BY <1>1 DEF DecodeNeedsStream, DecodeFails, MayStall
<1>4. Commanded => PicRunRegs(w).wr = w /\ PicRunRegs(w).rd = readPos
  BY <1>2, StartedRegs
<1>5. ForeignRegs.wr \in Offsets /\ ForeignRegs.rd \in Offsets
  BY StreamAssumption DEF ForeignRegs, Offsets
<1> HIDE DEF w
<1>6. readPos \in Offsets /\ prevStrmReadPos \in Offsets
  BY DEF RingInv, Positions
<1>7. Positions'
  BY <1>1, <1>2, <1>3, <1>4, <1>5, <1>6 DEF Positions, Offsets
<1>8. RingAgrees'
  BY <1>1, <1>2 DEF RingAgrees
<1>9. StampTypes'
  <2>1. last' \in Results
    BY <1>1, OutcomeReported
  <2> QED
    BY <1>1, <2>1 DEF RingInv, StampTypes
<1> QED
  BY <1>7, <1>8, <1>9 DEF RingInv

\* Parsing leaves the chunk in the ring, whether it succeeds or not.
LEMMA RingParsed ==
  ASSUME FrameInv, RingInv, NEW size \in ChunkSizes, NEW stamp \in NewStamps,
         \/ ParseVideoCfg(size, stamp)
         \/ ParseNeedsStream(size, stamp)
         \/ ParseFails(size, stamp)
  PROVE  RingInv'
<1> DEFINE w == FillBuffer(writePos, size)
           started == SeqInitRegs(w)
<1>1. /\ Fits(size) /\ unread' = Fed(size, stamp) /\ last' = Nothing
      /\ writePos' = started.wr
      /\ readPos' = readPos \/ (Commanded /\ readPos' = started.rd)
      /\ UNCHANGED <<prevStrmReadPos, savedTimeStamp, timeStamp, picOf, vc1BframeDisplayValid>>
      /\ primed' = primed \/ primed' = unread'[Len(unread')].stamp
  <2>1. CASE ParseVideoCfg(size, stamp)
    BY <2>1 DEF ParseVideoCfg, ParseWith, stampVars, frameVars
  <2>2. CASE ParseNeedsStream(size, stamp)
    <3>1. writePos' = started.wr /\ readPos' = readPos /\ primed' = primed
      BY <2>2 DEF ParseNeedsStream
    <3>2. ParseWith(size, stamp)
      BY <2>2 DEF ParseNeedsStream
    <3> HIDE DEF started
    <3> QED
      BY <3>1, <3>2 DEF ParseWith, stampVars, frameVars
  <2>3. CASE ParseFails(size, stamp)
    <3>1. /\ writePos' = started.wr /\ primed' = primed
          /\ readPos' = readPos \/ (Commanded /\ readPos' = started.rd)
      BY <2>3 DEF ParseFails
    <3>2. ParseWith(size, stamp)
      BY <2>3 DEF ParseFails
    <3> HIDE DEF started
    <3> QED
      BY <3>1, <3>2 DEF ParseWith, stampVars, frameVars
  <2> QED
    BY <2>1, <2>2, <2>3
<1>2. /\ Fed(size, stamp) \in Seq(Chunks) /\ Bytes(Fed(size, stamp)) < StrmBufSize
      /\ w = After(readPos, Bytes(Fed(size, stamp))) /\ w \in Offsets
      /\ Fed(size, stamp) # <<>>
  <2>1. stamp \in Stamps /\ size > 0
    BY StreamAssumption DEF NewStamps
  <2> QED
    BY <1>1, <2>1, Feeding
<1>3. started.wr = w /\ (Commanded => started.rd = readPos)
  <2>1. started.wr = w
    BY DEF SeqInitRegs, FrameInv, FrameTypes
  <2> QED
    BY <1>2, <2>1, StartedRegs
<1>4. \/ reg' = ForeignRegs /\ pending' = "no"
      \/ Commanded /\ reg' = started /\ pending' = "seq"
  <2>1. CASE ParseVideoCfg(size, stamp)
    BY <2>1 DEF ParseVideoCfg
  <2>2. CASE ParseNeedsStream(size, stamp)
    BY <2>2 DEF ParseNeedsStream
  <2>3. CASE ParseFails(size, stamp)
    BY <2>3 DEF ParseFails
  <2> QED
    BY <2>1, <2>2, <2>3
<1>5. ForeignRegs.wr \in Offsets /\ ForeignRegs.rd \in Offsets
  BY StreamAssumption DEF ForeignRegs, Offsets
<1> HIDE DEF w, started
<1>6. readPos \in Offsets /\ prevStrmReadPos \in Offsets
  BY DEF RingInv, Positions
<1>7. readPos' = readPos /\ writePos' = w
  BY <1>1, <1>3
<1>8. Positions'
  BY <1>1, <1>2, <1>3, <1>4, <1>5, <1>6, <1>7 DEF Positions, Offsets
<1>9. RingAgrees'
  BY <1>1, <1>2, <1>7 DEF RingAgrees
<1>10. primed' \in Stamps \cup {NoStamp}
  <2>1. unread'[Len(unread')] \in Chunks
    BY <1>1, <1>2
  <2> QED
    BY <1>1, <2>1 DEF RingInv, StampTypes, Chunks
<1>11. StampTypes'
  BY <1>1, <1>10 DEF RingInv, StampTypes, Results, Nothing, VID_ERR_NONE
<1> QED
  BY <1>8, <1>9, <1>11 DEF RingInv

\* Registering the frame buffers, returning a frame and a flush, done or not.
LEMMA RingEmptied ==
  ASSUME FrameInv, RingInv,
         RegFrameBuf \/ (\E f \in Frames : ClrDspFlag(f)) \/ Flush \/ FlushFails \/ CloseAndOpen
  PROVE  RingInv'
<1>1. 0 \in Offsets /\ StrmBufSize \in Nat \ {0} /\ <<>> \in Seq(Chunks)
  BY StreamAssumption DEF Offsets
<1>2. ASSUME NEW pos \in Offsets PROVE After(pos, Bytes(<<>>)) = pos /\ Bytes(<<>>) < StrmBufSize
  <2>1. Bytes(<<>>) = 0
    BY <1>1, BytesNat
  <2>2. After(pos, 0) = pos
    <3>1. 0 \in 0 .. StrmBufSize
      BY <1>1
    <3> QED
      BY <1>1, <3>1, Moves DEF Offsets
  <2> QED
    BY <1>1, <2>1, <2>2
<1>3. Nothing \in Results
  BY DEF Nothing, Results, VID_ERR_NONE
<1> USE DEF RingInv
<1>4. CASE RegFrameBuf \/ \E f \in Frames : ClrDspFlag(f)
  <2>1. /\ UNCHANGED <<posVars, stampVars, blockVars, primed, vc1BframeDisplayValid>>
        /\ last' = Nothing
        /\ picOf' = picOf \/ \E f \in Frames : picOf' = [picOf EXCEPT ![f] = 0]
    BY <1>4 DEF RegFrameBuf, ClrDspFlag, frameVars
  <2>2. picOf' \in [Frames -> Stamps \cup {0}]
    BY <2>1 DEF StampTypes
  <2> QED
    BY <1>3, <2>1, <2>2 DEF posVars, stampVars, blockVars, Positions, RingAgrees, StampTypes
<1>5. CASE Flush
  <2>1. /\ readPos' = 0 /\ writePos' = 0 /\ unread' = <<>> /\ pending' = "no"
        /\ savedTimeStamp' = NoStamp /\ timeStamp' = [f \in Frames |-> Shown]
        /\ primed' = NoStamp /\ picOf' = [f \in Frames |-> 0] /\ last' = Nothing
        /\ UNCHANGED <<prevStrmReadPos, vc1BframeDisplayValid>> /\ reg' = ForeignRegs
    BY <1>5 DEF Flush
  <2>2. Positions'
    BY <1>1, <2>1 DEF Positions, Offsets, ForeignRegs
  <2>3. RingAgrees'
    BY <1>1, <1>2, <2>1 DEF RingAgrees
  <2>4. StampTypes'
    BY <1>3, <2>1 DEF StampTypes
  <2> QED
    BY <2>2, <2>3, <2>4
<1>6. CASE FlushFails
  <2>1. /\ writePos' = readPos /\ unread' = <<>> /\ last' = Nothing
        /\ reg' = ForeignRegs /\ pending' = "no"
        /\ UNCHANGED <<readPos, stampVars, primed, vc1BframeDisplayValid, frameVars>>
    BY <1>6 DEF FlushFails
  <2>2. Positions'
    BY <1>1, <2>1 DEF Positions, Offsets, stampVars, ForeignRegs
  <2>3. RingAgrees'
    BY <1>1, <1>2, <2>1 DEF RingAgrees, Positions
  <2>4. StampTypes'
    BY <1>3, <2>1 DEF StampTypes, stampVars, frameVars
  <2> QED
    BY <2>2, <2>3, <2>4
<1>7. CASE CloseAndOpen
  <2>1. /\ readPos' = 0 /\ writePos' = 0 /\ unread' = <<>> /\ pending' = "no"
        /\ savedTimeStamp' = NoStamp /\ timeStamp' = [f \in Frames |-> Shown]
        /\ primed' = NoStamp /\ picOf' = [f \in Frames |-> 0] /\ last' = Nothing
        /\ prevStrmReadPos' = 0 /\ vc1BframeDisplayValid' \in BOOLEAN /\ reg' = ForeignRegs
    BY <1>7 DEF CloseAndOpen
  <2>2. Positions'
    BY <1>1, <2>1 DEF Positions, Offsets, ForeignRegs
  <2>3. RingAgrees'
    BY <1>1, <1>2, <2>1 DEF RingAgrees
  <2>4. StampTypes'
    BY <1>3, <2>1 DEF StampTypes
  <2> QED
    BY <2>2, <2>3, <2>4
<1> QED
  BY <1>4, <1>5, <1>6, <1>7

\* Every step keeps the ring.
LEMMA RingStep == FrameInv /\ RingInv /\ [Next]_vars => RingInv'
<1> SUFFICES ASSUME FrameInv, RingInv, [Next]_vars PROVE RingInv'
  OBVIOUS
<1>1. CASE UNCHANGED vars
  BY <1>1 DEF vars, posVars, stampVars, blockVars, frameVars, RingInv, Positions, RingAgrees,
              StampTypes
<1>2. ASSUME NEW size \in ChunkSizes, NEW stamp \in NewStamps,
             \/ ParseVideoCfg(size, stamp)
             \/ ParseNeedsStream(size, stamp)
             \/ ParseFails(size, stamp)
      PROVE  RingInv'
  BY <1>2, RingParsed
<1>3. ASSUME NEW size \in ChunkSizes \cup {0}, NEW stamp \in CallStamps(size),
             NEW n \in 0 .. Len(Fed(size, stamp)),
             NEW f \in Frames \cup {NoFrame}, NEW g \in waiting \cup {f, NoFrame},
             NEW isB, NEW isInterlaced, DecodeFrame(size, stamp, n, f, g, isB, isInterlaced)
      PROVE  RingInv'
  <2>1. Positions' /\ RingAgrees'
    BY <1>3, RingRead
  <2>2. StampTypes'
    BY <1>3, StampsDecoded
  <2> QED
    BY <2>1, <2>2 DEF RingInv
<1>4. ASSUME NEW size \in ChunkSizes \cup {0}, NEW stamp \in CallStamps(size),
             DecodeNeedsStream(size, stamp) \/ DecodeFails(size, stamp)
      PROVE  RingInv'
  BY <1>4, RingKept
<1>5. CASE Decode
  <2>1. PICK size \in ChunkSizes \cup {0} : \E stamp \in CallStamps(size) :
          \/ \E n \in 0 .. Len(Fed(size, stamp)), f \in Frames \cup {NoFrame} :
               \E g \in waiting \cup {f, NoFrame}, isB \in {FALSE, ~vc1BframeDisplayValid},
                  isInterlaced \in {FALSE, f # NoFrame} :
                 DecodeFrame(size, stamp, n, f, g, isB, isInterlaced)
          \/ DecodeNeedsStream(size, stamp)
          \/ DecodeFails(size, stamp)
    BY <1>5 DEF Decode
  <2>2. PICK stamp \in CallStamps(size) :
          \/ \E n \in 0 .. Len(Fed(size, stamp)), f \in Frames \cup {NoFrame} :
               \E g \in waiting \cup {f, NoFrame}, isB \in {FALSE, ~vc1BframeDisplayValid},
                  isInterlaced \in {FALSE, f # NoFrame} :
                 DecodeFrame(size, stamp, n, f, g, isB, isInterlaced)
          \/ DecodeNeedsStream(size, stamp)
          \/ DecodeFails(size, stamp)
    BY <2>1
  <2> QED
    BY <1>3, <1>4, <2>2
<1> QED
  BY <1>1, <1>2, <1>5, RingEmptied DEF Next

-----------------------------------------------------------------------------
(* The stamps. *)

\* A chunk the block has not begun is not taken for the picture's, wherever the
\* ring wraps and whatever read position the library remembers.
LEMMA NotBegun ==
  ASSUME RingInv, NEW size \in 1 .. StrmBufSize - 1, NEW r \in Offsets, NEW w \in Offsets,
         After(r, size) = w
  PROVE  ~OwnStamp(size, r, w)
<1>1. size \in 0 .. StrmBufSize /\ StrmBufSize \in Nat \ {0}
  BY StreamAssumption
<1>2. w = IF r + size < StrmBufSize THEN r + size ELSE r + size - StrmBufSize
  BY <1>1, Moves
<1>3. prevStrmReadPos \in Offsets
  BY DEF RingInv, Positions
<1> QED
  BY <1>1, <1>2, <1>3 DEF OwnStamp, Unwrapped, Offsets

\* One the block has read is, unless it wrapped to a place at or behind the read
\* position the library remembers.
LEMMA ReadToItsEnd ==
  ASSUME RingInv, NEW size \in 1 .. StrmBufSize - 1, NEW w \in Offsets,
         w >= size \/ w < prevStrmReadPos
  PROVE  OwnStamp(size, w, w)
<1>1. prevStrmReadPos \in Offsets /\ StrmBufSize \in Nat \ {0}
  BY StreamAssumption DEF RingInv, Positions
<1> QED
  BY <1>1 DEF OwnStamp, Unwrapped, Offsets

\* Until a call fails: at most one chunk is left over, the saved stamp is its own
\* or none, and the read position the library remembers is that of the ring
\* unless it cannot do harm.  The stamp the client may hand to a call without
\* stream is that of the one chunk in a ring filled from its start.  A frame the
\* block may take for a new picture has no stamp, so that it finds none set.
StampInv ==
  ~failed =>
    /\ flushed => readPos = 0 /\ savedTimeStamp = NoStamp /\ (pending = "no" => unread = <<>>)
    /\ pending = "seq" => flushed /\ Len(unread) = 1
    /\ pending = "no" => Len(unread) <= 1
    /\ pending = "no" /\ unread # <<>> => savedTimeStamp \in {NoStamp, unread[1].stamp}
    /\ primed # NoStamp =>
         /\ pending = "no" /\ unread # <<>> /\ unread[1].stamp = primed
         /\ savedTimeStamp = NoStamp /\ readPos = 0
    /\ prevStrmReadPos = readPos \/ savedTimeStamp = NoStamp \/ readPos = 0
    /\ \A f \in waiting : timeStamp[f] \in {picOf[f], NoStamp}
    /\ \A f \in Frames \ (waiting \cup hidden) : timeStamp[f] = Shown
    /\ flushed => waiting = {}

\* The last chunk of what a call with stream feeds carries the stamp of the call.
LEMMA FedLast ==
  ASSUME FrameInv, RingInv, NEW size \in ChunkSizes, Fits(size),
         NEW stamp \in CallStamps(size), pending # "seq"
  PROVE  LET chunks == Fed(size, stamp)
         IN  /\ chunks \in Seq(Chunks) /\ chunks # <<>>
             /\ chunks[Len(chunks)].stamp = stamp
             /\ pending = "no" => /\ Len(chunks) = Len(unread) + 1
                                  /\ chunks[Len(chunks)].size = size
                                  /\ \A i \in 1 .. Len(unread) : chunks[i] = unread[i]
<1>1. size \in 1 .. StrmBufSize - 1 /\ size \in Nat /\ size # 0
  BY StreamAssumption
<1>2. stamp \in Stamps
  BY <1>1, CallStamp
<1>3. Fed(size, stamp) \in Seq(Chunks) /\ Fed(size, stamp) # <<>>
  BY <1>1, <1>2, Feeding
<1>4. unread \in Seq(Chunks) /\ pending \in {"no", "pic"}
  BY DEF RingInv, Positions, FrameInv, PendingInv
<1>5. CASE pending = "no"
  <2>1. Fed(size, stamp) = Append(unread, [stamp |-> stamp, size |-> size])
    BY <1>1, <1>5 DEF Fed
  <2> QED
    BY <1>3, <1>4, <1>5, <2>1
<1>6. CASE pending = "pic"
  <2>1. unread # <<>> /\ stamp = unread[Len(unread)].stamp
    BY <1>6 DEF RingInv, Positions, CallStamps
  <2>2. Fed(size, stamp) = [unread EXCEPT ![Len(unread)].size = @ + size]
    BY <1>6 DEF Fed
  <2>3. Bytes(unread) + size < StrmBufSize
    BY DEF Fits
  <2>4. /\ Len(Fed(size, stamp)) = Len(unread)
        /\ \A i \in 1 .. Len(unread) : Fed(size, stamp)[i].stamp = unread[i].stamp
    BY <1>1, <1>4, <2>1, <2>2, <2>3, BytesEnlarged
  <2>5. Len(unread) \in 1 .. Len(unread)
    BY <1>4, <2>1
  <2> QED
    BY <1>3, <1>6, <2>1, <2>4, <2>5
<1> QED
  BY <1>4, <1>5, <1>6

\* A block that leaves at most one chunk unread gives the picture its own stamp or none.
LEMMA StampOfPicture ==
  ASSUME FrameInv, RingInv, StampInv, ~failed, MaxLag <= 1,
         NEW size \in ChunkSizes \cup {0}, NEW stamp \in CallStamps(size),
         NEW n \in 0 .. Len(Fed(size, stamp)), NEW f, NEW g, NEW isB, NEW isInterlaced,
         DecodeFrame(size, stamp, n, f, g, isB, isInterlaced)
  PROVE  /\ n > 0 => (IF OwnStamp(size, readPos', writePos') THEN stamp ELSE savedTimeStamp)
                       \in {Fed(size, stamp)[n].stamp, NoStamp}
         /\ Len(unread') <= 1
         /\ unread' # <<>> => savedTimeStamp' \in {NoStamp, unread'[1].stamp}
         /\ prevStrmReadPos' = readPos' \/ savedTimeStamp' = NoStamp \/ readPos' = 0
<1> DEFINE chunks == Fed(size, stamp)
           read == SubSeq(chunks, 1, n)
           rest == SubSeq(chunks, n + 1, Len(chunks))
           own == OwnStamp(size, readPos', writePos')
<1>1. /\ stage = "ready"
      /\ size > 0 => Fits(size)
      /\ pending = "pic" => size > 0
      /\ IF pending = "pic" THEN n = Len(chunks) ELSE Len(chunks) - n <= MaxLag
      /\ unread' = rest
      /\ prevStrmReadPos' = IF size > 0 THEN readPos' ELSE prevStrmReadPos
  BY DEF DecodeFrame, DecodeWith
<1>2. /\ writePos' = After(readPos, Bytes(chunks)) /\ readPos' = After(readPos, Bytes(read))
      /\ writePos' \in Offsets /\ readPos' \in Offsets
      /\ After(readPos', Bytes(rest)) = writePos'
  BY <1>1, RingRead DEF Positions, RingAgrees
<1>3. savedTimeStamp' = IF own THEN savedTimeStamp ELSE stamp
  <2>1. savedTimeStamp' = IF OwnStamp(size, After(PicRunRegs(FillBuffer(writePos, size)).rd,
                                                  Bytes(read)), writePos')
                          THEN savedTimeStamp ELSE stamp
    BY DEF DecodeFrame
  <2>2. readPos' = After(PicRunRegs(FillBuffer(writePos, size)).rd, Bytes(read))
    BY DEF DecodeFrame
  <2> QED
    BY <2>1, <2>2
<1>4. /\ chunks \in Seq(Chunks) /\ Bytes(chunks) \in Nat /\ Bytes(chunks) < StrmBufSize
      /\ size > 0 => stamp \in Stamps
  <2>1. size > 0 => stamp \in Stamps
    BY <1>1, CallStamp
  <2>2. chunks \in Seq(Chunks) /\ Bytes(chunks) < StrmBufSize
    BY <1>1, <2>1, Feeding
  <2> HIDE DEF chunks
  <2> QED
    BY <2>1, <2>2, BytesNat
<1>5. pending \in {"no", "pic"}
  BY <1>1 DEF FrameInv, PendingInv
<1>6. /\ rest \in Seq(Chunks) /\ Len(rest) = Len(chunks) - n
      /\ \A i \in 1 .. Len(rest) : rest[i] = chunks[n + i]
  <2> HIDE DEF chunks
  <2> QED
    BY <1>4, BytesSplit DEF chunks
<1>7. readPos \in Offsets /\ prevStrmReadPos \in Offsets /\ StrmBufSize \in Nat \ {0}
      /\ Len(chunks) \in Nat /\ n \in 0 .. Len(chunks) /\ MaxLag \in Nat
  BY <1>4, StreamAssumption DEF RingInv, Positions
<1>8. n = Len(chunks) => rest = <<>> /\ readPos' = writePos'
  <2>1. ASSUME n = Len(chunks) PROVE rest = <<>>
    BY <1>6, <1>7, <2>1
  <2>2. Bytes(<<>>) = 0
    <3>1. <<>> \in Seq(Chunks)
      OBVIOUS
    <3> QED
      BY <3>1, BytesNat
  <2>3. After(readPos', 0) = readPos'
    <3>1. 0 \in 0 .. StrmBufSize
      BY <1>7
    <3> QED
      BY <1>2, <1>7, <3>1, Moves DEF Offsets
  <2> QED
    BY <1>2, <2>1, <2>2, <2>3
<1> HIDE DEF read, rest
<1>9. CASE size = 0
  <2>1. pending = "no" /\ chunks = unread
    BY <1>1, <1>5, <1>9 DEF Fed
  <2>2. /\ Len(unread) <= 1 /\ unread \in Seq(Chunks)
        /\ unread # <<>> => savedTimeStamp \in {NoStamp, unread[1].stamp}
        /\ primed # NoStamp => /\ unread # <<>> /\ unread[1].stamp = primed
                               /\ savedTimeStamp = NoStamp /\ readPos = 0
        /\ stamp \in {NoStamp, primed}
    BY <1>1, <1>9, <2>1 DEF StampInv, RingInv, Positions, CallStamps
  <2>3. own <=> savedTimeStamp = NoStamp /\ writePos' = readPos'
    BY <1>9 DEF OwnStamp
  <2> HIDE DEF own, chunks
  <2>4. CASE n = Len(chunks)
    <3>1. savedTimeStamp' = NoStamp
      BY <1>3, <1>8, <2>2, <2>3, <2>4
    <3>2. n > 0 => n = 1 /\ chunks[n] = unread[1] /\ unread # <<>>
      BY <1>7, <2>1, <2>2, <2>4
    <3>3. n > 0 => (IF own THEN stamp ELSE savedTimeStamp) \in {chunks[n].stamp, NoStamp}
      BY <2>2, <3>2
    <3> QED
      BY <1>1, <1>8, <2>4, <3>1, <3>3 DEF own, chunks
  <2>5. CASE n # Len(chunks)
    <3>1. n = 0 /\ Len(unread) = 1 /\ unread # <<>>
      <4>1. Len(chunks) = Len(unread) /\ Len(unread) \in Nat
        BY <2>1, <2>2
      <4>2. n = 0 /\ Len(unread) = 1
        BY <1>7, <2>2, <2>5, <4>1
      <4>3. ASSUME unread = <<>> PROVE Len(unread) = 0
        BY <4>3
      <4>4. unread # <<>>
        BY <4>2, <4>3
      <4> QED
        BY <4>2, <4>4
    <3>2. read = <<>> /\ rest = unread
      BY <2>1, <2>2, <3>1 DEF read, rest
    <3>3. Bytes(<<>>) = 0 /\ Bytes(unread) > 0
      <4>1. <<>> \in Seq(Chunks)
        OBVIOUS
      <4> QED
        BY <2>2, <3>1, <4>1, BytesNat
    <3>4. readPos' = readPos /\ writePos' # readPos'
      <4>1. 0 \in 0 .. StrmBufSize /\ Bytes(chunks) \in 0 .. StrmBufSize
        BY <1>4, <1>7
      <4>2. readPos' = After(readPos, 0) /\ writePos' = After(readPos, Bytes(chunks))
        BY <1>2, <3>2, <3>3
      <4>3. After(readPos, 0) = readPos
        BY <1>7, <4>1, Moves DEF Offsets
      <4>4. After(readPos, Bytes(chunks)) = IF readPos + Bytes(chunks) < StrmBufSize
                                            THEN readPos + Bytes(chunks)
                                            ELSE readPos + Bytes(chunks) - StrmBufSize
        BY <1>7, <4>1, Moves
      <4>5. Bytes(chunks) > 0
        BY <2>1, <3>3
      <4> QED
        BY <1>4, <1>7, <4>2, <4>3, <4>4, <4>5 DEF Offsets
    <3>5. savedTimeStamp' = stamp
      BY <1>3, <2>3, <3>4
    <3>6. unread' = unread
      BY <1>1, <3>2
    <3>7. savedTimeStamp' \in {NoStamp, unread'[1].stamp}
      BY <2>2, <3>5, <3>6
    <3>8. savedTimeStamp' = NoStamp \/ readPos' = 0
      BY <2>2, <3>4, <3>5
    <3>9. ~(n > 0) /\ Len(unread') <= 1
      <4>1. ~(n > 0)
        BY <3>1
      <4>2. Len(unread') = 1
        BY <3>1, <3>6
      <4> QED
        BY <4>1, <4>2
    <3>10. prevStrmReadPos' = readPos' \/ savedTimeStamp' = NoStamp \/ readPos' = 0
      BY <3>8
    <3> QED
      BY <3>7, <3>9, <3>10
  <2> QED
    BY <2>4, <2>5
<1>10. CASE size # 0
  <2>1. size \in 1 .. StrmBufSize - 1 /\ size > 0 /\ size \in ChunkSizes
    BY <1>10, StreamAssumption
  <2>2. /\ chunks # <<>> /\ chunks[Len(chunks)].stamp = stamp
        /\ pending = "no" => /\ Len(chunks) = Len(unread) + 1
                             /\ chunks[Len(chunks)].size = size
                             /\ \A i \in 1 .. Len(unread) : chunks[i] = unread[i]
    BY <1>1, <1>5, <2>1, FedLast
  <2>3. prevStrmReadPos' = readPos'
    BY <1>1, <2>1
  <2>4. CASE n = Len(chunks)
    <3>1. own \/ savedTimeStamp = NoStamp
      <4>1. SUFFICES ASSUME savedTimeStamp # NoStamp PROVE own
        OBVIOUS
      <4>2. prevStrmReadPos = readPos \/ readPos = 0
        BY <4>1 DEF StampInv
      <4>3. size <= Bytes(chunks)
        <5>1. Bytes(chunks) = Bytes(unread) + size
          BY <1>1, <1>4, <2>1, Feeding
        <5>2. Bytes(unread) \in Nat
          BY BytesNat DEF RingInv, Positions
        <5> QED
          BY <2>1, <5>1, <5>2
      <4> HIDE DEF chunks
      <4>4. writePos' = IF readPos + Bytes(chunks) < StrmBufSize THEN readPos + Bytes(chunks)
                        ELSE readPos + Bytes(chunks) - StrmBufSize
        <5>1. Bytes(chunks) \in 0 .. StrmBufSize
          BY <1>4, <1>7
        <5> QED
          BY <1>2, <1>7, <5>1, Moves
      <4>5. writePos' >= size \/ writePos' < prevStrmReadPos
        BY <1>4, <1>7, <2>1, <4>2, <4>3, <4>4 DEF Offsets
      <4>6. OwnStamp(size, writePos', writePos')
        BY <1>2, <2>1, <4>5, ReadToItsEnd
      <4> QED
        BY <1>8, <2>4, <4>6
    <3>2. n > 0 => (IF own THEN stamp ELSE savedTimeStamp) \in {chunks[n].stamp, NoStamp}
      <4> HIDE DEF own, chunks
      <4> QED
        BY <2>2, <2>4, <3>1
    <3> QED
      BY <1>1, <1>8, <2>3, <2>4, <3>2
  <2>5. CASE n # Len(chunks)
    <3>1. pending = "no" /\ n = Len(chunks) - 1 /\ n = Len(unread) /\ Len(unread) <= 1
      <4>1. pending = "no" /\ Len(unread) <= 1
        BY <1>1, <1>5, <2>5 DEF StampInv
      <4> HIDE DEF chunks
      <4> QED
        BY <1>1, <1>7, <2>2, <2>5, <4>1
    <3> HIDE DEF chunks
    <3>2. Len(rest) = 1 /\ rest[1] = chunks[Len(chunks)]
      BY <1>6, <1>7, <3>1
    <3>3. Bytes(rest) = size
      <4>1. 1 \in 1 .. Len(rest) /\ 1 - 1 = 0
        BY <3>2
      <4>2. Sums(rest)[1] = Sums(rest)[0] + rest[1].size /\ Sums(rest)[0] = 0
        BY <1>6, <4>1, SumsFromTheLeft
      <4> QED
        BY <2>1, <2>2, <3>1, <3>2, <4>2 DEF Bytes
    <3>4. ~own
      BY <1>2, <2>1, <3>3, NotBegun
    <3>5. savedTimeStamp' = stamp
      BY <1>3, <3>4
    <3>6. n > 0 => n = 1 /\ chunks[n] = unread[1] /\ unread # <<>>
      BY <1>7, <2>2, <3>1
    <3>7. n > 0 => savedTimeStamp \in {chunks[n].stamp, NoStamp}
      BY <3>1, <3>6 DEF StampInv
    <3> QED
      BY <1>1, <2>2, <2>3, <3>2, <3>4, <3>5, <3>7 DEF chunks
  <2> QED
    BY <2>4, <2>5
<1> QED
  BY <1>9, <1>10

\* No stamp is known when a decoder is opened.
LEMMA StampInit == Init => StampInv
<1> SUFFICES ASSUME Init PROVE StampInv
  OBVIOUS
<1>1. /\ readPos = 0 /\ savedTimeStamp = NoStamp /\ unread = <<>> /\ pending = "no"
      /\ primed = NoStamp /\ waiting = {} /\ timeStamp = [f \in Frames |-> Shown]
  BY DEF Init
<1>2. Len(unread) = 0
  BY <1>1
<1> QED
  BY <1>1, <1>2 DEF StampInv

\* A completed PIC_RUN.
LEMMA StampDecoded ==
  ASSUME FrameInv, RingInv, StampInv, MaxLag <= 1,
         NEW size \in ChunkSizes \cup {0}, NEW stamp \in CallStamps(size),
         NEW n \in 0 .. Len(Fed(size, stamp)),
         NEW f \in Frames \cup {NoFrame}, NEW g \in waiting \cup {f, NoFrame},
         NEW isB, NEW isInterlaced, DecodeFrame(size, stamp, n, f, g, isB, isInterlaced)
  PROVE  StampInv' /\ \A x \in held' \ held : ~failed => last'.stamp \in {picOf'[x], NoStamp}
<1> SUFFICES ASSUME ~failed
             PROVE  StampInv' /\ \A x \in held' \ held : last'.stamp \in {picOf'[x], NoStamp}
  <2>1. failed' = failed
    BY DEF DecodeFrame
  <2> QED
    BY <2>1 DEF StampInv
<1> DEFINE chunks == Fed(size, stamp)
           given == IF OwnStamp(size, readPos', writePos') THEN stamp ELSE savedTimeStamp
           stampOf == PutDispInfo(f, isInterlaced, given)
           keep == ~vc1BframeDisplayValid /\ isB
<1>1. /\ n > 0 => given \in {chunks[n].stamp, NoStamp}
      /\ Len(unread') <= 1
      /\ unread' # <<>> => savedTimeStamp' \in {NoStamp, unread'[1].stamp}
      /\ prevStrmReadPos' = readPos' \/ savedTimeStamp' = NoStamp \/ readPos' = 0
  BY StampOfPicture
<1>2. /\ pending' = "no" /\ primed' = NoStamp /\ flushed' = FALSE
      /\ f = NoFrame \/ (n > 0 /\ f \in Frames /\ (f \in waiting => isInterlaced))
      /\ waiting' = (waiting \cup {f}) \ {g, NoFrame}
      /\ picOf' = IF f \in waiting \cup {NoFrame} THEN picOf
                  ELSE [picOf EXCEPT ![f] = chunks[n].stamp]
  BY DEF DecodeFrame, DecodeWith
<1>3. \/ /\ timeStamp' = stampOf /\ held' = held
         /\ hidden' = (hidden \cup {g}) \ {NoFrame}
      \/ /\ g # NoFrame
         /\ last' = [Nothing EXCEPT !.img = g, !.stamp = stampOf[g]]
         /\ timeStamp' = [stampOf EXCEPT ![g] = Shown]
         /\ held' = held \cup {g} /\ hidden' = hidden
  BY DEF DecodeFrame
<1> HIDE DEF chunks, given
<1>4. /\ waiting \subseteq Frames /\ \A x \in waiting : timeStamp[x] \in {picOf[x], NoStamp}
      /\ \A x \in Frames \ (waiting \cup hidden) : timeStamp[x] = Shown
      /\ DOMAIN timeStamp = Frames /\ DOMAIN picOf = Frames
      /\ NoFrame \notin Frames
  BY StreamAssumption DEF FrameInv, FrameTypes, StampInv, RingInv, StampTypes, NoFrame
<1>5. /\ DOMAIN stampOf = Frames
      /\ \A x \in Frames \ {f} : stampOf[x] = timeStamp[x]
      /\ f # NoFrame => stampOf[f] \in {picOf'[f], NoStamp}
  <2>1. DOMAIN stampOf = Frames /\ \A x \in Frames \ {f} : stampOf[x] = timeStamp[x]
    BY <1>4 DEF PutDispInfo
  <2>2. CASE f \in waiting
    <3>1. picOf[f] \in Nat
      <4>1. f \in Frames /\ picOf \in [Frames -> Stamps \cup {0}]
        BY <1>4, <2>2 DEF RingInv, StampTypes
      <4>2. Stamps \cup {0} \subseteq Nat
        BY StreamAssumption
      <4> QED
        BY <4>1, <4>2
    <3>2. timeStamp[f] # Shown
      BY <1>4, <2>2, <3>1 DEF Shown, NoStamp
    <3>3. stampOf = timeStamp /\ picOf' = picOf
      BY <1>2, <1>4, <2>2, <3>2 DEF PutDispInfo
    <3> HIDE DEF stampOf
    <3> QED
      BY <1>4, <2>1, <2>2, <3>3
  <2>3. CASE f \notin waiting \cup {NoFrame}
    <3>1. f \in Frames /\ f \notin hidden
      BY <1>2, <2>3, DecodesElsewhere
    <3>2. timeStamp[f] = Shown
      BY <1>4, <2>3, <3>1
    <3>3. stampOf[f] = given
      BY <1>4, <2>3, <3>1, <3>2 DEF PutDispInfo
    <3>4. picOf'[f] = chunks[n].stamp
      BY <1>2, <1>4, <2>3, <3>1
    <3> QED
      BY <1>1, <1>2, <2>1, <2>3, <3>3, <3>4
  <2>4. CASE f = NoFrame
    BY <2>1, <2>4
  <2> QED
    BY <2>1, <2>2, <2>3, <2>4
<1> HIDE DEF stampOf
<1>6. /\ \A x \in waiting \cup ({f} \ {NoFrame}) : stampOf[x] \in {picOf'[x], NoStamp}
      /\ \A x \in Frames \ (waiting \cup hidden \cup {f}) : stampOf[x] = Shown
  <2>1. ASSUME NEW x \in waiting, x # f PROVE stampOf[x] \in {picOf'[x], NoStamp}
    <3>1. picOf'[x] = picOf[x]
      BY <1>2, <1>4, <2>1
    <3> QED
      BY <1>4, <1>5, <2>1, <3>1
  <2> QED
    BY <1>4, <1>5, <2>1
<1>7. /\ \A x \in waiting' : timeStamp'[x] \in {picOf'[x], NoStamp}
      /\ \A x \in Frames \ (waiting' \cup hidden') : timeStamp'[x] = Shown
  <2>1. \A x \in Frames : x # g => timeStamp'[x] = stampOf[x]
    BY <1>3, <1>5
  <2>2. \A x \in waiting' : x \in waiting \cup ({f} \ {NoFrame}) /\ x # g /\ x \in Frames
    BY <1>2, <1>4
  <2>3. ASSUME NEW x \in Frames \ (waiting' \cup hidden') PROVE timeStamp'[x] = Shown
    <3>1. CASE x = g
      <4>1. timeStamp' = [stampOf EXCEPT ![g] = Shown]
        BY <1>3, <1>4, <2>3, <3>1
      <4> QED
        BY <1>5, <3>1, <4>1
    <3>2. CASE x # g
      <4>1. x \notin waiting \cup hidden \cup {f}
        BY <1>2, <1>3, <1>4, <2>3, <3>2
      <4> QED
        BY <1>6, <2>1, <3>2, <4>1
    <3> QED
      BY <3>1, <3>2
  <2> QED
    BY <1>6, <2>1, <2>2, <2>3
<1>8. \A x \in held' \ held : last'.stamp \in {picOf'[x], NoStamp}
  <2>1. SUFFICES ASSUME NEW x \in held' \ held PROVE last'.stamp \in {picOf'[x], NoStamp}
    OBVIOUS
  <2>2. x = g /\ g # NoFrame /\ last' = [Nothing EXCEPT !.img = g, !.stamp = stampOf[g]]
    BY <1>3, <2>1
  <2>3. x \in waiting \cup ({f} \ {NoFrame})
    BY <2>2
  <2>4. last'.stamp = stampOf[g]
    <3>1. PICK y : y = stampOf[g]
      OBVIOUS
    <3>2. last' = [Nothing EXCEPT !.img = g, !.stamp = y]
      BY <2>2, <3>1
    <3>3. last'.stamp = y
      BY <3>2 DEF Nothing
    <3> QED
      BY <3>1, <3>3
  <2> QED
    BY <1>6, <2>2, <2>3, <2>4
<1>9. StampInv'
  BY <1>1, <1>2, <1>7 DEF StampInv
<1> QED
  BY <1>8, <1>9

\* One that waits for stream forgets the stamp it was called with, and leaves
\* those of the ring as they are.
LEMMA StampKept ==
  ASSUME FrameInv, StampInv, NEW size, NEW stamp,
         DecodeNeedsStream(size, stamp) \/ DecodeFails(size, stamp)
  PROVE  StampInv' /\ held' = held
<1>1. CASE DecodeNeedsStream(size, stamp)
  <2>1. /\ pending' = "pic" /\ primed' = NoStamp /\ flushed' = FALSE
        /\ UNCHANGED <<readPos, savedTimeStamp, prevStrmReadPos, timeStamp, waiting, picOf,
                       held, hidden, failed>>
    BY <1>1 DEF DecodeNeedsStream, DecodeWith, stampVars, frameVars
  <2> QED
    BY <2>1 DEF StampInv
<1>2. CASE DecodeFails(size, stamp)
  <2>1. failed' = TRUE /\ held' = held
    BY <1>2 DEF DecodeFails, frameVars
  <2> QED
    BY <2>1 DEF StampInv
<1> QED
  BY <1>1, <1>2

\* Parsing starts in an empty ring, at its start.
LEMMA StampParsed ==
  ASSUME FrameInv, RingInv, StampInv, NEW size \in ChunkSizes, NEW stamp \in NewStamps,
         \/ ParseVideoCfg(size, stamp)
         \/ ParseNeedsStream(size, stamp)
         \/ ParseFails(size, stamp)
  PROVE  StampInv' /\ held' = held
<1>1. held' = held
  BY DEF ParseVideoCfg, ParseNeedsStream, ParseFails, ParseWith, frameVars
<1>2. CASE ParseFails(size, stamp)
  <2>1. failed' = TRUE
    BY <1>2 DEF ParseFails
  <2> QED
    BY <1>1, <2>1 DEF StampInv
<1>3. CASE failed /\ ~ParseFails(size, stamp)
  <2>1. failed' = failed
    BY <1>3 DEF ParseVideoCfg, ParseNeedsStream
  <2> QED
    BY <1>1, <1>3, <2>1 DEF StampInv
<1>4. CASE ~failed /\ ~ParseFails(size, stamp)
  <2>1. /\ pending = "no" => flushed
        /\ pending # "pic" /\ Fits(size) /\ unread' = Fed(size, stamp)
        /\ Commanded
        /\ UNCHANGED <<savedTimeStamp, prevStrmReadPos, timeStamp, picOf, hidden, failed>>
        /\ waiting' = waiting \/ waiting' = {}
    BY <1>4 DEF ParseVideoCfg, ParseNeedsStream, ParseWith, stampVars, frameVars
  <2>2. /\ flushed /\ readPos = 0 /\ savedTimeStamp = NoStamp
        /\ pending = "no" => unread = <<>>
        /\ pending = "seq" => Len(unread) = 1
        /\ primed = NoStamp
        /\ pending \in {"no", "seq"}
        /\ waiting = {} /\ \A f \in Frames \ (waiting \cup hidden) : timeStamp[f] = Shown
    BY <1>4, <2>1 DEF StampInv, FrameInv, PendingInv
  <2>3. Len(unread') = 1 /\ unread' # <<>>
    <3>1. size > 0 /\ stamp \in Stamps /\ size \in Nat
      BY StreamAssumption DEF NewStamps
    <3>2. Fed(size, stamp) # <<>>
      BY <2>1, <3>1, Feeding
    <3>3. CASE pending = "no"
      <4>1. Fed(size, stamp) = Append(unread, [stamp |-> stamp, size |-> size])
        BY <3>1, <3>3 DEF Fed
      <4>2. Append(<<>>, [stamp |-> stamp, size |-> size]) = <<[stamp |-> stamp, size |-> size]>>
        OBVIOUS
      <4> QED
        BY <2>1, <2>2, <3>3, <4>1, <4>2
    <3>4. CASE pending = "seq"
      <4>1. Fed(size, stamp) = [unread EXCEPT ![Len(unread)].size = @ + size]
        BY <3>4 DEF Fed
      <4>2. unread \in Seq(Chunks) /\ unread # <<>> /\ Bytes(unread) + size < StrmBufSize
        BY <2>1, <3>4 DEF RingInv, Positions, Fits
      <4>3. Len(Fed(size, stamp)) = Len(unread)
        BY <3>1, <4>1, <4>2, BytesEnlarged
      <4> QED
        BY <2>1, <2>2, <3>2, <3>4, <4>3
    <3> QED
      BY <2>2, <3>3, <3>4
  <2>4. CASE ParseVideoCfg(size, stamp)
    <3>1. /\ pending' = "no" /\ flushed' = FALSE /\ waiting' = {}
          /\ primed' = unread'[Len(unread')].stamp
          /\ readPos' = SeqInitRegs(FillBuffer(writePos, size)).rd
      BY <2>4 DEF ParseVideoCfg
    <3>2. readPos' = readPos
      <4>1. size > 0 /\ stamp \in Stamps
        BY StreamAssumption DEF NewStamps
      <4>2. FillBuffer(writePos, size) \in Offsets
        BY <2>1, <4>1, Feeding
      <4> QED
        BY <2>1, <3>1, <4>2, StartedRegs
    <3>3. primed' = unread'[1].stamp
      BY <2>3, <3>1
    <3> QED
      BY <1>1, <2>1, <2>2, <2>3, <3>1, <3>2, <3>3 DEF StampInv
  <2>5. CASE ParseNeedsStream(size, stamp)
    <3>1. pending' = "seq" /\ UNCHANGED <<readPos, waiting, primed, flushed>>
      BY <2>5 DEF ParseNeedsStream
    <3> QED
      BY <1>1, <1>4, <2>1, <2>2, <2>3, <3>1 DEF StampInv
  <2> QED
    BY <1>4, <2>4, <2>5
<1> QED
  BY <1>2, <1>3, <1>4

\* The other calls.
LEMMA StampOthers ==
  ASSUME FrameInv, StampInv,
         RegFrameBuf \/ (\E f \in Frames : ClrDspFlag(f)) \/ Flush \/ FlushFails \/ CloseAndOpen
  PROVE  StampInv' /\ held' \subseteq held
<1>1. CASE RegFrameBuf
  BY <1>1 DEF RegFrameBuf, posVars, stampVars, blockVars, frameVars, StampInv
<1>2. ASSUME NEW f \in Frames, ClrDspFlag(f) PROVE StampInv' /\ held' \subseteq held
  <2>1. /\ f \in held /\ held' = held \ {f} /\ picOf' = [picOf EXCEPT ![f] = 0]
        /\ UNCHANGED <<readPos, unread, savedTimeStamp, prevStrmReadPos, timeStamp, pending,
                       waiting, hidden, primed, flushed, failed>>
    BY <1>2 DEF ClrDspFlag, posVars, stampVars, blockVars
  <2>2. f \notin waiting /\ waiting \subseteq Frames /\ DOMAIN picOf = Frames
    BY <2>1 DEF FrameInv, FrameTypes, OwnerInv, StillShown
  <2>3. \A x \in waiting' : picOf'[x] = picOf[x]
    BY <2>1, <2>2
  <2> QED
    BY <2>1, <2>3 DEF StampInv
<1>3. CASE Flush \/ CloseAndOpen
  <2>1. /\ readPos' = 0 /\ unread' = <<>> /\ waiting' = {} /\ savedTimeStamp' = NoStamp
        /\ primed' = NoStamp /\ held' = {} /\ pending' = "no"
        /\ timeStamp' = [f \in Frames |-> Shown]
    BY <1>3 DEF Flush, CloseAndOpen
  <2>2. Len(unread') = 0
    BY <2>1
  <2> QED
    BY <2>1, <2>2 DEF StampInv
<1>4. CASE FlushFails
  <2>1. failed' = TRUE /\ held' = held
    BY <1>4 DEF FlushFails, frameVars
  <2> QED
    BY <2>1 DEF StampInv
<1> QED
  BY <1>1, <1>2, <1>3, <1>4

\* Every step of a decoder that lags by at most one chunk.
LEMMA StampStep ==
  ASSUME MaxLag <= 1
  PROVE  FrameInv /\ RingInv /\ StampInv /\ [Next]_vars =>
           /\ StampInv'
           /\ [\A f \in held' \ held : ~failed => last'.stamp \in {picOf'[f], NoStamp}]_vars
<1> DEFINE Follows == \A f \in held' \ held : ~failed => last'.stamp \in {picOf'[f], NoStamp}
<1> SUFFICES ASSUME FrameInv, RingInv, StampInv, [Next]_vars
             PROVE  StampInv' /\ [Follows]_vars
  OBVIOUS
<1>1. CASE UNCHANGED vars
  BY <1>1 DEF vars, posVars, stampVars, blockVars, frameVars, StampInv
<1>2. ASSUME NEW size \in ChunkSizes, NEW stamp \in NewStamps,
             \/ ParseVideoCfg(size, stamp)
             \/ ParseNeedsStream(size, stamp)
             \/ ParseFails(size, stamp)
      PROVE  StampInv' /\ Follows
  BY <1>2, StampParsed
<1>3. ASSUME Decode PROVE StampInv' /\ Follows
  <2>1. PICK size \in ChunkSizes \cup {0} : \E stamp \in CallStamps(size) :
          \/ \E n \in 0 .. Len(Fed(size, stamp)), f \in Frames \cup {NoFrame} :
               \E g \in waiting \cup {f, NoFrame}, isB \in {FALSE, ~vc1BframeDisplayValid},
                  isInterlaced \in {FALSE, f # NoFrame} :
                 DecodeFrame(size, stamp, n, f, g, isB, isInterlaced)
          \/ DecodeNeedsStream(size, stamp)
          \/ DecodeFails(size, stamp)
    BY <1>3 DEF Decode
  <2>2. PICK stamp \in CallStamps(size) :
          \/ \E n \in 0 .. Len(Fed(size, stamp)), f \in Frames \cup {NoFrame} :
               \E g \in waiting \cup {f, NoFrame}, isB \in {FALSE, ~vc1BframeDisplayValid},
                  isInterlaced \in {FALSE, f # NoFrame} :
                 DecodeFrame(size, stamp, n, f, g, isB, isInterlaced)
          \/ DecodeNeedsStream(size, stamp)
          \/ DecodeFails(size, stamp)
    BY <2>1
  <2>3. ASSUME NEW n \in 0 .. Len(Fed(size, stamp)),
               NEW f \in Frames \cup {NoFrame}, NEW g \in waiting \cup {f, NoFrame},
               NEW isB, NEW isInterlaced, DecodeFrame(size, stamp, n, f, g, isB, isInterlaced)
        PROVE  StampInv' /\ Follows
    BY <2>3, StampDecoded
  <2>4. ASSUME DecodeNeedsStream(size, stamp) \/ DecodeFails(size, stamp)
        PROVE  StampInv' /\ Follows
    BY <2>4, StampKept
  <2> QED
    BY <2>2, <2>3, <2>4
<1>4. ASSUME RegFrameBuf \/ (\E f \in Frames : ClrDspFlag(f)) \/ Flush \/ FlushFails
             \/ CloseAndOpen
      PROVE  StampInv' /\ Follows
  BY <1>4, StampOthers
<1> HIDE DEF Follows
<1> QED
  BY <1>1, <1>2, <1>3, <1>4 DEF Next

-----------------------------------------------------------------------------
\* The ring's invariant holds in every reachable state.
THEOREM RingInvariant == Spec => []RingInv
<1> QED
  BY Invariant, RingInit, RingStep, PTL DEF Spec

\* Every variable has its type, and positions stay inside the ring.
THEOREM TypeCorrect == Spec => []TypeOK
<1>1. FrameInv /\ RingInv => TypeOK
  BY DEF FrameInv, FrameTypes, PendingInv, RingInv, Positions, StampTypes, Results, TypeOK
<1> QED
  BY <1>1, Invariant, RingInvariant, PTL

\* readPos and writePos (FillBuffer, VPU_DecGetOutputInfo) enclose exactly
\* what the client fed and the block has not read, however the ring wraps,
\* commands fail, stall and go on, or a flush stops half way.
THEOREM RingHoldsTheUnread == Spec => []RingAgrees
<1>1. RingInv => RingAgrees
  BY DEF RingInv
<1> QED
  BY <1>1, RingInvariant, PTL

\* The arithmetic NX_VidDecDecodeFrame does on unwrapped positions never gives a
\* frame the stamp of another picture, for every size of chunk and ring, as long
\* as the block leaves at most one chunk unread: the library saves one stamp.
THEOREM NoForeignStamp ==
  ASSUME MaxLag <= 1
  PROVE  Spec => StampFollowsPicture
<1>1. Spec => []StampInv
  BY Invariant, RingInvariant, StampInit, StampStep, PTL DEF Spec
<1> DEFINE Follows == \A f \in held' \ held : ~failed => last'.stamp \in {picOf'[f], NoStamp}
<1>2. FrameInv /\ RingInv /\ StampInv /\ [Next]_vars => [Follows]_vars
  BY StampStep
<1> QED
  BY <1>1, <1>2, Invariant, RingInvariant, PTL DEF Spec, StampFollowsPicture
=============================================================================
