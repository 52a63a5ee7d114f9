--------------------------- MODULE VpuDriverProofs ---------------------------
(***************************************************************************)
(* Proofs about VpuDriver for every number of files and every limit.  The   *)
(* first part holds whatever clients and hardware do; the second needs a    *)
(* client that opens one instance per file and a copy_to_user that works;   *)
(* the third needs a block that answers.                                    *)
(***************************************************************************)
EXTENDS VpuDriver, FiniteSetTheorems, TLAPS

-----------------------------------------------------------------------------
(* Ownership *)

\* gstCurNumInstance counts the open files, so it is 0 only when none is left
\* and NX_VpuInit, run then, clears an instance table nobody relies on.
OpenCount ==
  /\ IsFiniteSet(opened)
  /\ numInstance = Cardinality(opened)

OwnInv ==
  /\ TypeOK
  /\ OpenCount
  /\ SlotOwnership
  /\ Owners # {} => ready
  /\ ready /\ ~asleep => powered

LEMMA OwnInit == Init => OwnInv
<1> SUFFICES ASSUME Init PROVE OwnInv
  OBVIOUS
<1>1. TypeOK
  <2>1. numInstance \in 0 .. MaxInstance
    BY LimitsAssumption DEF Init
  <2>2. codecMode \in [Slots -> Kinds]
    BY DEF Init, Kinds
  <2>3. inst \in [Files -> Slots \cup {NoInst}]
    BY DEF Init
  <2>4. running \in Slots \cup {Idle, Boot}
    BY DEF Init
  <2>5. opened \subseteq Files /\ inUse \subseteq Slots
        /\ seqReady \subseteq Slots /\ needMore \subseteq Slots
    BY DEF Init
  <2>6. encInstance \in Int /\ decInstance \in Int
    BY DEF Init
  <2>7. /\ powered \in BOOLEAN /\ ready \in BOOLEAN /\ regsLoaded \in BOOLEAN
        /\ regStore \in BOOLEAN /\ asleep \in BOOLEAN
    BY DEF Init
  <2> QED BY <2>1, <2>2, <2>3, <2>4, <2>5, <2>6, <2>7 DEF TypeOK
<1>2. OpenCount
  BY FS_EmptySet DEF Init, OpenCount
<1>3. Owners = {}
  BY DEF Init, Owners
<1>4. SlotOwnership /\ powered
  BY <1>3 DEF Init, SlotOwnership, Leased
<1> QED BY <1>1, <1>2, <1>3, <1>4 DEF OwnInv

LEMMA NoFileNoOwner == OwnInv /\ numInstance = 0 => opened = {} /\ Owners = {}
BY FS_EmptySet DEF OwnInv, OpenCount, SlotOwnership

LEMMA OwnOpen ==
  ASSUME OwnInv, NEW f \in Files, Open(f)
  PROVE  OwnInv'
<1> USE DEF OwnInv
<1>1. f \notin Owners
  BY DEF Open, SlotOwnership
<1>2. inst' = inst
  BY <1>1 DEF Open, TypeOK, Owners
<1>3. OpenCount'
  BY FS_AddElement DEF Open, OpenCount
<1>3a. numInstance' \in 0 .. MaxInstance
  BY LimitsAssumption DEF Open, RoomForFile, TypeOK
<1>4. CASE numInstance = 0
  <2>1. Owners' = {} /\ Leased' = {}
    BY <1>2, <1>4, NoFileNoOwner DEF Owners, Leased
  <2>2. TypeOK'
    BY <1>2, <1>3, <1>4, <1>3a DEF Open, VpuInit, TypeOK
  <2>3. (ready /\ ~asleep => powered)'
    BY <1>4 DEF Open, VpuInit, TypeOK
  <2> QED BY <1>3, <2>1, <2>2, <2>3 DEF SlotOwnership
<1>5. CASE numInstance # 0
  <2>1. UNCHANGED <<inUse, powered, ready, running, regsLoaded>>
    BY <1>5 DEF Open
  <2>2. TypeOK'
    BY <1>2, <1>3a, <2>1 DEF Open, TypeOK
  <2>3. Owners' = Owners /\ Leased' = Leased
    BY <1>2 DEF Owners, Leased
  <2>4. SlotOwnership'
    BY <1>2, <2>1, <2>3 DEF Open, SlotOwnership
  <2> QED BY <1>3, <2>1, <2>2, <2>3, <2>4 DEF Open
<1> QED BY <1>4, <1>5

LEMMA OwnClose ==
  ASSUME OwnInv, NEW f \in Files, Close(f)
  PROVE  OwnInv'
<1> USE DEF OwnInv
<1>1. /\ IsFiniteSet(opened \ {f})
      /\ Cardinality(opened \ {f}) = numInstance - 1
      /\ numInstance - 1 \in Nat
  <2>1. IsFiniteSet(opened \ {f}) /\ Cardinality(opened \ {f}) = numInstance - 1
    BY FS_RemoveElement DEF Close, OpenCount
  <2> QED BY <2>1, FS_CardinalityType
<1>2. OpenCount'
  BY <1>1 DEF Close, OpenCount
<1>3. Owners' = Owners \ {f} /\ \A g \in Owners' : inst'[g] = inst[g]
  BY DEF Close, TypeOK, Owners
<1>4. SlotOwnership'
  <2>1. Leased' \subseteq Leased
    BY <1>3 DEF Leased
  <2>2. inst[f] \in Slots => inst[f] \notin Leased'
    BY <1>3 DEF SlotOwnership, Leased, Owners, Slots, NoInst
  <2>3. Leased' \subseteq inUse'
    BY <2>1, <2>2 DEF Close, SlotOwnership, TypeOK, NoInst
  <2> QED BY <1>3, <2>3 DEF Close, SlotOwnership
<1>5. TypeOK'
  <2>1. running' \in Slots \cup {Idle, Boot}
    BY DEF Close, AfterClose, AfterSeqEnd, TypeOK
  <2>2. numInstance' \in 0 .. MaxInstance
    BY <1>1, LimitsAssumption DEF Close, TypeOK
  <2>3. encInstance' \in Int /\ decInstance' \in Int
    BY DEF Close, CountAfterClose, TypeOK
  <2> QED BY <2>1, <2>2, <2>3
          DEF Close, VpuDeInit, SeqAfterClose, TypeOK
<1>6. (Owners # {} => ready)'
  <2>1. CASE numInstance' = 0
    <3>1. opened' = {}
      BY <1>2, <2>1, FS_EmptySet DEF OpenCount
    <3> QED BY <1>4, <3>1 DEF SlotOwnership
  <2>2. CASE numInstance' # 0
    BY <1>3, <2>2 DEF Close, LastFileGone
  <2> QED BY <2>1, <2>2
<1>7. (ready /\ ~asleep => powered)'
  BY DEF Close, VpuDeInit, TypeOK
<1> QED BY <1>2, <1>4, <1>5, <1>6, <1>7

LEMMA OwnOpenInstance ==
  ASSUME OwnInv, NEW f \in Files, NEW k \in Kinds, NEW copied \in BOOLEAN,
         OpenInstance(f, k, copied)
  PROVE  OwnInv'
<1> USE DEF OwnInv
<1>1. PICK s \in Slots :
        /\ FirstFree(s)
        /\ inUse' = inUse \cup {s}
        /\ codecMode' = [codecMode EXCEPT ![s] = k]
        /\ needMore' = needMore \ {s}
        /\ inst' = IF copied THEN [inst EXCEPT ![f] = s] ELSE inst
  BY DEF OpenInstance, TakeInstance
<1>1a. seqReady' = seqReady
  BY DEF OpenInstance, TakeInstance
<1>2. s \notin inUse /\ s # NoInst /\ s \notin Leased
  BY <1>1 DEF FirstFree, SlotOwnership, Slots, NoInst
<1>3. TypeOK'
  <2>1. encInstance' \in Int /\ decInstance' \in Int
    BY DEF OpenInstance, TypeOK
  <2> QED BY <1>1, <1>1a, <2>1 DEF OpenInstance, powerVars, TypeOK
<1>4. OpenCount'
  BY DEF OpenInstance, OpenCount
<1>5. SlotOwnership'
  <2>1. CASE copied
    <3>1. Owners' = Owners \cup {f} /\ inst'[f] = s
          /\ \A g \in Files : g # f => inst'[g] = inst[g]
      BY <1>1, <1>2, <2>1 DEF TypeOK, Owners
    <3>2. \A g \in Owners' : inst'[g] \in inUse'
      BY <1>1, <3>1 DEF SlotOwnership, Leased
    <3>3. \A g \in Owners : inst[g] # s
      BY <1>2 DEF Leased
    <3> QED BY <3>1, <3>2, <3>3 DEF OpenInstance, SlotOwnership, Leased
  <2>2. CASE ~copied
    BY <1>1, <2>2 DEF OpenInstance, SlotOwnership, Owners, Leased
  <2> QED BY <2>1, <2>2
<1> QED BY <1>3, <1>4, <1>5 DEF OpenInstance, powerVars

\* A step that touches nothing but what codec commands do to the sequence
\* flags and the busy flag.
LEMMA OwnQuiet ==
  ASSUME OwnInv, UNCHANGED QuietVars,
         running' \in Slots \cup {Idle, Boot},
         seqReady' \subseteq Slots, needMore' \subseteq Slots
  PROVE  OwnInv'
<1>1. TypeOK'
  BY DEF OwnInv, TypeOK, QuietVars, countVars
<1>2. OpenCount' /\ SlotOwnership'
  BY DEF OwnInv, OpenCount, SlotOwnership, Owners, Leased, QuietVars, countVars
<1> QED BY <1>1, <1>2 DEF OwnInv, Owners, QuietVars

LEMMA OwnCloseInstance ==
  ASSUME OwnInv, NEW f \in Files, CloseInstance(f)
  PROVE  OwnInv'
<1> USE DEF OwnInv, TypeOK
<1>1. UNCHANGED QuietVars /\ needMore' = needMore
  BY DEF CloseInstance, QuietVars, countVars
<1>2. running' \in Slots \cup {Idle, Boot} /\ seqReady' \subseteq Slots
  BY DEF CloseInstance, AfterClose, AfterSeqEnd
<1> QED BY <1>1, <1>2, OwnQuiet

\* A command only moves the busy flag and the two flags of the caller's instance.
LEMMA CommandEffect ==
  ASSUME NEW f \in Files, Command(f)
  PROVE  /\ inst[f] # NoInst
         /\ UNCHANGED QuietVars
         /\ running' \in {Idle, inst[f], running}
         /\ seqReady' \subseteq seqReady \cup {inst[f]}
         /\ needMore' \subseteq needMore \cup {inst[f]}
<1> USE DEF Caller
<1>1. CASE EncSetSeqParam(f)
  BY <1>1 DEF EncSetSeqParam, EncSeqCommand, TimedOut
<1>2. CASE DecSetSeqInfo(f)
  BY <1>2 DEF DecSetSeqInfo, DecSeqInitCommand, DecSeqComplete, TimedOut
<1>3. CASE EncRunFrame(f)
  BY <1>3 DEF EncRunFrame, EncOneFrameCommand, TimedOut
<1>4. CASE DecRunFrame(f)
  BY <1>4 DEF DecRunFrame, DecStartOneFrameCommand, TimedOut
<1>5. CASE EncPolled(f) \/ DecPolled(f)
  BY <1>5 DEF EncPolled, DecPolled, PolledCommand
<1> QED BY <1>1, <1>2, <1>3, <1>4, <1>5
        DEF Command, EncSetFrameBuf, EncGetHeader, EncChgParam, DecRegFrameBuf, DecFlush

LEMMA OwnCommand ==
  ASSUME OwnInv, NEW f \in Files, Command(f)
  PROVE  OwnInv'
<1>1. inst[f] \in Slots
  BY CommandEffect DEF OwnInv, TypeOK
<1>2. /\ running' \in Slots \cup {Idle, Boot}
      /\ seqReady' \subseteq Slots /\ needMore' \subseteq Slots
  BY <1>1, CommandEffect DEF OwnInv, TypeOK
<1> QED BY <1>2, CommandEffect, OwnQuiet

LEMMA OwnPower ==
  ASSUME OwnInv, Suspend \/ Resume
  PROVE  OwnInv'
<1>1. UNCHANGED <<opened, inst, tableVars, countVars, ready>>
  BY DEF Suspend, Resume
<1>2. OpenCount' /\ SlotOwnership' /\ (Owners # {} => ready)'
  BY <1>1 DEF OwnInv, OpenCount, SlotOwnership, Owners, Leased, tableVars, countVars
<1>3. running' \in Slots \cup {Idle, Boot}
  BY DEF OwnInv, TypeOK, Suspend, Resume
<1>4. /\ powered' \in BOOLEAN /\ regsLoaded' \in BOOLEAN
      /\ regStore' \in BOOLEAN /\ asleep' \in BOOLEAN
  BY DEF OwnInv, TypeOK, Suspend, Resume, RestoredRegs
<1>5. TypeOK'
  BY <1>1, <1>3, <1>4 DEF OwnInv, TypeOK, tableVars, countVars
<1>6. (ready /\ ~asleep => powered)'
  BY DEF OwnInv, Suspend, Resume
<1> QED BY <1>2, <1>5, <1>6 DEF OwnInv

LEMMA OwnNext == OwnInv /\ [Next]_vars => OwnInv'
<1> SUFFICES ASSUME OwnInv, [Next]_vars PROVE OwnInv'
  OBVIOUS
<1>1. CASE UNCHANGED vars
  BY <1>1, OwnQuiet DEF vars, tableVars, countVars, powerVars, QuietVars, OwnInv, TypeOK
<1>2. ASSUME NEW f \in Files,
             Open(f) \/ Close(f) \/ CloseInstance(f) \/ Command(f)
      PROVE  OwnInv'
  BY <1>2, OwnOpen, OwnClose, OwnCloseInstance, OwnCommand
<1>3. ASSUME NEW f \in Files, NEW k \in Kinds, NEW copied \in BOOLEAN,
             OpenInstance(f, k, copied)
      PROVE  OwnInv'
  BY <1>3, OwnOpenInstance
<1>4. CASE Suspend \/ Resume
  BY <1>4, OwnPower
<1> QED BY <1>1, <1>2, <1>3, <1>4 DEF Next

\* The variables keep their types; in particular the number of open files
\* stays within NX_MAX_VPU_INSTANCE.
THEOREM Typing == Spec => []TypeOK
<1>1. OwnInv => TypeOK
  BY DEF OwnInv
<1> QED BY <1>1, OwnInit, OwnNext, PTL DEF Spec

\* No two files ever share an instance and no file holds a freed one, however
\* the clients misuse OPEN_INSTANCE and however the hardware fails.
THEOREM Ownership == Spec => []SlotOwnership
<1>1. OwnInv => SlotOwnership
  BY DEF OwnInv
<1> QED BY <1>1, OwnInit, OwnNext, PTL DEF Spec

\* A client with an instance never drives a block that is off or not booted.
THEOREM HardwareIsLive == Spec => []LiveHardware
<1>1. OwnInv => LiveHardware
  BY DEF OwnInv, LiveHardware
<1> QED BY <1>1, OwnInit, OwnNext, PTL DEF Spec

-----------------------------------------------------------------------------
(* Accounting, for clients that open one instance per file *)

Disciplined == ~Reopen /\ ~CopyFails

DecOwners == {f \in Owners : codecMode[inst[f]] = "dec"}
EncOwners == {f \in Owners : codecMode[inst[f]] # "dec"}

LeaseInv ==
  /\ OwnInv
  /\ Accounting
  /\ decInstance <= MaxDec
  /\ encInstance <= MaxEnc
  /\ FreshSlot

LEMMA OwnersFinite ==
  ASSUME OwnInv
  PROVE  IsFiniteSet(Owners) /\ IsFiniteSet(DecOwners) /\ IsFiniteSet(EncOwners)
<1>1. IsFiniteSet(Owners)
  BY FS_Subset DEF OwnInv, OpenCount, SlotOwnership
<1> QED BY <1>1, FS_Subset DEF DecOwners, EncOwners

LEMMA LeaseInit == Init => LeaseInv
<1> SUFFICES ASSUME Init PROVE LeaseInv
  OBVIOUS
<1>1. Owners = {}
  BY DEF Init, Owners
<1>2. Accounting
  BY <1>1, FS_EmptySet DEF Init, Accounting, Leased
<1> QED BY <1>2, OwnInit, LimitsAssumption DEF LeaseInv, Init, FreshSlot

\* Steps that leave files, instances and their kinds alone.
LEMMA LeaseQuiet ==
  ASSUME LeaseInv, OwnInv',
         UNCHANGED <<inst, inUse, codecMode, encInstance, decInstance>>,
         seqReady' \subseteq seqReady \cup Leased
  PROVE  LeaseInv'
<1>1. Accounting'
  BY DEF LeaseInv, Accounting, Owners, Leased
<1> QED BY <1>1 DEF LeaseInv, Accounting, FreshSlot

LEMMA LeaseOpen ==
  ASSUME LeaseInv, OwnInv', NEW f \in Files, Open(f)
  PROVE  LeaseInv'
<1>1. f \notin Owners
  BY DEF Open, LeaseInv, OwnInv, SlotOwnership
<1>2. inst' = inst
  BY <1>1 DEF Open, LeaseInv, OwnInv, TypeOK, Owners
<1>3. inUse' = inUse
  <2>1. CASE numInstance = 0
    BY <2>1, NoFileNoOwner DEF LeaseInv, Accounting, Leased, Open, VpuInit
  <2> QED BY <2>1 DEF Open
<1> QED BY <1>2, <1>3, LeaseQuiet DEF Open

LEMMA LeaseClose ==
  ASSUME LeaseInv, OwnInv', NEW f \in Files, Close(f)
  PROVE  LeaseInv'
<1> USE DEF LeaseInv
<1>1. CASE f \notin Owners
  <2>1. inst' = inst /\ inst[f] = NoInst
    BY <1>1 DEF Close, OwnInv, TypeOK, Owners
  <2> QED BY <2>1, LeaseQuiet DEF Close
<1>2. CASE f \in Owners
  <2> DEFINE s == inst[f]
  <2>1. s # NoInst /\ s \in inUse
    BY <1>2 DEF OwnInv, SlotOwnership, Owners, Leased
  <2>2. /\ inUse' = inUse \ {s}
        /\ seqReady' = seqReady \ {s}
        /\ codecMode' = codecMode
        /\ Owners' = Owners \ {f}
        /\ \A g \in Owners' : inst'[g] = inst[g]
    BY <2>1 DEF Close, SeqAfterClose, OwnInv, TypeOK, Owners
  <2>3. inUse' = Leased'
    <3>1. Leased' = Leased \ {s}
      BY <1>2, <2>2 DEF Leased, OwnInv, SlotOwnership
    <3> QED BY <2>2, <3>1 DEF Accounting
  <2>4. CASE codecMode[s] = "dec"
    <3>1. DecOwners' = DecOwners \ {f} /\ f \in DecOwners /\ EncOwners' = EncOwners
      BY <1>2, <2>2, <2>4 DEF DecOwners, EncOwners
    <3>2. decInstance' = decInstance - 1 /\ encInstance' = encInstance
      BY <2>1, <2>4 DEF Close, CountAfterClose
    <3>3. Cardinality(DecOwners \ {f}) = Cardinality(DecOwners) - 1
      BY <3>1, OwnersFinite, FS_RemoveElement
    <3>4. Accounting'
      BY <2>3, <3>1, <3>2, <3>3 DEF Accounting, DecOwners, EncOwners
    <3> QED BY <2>2, <3>2, <3>4, LimitsAssumption DEF FreshSlot, OwnInv, TypeOK
  <2>5. CASE codecMode[s] # "dec"
    <3>1. EncOwners' = EncOwners \ {f} /\ f \in EncOwners /\ DecOwners' = DecOwners
      BY <1>2, <2>2, <2>5 DEF DecOwners, EncOwners
    <3>2. encInstance' = encInstance - 1 /\ decInstance' = decInstance
      BY <2>1, <2>5 DEF Close, CountAfterClose
    <3>3. Cardinality(EncOwners \ {f}) = Cardinality(EncOwners) - 1
      BY <3>1, OwnersFinite, FS_RemoveElement
    <3>4. Accounting'
      BY <2>3, <3>1, <3>2, <3>3 DEF Accounting, DecOwners, EncOwners
    <3> QED BY <2>2, <3>2, <3>4, LimitsAssumption DEF FreshSlot, OwnInv, TypeOK
  <2> QED BY <2>4, <2>5
<1> QED BY <1>1, <1>2

LEMMA OpenInstanceEffect ==
  ASSUME Disciplined, LeaseInv, NEW f \in Files, NEW k \in Kinds,
         NEW copied \in BOOLEAN, OpenInstance(f, k, copied)
  PROVE  /\ copied
         /\ f \notin Owners
         /\ QuotaLeft(k)
         /\ \E s \in Slots \ Leased :
              /\ inUse' = inUse \cup {s}
              /\ Owners' = Owners \cup {f}
              /\ inst' = [inst EXCEPT ![f] = s]
              /\ codecMode' = [codecMode EXCEPT ![s] = k]
<1>1. copied /\ f \notin Owners /\ QuotaLeft(k)
  BY DEF Disciplined, OpenInstance, Owners
<1>2. PICK s \in Slots : /\ FirstFree(s)
                         /\ inUse' = inUse \cup {s}
                         /\ codecMode' = [codecMode EXCEPT ![s] = k]
                         /\ inst' = [inst EXCEPT ![f] = s]
  BY <1>1 DEF OpenInstance, TakeInstance
<1>3. s \in Slots \ Leased /\ s # NoInst
  BY <1>2 DEF FirstFree, LeaseInv, Accounting, Slots, NoInst
<1>4. Owners' = Owners \cup {f}
  BY <1>1, <1>2, <1>3 DEF Owners, LeaseInv, OwnInv, TypeOK
<1> QED BY <1>1, <1>2, <1>3, <1>4

LEMMA LeaseOpenInstance ==
  ASSUME Disciplined, LeaseInv, OwnInv', NEW f \in Files, NEW k \in Kinds,
         NEW copied \in BOOLEAN, OpenInstance(f, k, copied)
  PROVE  LeaseInv'
<1> USE DEF LeaseInv
<1>1. copied /\ f \notin Owners /\ QuotaLeft(k)
  BY OpenInstanceEffect
<1>2. PICK s \in Slots \ Leased :
        /\ inUse' = inUse \cup {s}
        /\ Owners' = Owners \cup {f}
        /\ inst' = [inst EXCEPT ![f] = s]
        /\ codecMode' = [codecMode EXCEPT ![s] = k]
  BY OpenInstanceEffect
<1>3. inst'[f] = s /\ \A g \in Owners : inst'[g] = inst[g] /\ inst[g] # s
  BY <1>1, <1>2 DEF OwnInv, TypeOK, Owners, Leased
<1>4. codecMode'[s] = k /\ \A g \in Owners : codecMode'[inst[g]] = codecMode[inst[g]]
  BY <1>2, <1>3 DEF OwnInv, TypeOK, Owners
<1>5. inUse' = Leased'
  BY <1>2, <1>3 DEF Accounting, Leased
<1>6. seqReady' = seqReady
  BY DEF OpenInstance, TakeInstance
<1>7. CASE k = "dec"
  <2>1. DecOwners' = DecOwners \cup {f} /\ f \notin DecOwners /\ EncOwners' = EncOwners
    BY <1>1, <1>2, <1>3, <1>4, <1>7 DEF DecOwners, EncOwners
  <2>2. decInstance' = decInstance + 1 /\ encInstance' = encInstance
    BY <1>1, <1>7 DEF OpenInstance
  <2>3. Cardinality(DecOwners \cup {f}) = Cardinality(DecOwners) + 1
    BY <2>1, OwnersFinite, FS_AddElement
  <2>4. Accounting'
    BY <1>5, <2>1, <2>2, <2>3 DEF Accounting, DecOwners, EncOwners
  <2>5. decInstance' <= MaxDec
    BY <1>1, <1>7, <2>2, LimitsAssumption DEF QuotaLeft, OwnInv, TypeOK
  <2> QED BY <1>2, <1>6, <2>2, <2>4, <2>5 DEF FreshSlot
<1>8. CASE k # "dec"
  <2>1. EncOwners' = EncOwners \cup {f} /\ f \notin EncOwners /\ DecOwners' = DecOwners
    BY <1>1, <1>2, <1>3, <1>4, <1>8 DEF DecOwners, EncOwners
  <2>2. encInstance' = encInstance + 1 /\ decInstance' = decInstance
    BY <1>1, <1>8 DEF OpenInstance
  <2>3. Cardinality(EncOwners \cup {f}) = Cardinality(EncOwners) + 1
    BY <2>1, OwnersFinite, FS_AddElement
  <2>4. Accounting'
    BY <1>5, <2>1, <2>2, <2>3 DEF Accounting, DecOwners, EncOwners
  <2>5. encInstance' <= MaxEnc
    BY <1>1, <1>8, <2>2, LimitsAssumption DEF QuotaLeft, OwnInv, TypeOK
  <2> QED BY <1>2, <1>6, <2>2, <2>4, <2>5 DEF FreshSlot
<1> QED BY <1>7, <1>8

LEMMA LeaseNext == Disciplined /\ LeaseInv /\ [Next]_vars => LeaseInv'
<1> SUFFICES ASSUME Disciplined, LeaseInv, [Next]_vars PROVE LeaseInv'
  OBVIOUS
<1>1. OwnInv'
  BY OwnNext DEF LeaseInv
<1>2. CASE UNCHANGED vars
  BY <1>1, <1>2, LeaseQuiet DEF vars, tableVars, countVars
<1>3. ASSUME NEW f \in Files, Open(f) \/ Close(f)
      PROVE  LeaseInv'
  BY <1>1, <1>3, LeaseOpen, LeaseClose
<1>4. ASSUME NEW f \in Files, CloseInstance(f) \/ Command(f)
      PROVE  LeaseInv'
  <2>1. UNCHANGED <<inst, inUse, codecMode, encInstance, decInstance>>
    BY <1>4, CommandEffect DEF CloseInstance, QuietVars, countVars
  <2>2. f \in Owners /\ inst[f] \in Leased
    BY <1>4, CommandEffect DEF CloseInstance, Owners, Leased
  <2>3. seqReady' \subseteq seqReady \cup Leased
    BY <1>4, <2>2, CommandEffect DEF CloseInstance
  <2> QED BY <1>1, <2>1, <2>3, LeaseQuiet
<1>5. ASSUME NEW f \in Files, NEW k \in Kinds, NEW copied \in BOOLEAN,
             OpenInstance(f, k, copied)
      PROVE  LeaseInv'
  BY <1>1, <1>5, LeaseOpenInstance
<1>6. CASE Suspend \/ Resume
  BY <1>1, <1>6, LeaseQuiet DEF Suspend, Resume, tableVars, countVars
<1> QED BY <1>2, <1>3, <1>4, <1>5, <1>6 DEF Next

\* The quota counters are exact: they never drift from the instances held, and
\* no instance is lost, as long as no client opens a second instance on a file
\* and no copy_to_user fails.
THEOREM ExactAccounting == Disciplined => (Spec => []Accounting)
<1> SUFFICES ASSUME Disciplined PROVE Spec => []Accounting
  OBVIOUS
<1>1. LeaseInv /\ [Next]_vars => LeaseInv'
  BY LeaseNext
<1>2. LeaseInv => Accounting
  BY DEF LeaseInv
<1> QED BY <1>1, <1>2, LeaseInit, PTL DEF Spec

\* Under the same discipline a new holder never inherits a started sequence.
THEOREM FreshSlots == Disciplined => (Spec => []FreshSlot)
<1> SUFFICES ASSUME Disciplined PROVE Spec => []FreshSlot
  OBVIOUS
<1>1. LeaseInv /\ [Next]_vars => LeaseInv'
  BY LeaseNext
<1>2. LeaseInv => FreshSlot
  BY DEF LeaseInv
<1> QED BY <1>1, <1>2, LeaseInit, PTL DEF Spec

\* The holders are as many as the two counters say.
LEMMA OwnersCounted ==
  ASSUME LeaseInv
  PROVE  Cardinality(Owners) = decInstance + encInstance
<1>1. Owners = DecOwners \cup EncOwners /\ DecOwners \cap EncOwners = {}
  BY DEF DecOwners, EncOwners
<1>2. Cardinality(DecOwners \cup EncOwners) =
        Cardinality(DecOwners) + Cardinality(EncOwners) - Cardinality({})
  BY <1>1, OwnersFinite, FS_Union DEF LeaseInv
<1>3. Cardinality(DecOwners) = decInstance /\ Cardinality(EncOwners) = encInstance
  BY DEF LeaseInv, Accounting, DecOwners, EncOwners
<1> QED BY <1>1, <1>2, <1>3, FS_EmptySet DEF LeaseInv, OwnInv, TypeOK

\* Below its quota a client always finds a free instance.
LEMMA LeaseFindsSlot == LeaseInv => SearchSucceeds
<1> SUFFICES ASSUME LeaseInv, \E k \in Kinds : QuotaLeft(k), Slots \ inUse = {}
             PROVE  FALSE
  BY DEF SearchSucceeds
<1>1. decInstance + encInstance < MaxInstance
  BY LimitsAssumption DEF QuotaLeft, LeaseInv, OwnInv, TypeOK
<1>2. Slots = Leased
  BY DEF LeaseInv, OwnInv, TypeOK, Accounting
<1>3. [f \in Owners |-> inst[f]] \in Surjection(Owners, Slots)
  BY <1>2 DEF Surjection, Leased
<1>4. Cardinality(Slots) <= Cardinality(Owners)
  BY <1>3, OwnersFinite, FS_Surjection DEF LeaseInv
<1>5. Cardinality(Slots) = MaxInstance
  BY FS_Interval, LimitsAssumption DEF Slots
<1> QED BY <1>1, <1>4, <1>5, OwnersCounted, LimitsAssumption
        DEF LeaseInv, OwnInv, TypeOK

\* VPU_RET_ERR_INST is unreachable: the quotas fill up before the table does.
THEOREM QuotasSuffice == Disciplined => (Spec => []SearchSucceeds)
<1> SUFFICES ASSUME Disciplined PROVE Spec => []SearchSucceeds
  OBVIOUS
<1>1. LeaseInv /\ [Next]_vars => LeaseInv'
  BY LeaseNext
<1> QED BY <1>1, LeaseFindsSlot, LeaseInit, PTL DEF Spec

-----------------------------------------------------------------------------
(* The instance table implements the abstract pool *)

lease == [f \in Files |-> IF inst[f] = NoInst THEN <<>>
                         ELSE <<inst[f], codecMode[inst[f]]>>]

LEMMA LeaseOfOwner ==
  /\ \A f \in Files : lease[f] = (IF inst[f] = NoInst THEN <<>>
                                 ELSE <<inst[f], codecMode[inst[f]]>>)
  /\ \A f \in Files : lease[f] # Pool!NoLease <=> f \in Owners
  /\ \A f \in Owners : lease[f][1] = inst[f] /\ lease[f][2] = codecMode[inst[f]]
BY DEF lease, Owners, Pool!NoLease

LEMMA PoolViews ==
  /\ Pool!Leased = Owners
  /\ Pool!Decoders = DecOwners
  /\ Pool!Encoders = EncOwners
BY LeaseOfOwner DEF lease, Owners, DecOwners, EncOwners, Pool!Leased, Pool!Decoders,
                    Pool!Encoders, Pool!NoLease

LEMMA SameLease ==
  ASSUME UNCHANGED inst, \A f \in Owners : codecMode'[inst[f]] = codecMode[inst[f]]
  PROVE  UNCHANGED lease
BY DEF lease, Owners

LEMMA PoolAcquire ==
  ASSUME Disciplined, LeaseInv, NEW f \in Files, NEW k \in Kinds,
         NEW copied \in BOOLEAN, OpenInstance(f, k, copied)
  PROVE  Pool!Acquire(f)
<1>1. f \notin Owners /\ QuotaLeft(k)
  BY OpenInstanceEffect
<1>2. PICK s \in Slots \ Leased :
        /\ inst' = [inst EXCEPT ![f] = s]
        /\ codecMode' = [codecMode EXCEPT ![s] = k]
  BY OpenInstanceEffect
<1>3. inst \in [Files -> Slots \cup {NoInst}] /\ codecMode \in [Slots -> Kinds]
  BY DEF LeaseInv, OwnInv, TypeOK
<1>4. inst'[f] = s /\ s # NoInst /\ codecMode'[s] = k
  BY <1>2, <1>3 DEF Slots, NoInst
<1>5. \A g \in Files \ {f} : inst'[g] = inst[g] /\ lease'[g] = lease[g]
  <2> SUFFICES ASSUME NEW g \in Files, g # f
               PROVE  inst'[g] = inst[g] /\ lease'[g] = lease[g]
    OBVIOUS
  <2>1. inst'[g] = inst[g]
    BY <1>2, <1>3
  <2>2. inst[g] # NoInst => codecMode'[inst[g]] = codecMode[inst[g]]
    BY <1>2, <1>3 DEF Leased, Owners
  <2> QED BY <2>1, <2>2 DEF lease
<1>6. lease'[f] = <<s, k>>
  BY <1>4 DEF lease
<1>7. lease' = [lease EXCEPT ![f] = <<s, k>>]
  BY <1>5, <1>6 DEF lease
<1>8. lease[f] = Pool!NoLease
  BY <1>1, LeaseOfOwner
<1>9. \A g \in Pool!Leased : lease[g][1] # s
  BY PoolViews, LeaseOfOwner DEF Leased
<1>10. IF k = "dec" THEN Pool!Cardinality(Pool!Decoders) < MaxDec
                    ELSE Pool!Cardinality(Pool!Encoders) < MaxEnc
  <2>1. ASSUME NEW S PROVE Pool!Cardinality(S) = Cardinality(S)
    BY DEF Pool!Cardinality, Cardinality
  <2> QED BY <1>1, <2>1, PoolViews DEF QuotaLeft, LeaseInv, Accounting, DecOwners, EncOwners
<1> QED BY <1>7, <1>8, <1>9, <1>10 DEF Pool!Acquire, Pool!PoolKinds, Kinds, Slots, lease

LEMMA PoolRelease ==
  ASSUME LeaseInv, NEW f \in Files, Close(f)
  PROVE  Pool!Release(f) \/ UNCHANGED lease
<1>1. inst' = [inst EXCEPT ![f] = NoInst] /\ codecMode' = codecMode
  BY DEF Close
<1>2. inst \in [Files -> Slots \cup {NoInst}]
  BY DEF LeaseInv, OwnInv, TypeOK
<1>3. lease' = [lease EXCEPT ![f] = <<>>]
  BY <1>1, <1>2 DEF lease
<1>4. CASE f \in Owners
  BY <1>3, <1>4, LeaseOfOwner DEF Pool!Release, Pool!NoLease, lease
<1>5. CASE f \notin Owners
  <2>1. inst' = inst
    BY <1>1, <1>2, <1>5 DEF Owners
  <2> QED BY <1>1, <2>1, SameLease
<1> QED BY <1>4, <1>5

LEMMA PoolStep == Disciplined /\ LeaseInv /\ [Next]_vars => [Pool!PoolNext]_lease
<1> SUFFICES ASSUME Disciplined, LeaseInv, [Next]_vars
             PROVE  Pool!PoolNext \/ UNCHANGED lease
  OBVIOUS
<1>1. CASE UNCHANGED vars
  BY <1>1, SameLease DEF vars, tableVars
<1>2. ASSUME NEW f \in Files, Open(f) PROVE UNCHANGED lease
  <2>1. inst' = inst /\ codecMode' = codecMode
    BY <1>2 DEF Open, LeaseInv, OwnInv, SlotOwnership, Owners, TypeOK
  <2> QED BY <2>1, SameLease
<1>3. ASSUME NEW f \in Files, Close(f) PROVE Pool!Release(f) \/ UNCHANGED lease
  BY <1>3, PoolRelease
<1>4. ASSUME NEW f \in Files, CloseInstance(f) \/ Command(f) PROVE UNCHANGED lease
  BY <1>4, CommandEffect, SameLease DEF CloseInstance, QuietVars
<1>5. ASSUME NEW f \in Files, NEW k \in Kinds, NEW copied \in BOOLEAN,
             OpenInstance(f, k, copied)
      PROVE  Pool!Acquire(f)
  BY <1>5, PoolAcquire
<1>6. CASE Suspend \/ Resume
  BY <1>6, SameLease DEF Suspend, Resume, tableVars
<1> QED BY <1>1, <1>2, <1>3, <1>4, <1>5, <1>6 DEF Next, Pool!PoolNext

\* The driver keeps the promise of InstancePool to clients that keep theirs.
THEOREM ImplementsPool == Disciplined => (Spec => PoolSpec)
<1> SUFFICES ASSUME Disciplined PROVE Spec => PoolSpec
  OBVIOUS
<1>1. Init => Pool!PoolInit
  BY DEF Init, Pool!PoolInit, Pool!NoLease
<1>2. LeaseInv /\ [Next]_vars => LeaseInv'
  BY LeaseNext
<1>3. LeaseInv /\ [Next]_vars => [Pool!PoolNext]_lease
  BY PoolStep
<1> QED BY <1>1, <1>2, <1>3, LeaseInit, PTL DEF Spec, PoolSpec, Pool!PoolSpec, lease

-----------------------------------------------------------------------------
(* Power, for a block that answers and is never left inside a picture *)

Responsive == ~Hangs /\ ~Stalls

PowerInv ==
  /\ OwnInv
  /\ running = Idle
  /\ opened # {} => ready
  /\ ready /\ ~asleep => regsLoaded
  /\ ready /\ asleep => regStore

LEMMA PowerInit == Init => PowerInv
BY OwnInit DEF Init, PowerInv

LEMMA ResponsiveClose ==
  ASSUME Responsive, PowerInv, NEW f \in Files, Close(f)
  PROVE  running' = Idle
BY DEF Close, AfterClose, AfterSeqEnd, Responsive, PowerInv

LEMMA ResponsiveCommand ==
  ASSUME Responsive, PowerInv, NEW f \in Files, Command(f)
  PROVE  running' = Idle
BY DEF Command, EncSetSeqParam, EncSetFrameBuf, EncGetHeader, EncRunFrame, EncChgParam,
       DecSetSeqInfo, DecRegFrameBuf, DecRunFrame, DecFlush, EncPolled, DecPolled,
       EncSeqCommand, DecSeqInitCommand, DecSeqComplete, EncOneFrameCommand,
       DecStartOneFrameCommand, PolledCommand, TimedOut, Responsive, PowerInv

LEMMA PowerStep == Responsive /\ PowerInv /\ [Next]_vars => PowerInv'
<1> SUFFICES ASSUME Responsive, PowerInv, [Next]_vars PROVE PowerInv'
  OBVIOUS
<1> USE DEF PowerInv
<1>1. OwnInv'
  BY OwnNext
<1>2. CASE UNCHANGED vars
  BY <1>1, <1>2 DEF vars, powerVars
<1>3. ASSUME NEW f \in Files, Open(f) PROVE PowerInv'
  <2>1. CASE numInstance = 0
    BY <1>1, <1>3, <2>1 DEF Open, VpuInit, Responsive
  <2>2. CASE numInstance # 0
    <3>1. opened # {}
      BY <2>2, FS_EmptySet DEF OwnInv, OpenCount
    <3> QED BY <1>1, <1>3, <2>2, <3>1 DEF Open
  <2> QED BY <2>1, <2>2
<1>4. ASSUME NEW f \in Files, Close(f) PROVE PowerInv'
  <2>1. running' = Idle /\ ready
    BY <1>4, ResponsiveClose DEF Close
  <2>2. CASE LastFileGone
    <3>1. opened' = {}
      BY <1>1, <2>2, FS_EmptySet DEF LastFileGone, OwnInv, OpenCount
    <3> QED BY <1>1, <1>4, <2>1, <2>2, <3>1 DEF Close, VpuDeInit
  <2>3. CASE ~LastFileGone
    BY <1>1, <1>4, <2>1, <2>3 DEF Close
  <2> QED BY <2>2, <2>3
<1>5. ASSUME NEW f \in Files, CloseInstance(f) \/ Command(f) PROVE PowerInv'
  <2>1. UNCHANGED <<opened, ready, regsLoaded, regStore, asleep>>
    BY <1>5, CommandEffect DEF CloseInstance, QuietVars
  <2>2. running' = Idle
    BY <1>5, ResponsiveCommand DEF CloseInstance, AfterClose, AfterSeqEnd, Responsive
  <2> QED BY <1>1, <2>1, <2>2
<1>6. ASSUME NEW f \in Files, NEW k \in Kinds, NEW copied \in BOOLEAN,
             OpenInstance(f, k, copied)
      PROVE  PowerInv'
  BY <1>1, <1>6 DEF OpenInstance, powerVars
<1>7. CASE Suspend
  BY <1>1, <1>7 DEF Suspend
<1>8. CASE Resume
  BY <1>1, <1>8 DEF Resume, RestoredRegs, Responsive
<1> QED BY <1>2, <1>3, <1>4, <1>5, <1>6, <1>7, <1>8 DEF Next

\* With a block that answers and is idle between ioctls, suspend and resume
\* bring back the firmware that NX_VpuInit set up.
THEOREM FirmwareSafe == Responsive => (Spec => []FirmwareSurvives)
<1> SUFFICES ASSUME Responsive PROVE Spec => []FirmwareSurvives
  OBVIOUS
<1>1. PowerInv /\ [Next]_vars => PowerInv'
  BY PowerStep
<1>2. PowerInv => FirmwareSurvives
  BY DEF PowerInv, FirmwareSurvives
<1> QED BY <1>1, <1>2, PowerInit, PTL DEF Spec

LEMMA LastCloseStep ==
  ASSUME Responsive, PowerInv, PowerInv', [Next]_vars, opened # {}, opened' = {}
  PROVE  ~powered'
<1>1. PICK f \in Files : Close(f)
  <2>1. CASE UNCHANGED vars
    BY <2>1 DEF vars
  <2>2. ASSUME NEW g \in Files, Open(g) PROVE FALSE
    BY <2>2 DEF Open
  <2>3. ASSUME NEW g \in Files, CloseInstance(g) \/ Command(g) PROVE FALSE
    BY <2>3, CommandEffect DEF CloseInstance, QuietVars
  <2>4. ASSUME NEW g \in Files, NEW k \in Kinds, NEW copied \in BOOLEAN,
               OpenInstance(g, k, copied)
        PROVE  FALSE
    BY <2>4 DEF OpenInstance
  <2>5. CASE Suspend \/ Resume
    BY <2>5 DEF Suspend, Resume
  <2> QED BY <2>1, <2>2, <2>3, <2>4, <2>5 DEF Next
<1>2. numInstance' = 0
  BY FS_EmptySet DEF PowerInv, OwnInv, OpenCount
<1>3. running' = Idle
  BY <1>1, ResponsiveClose
<1> QED BY <1>1, <1>2, <1>3 DEF Close, LastFileGone, VpuDeInit, PowerInv

\* With such a block the last close never leaves the power on.
THEOREM PowerSaving == Responsive => (Spec => LastCloseSwitchesOff)
<1> SUFFICES ASSUME Responsive PROVE Spec => LastCloseSwitchesOff
  OBVIOUS
<1>1. PowerInv /\ [Next]_vars => PowerInv'
  BY PowerStep
<1>2. PowerInv /\ PowerInv' /\ [Next]_vars => [opened # {} /\ opened' = {} => ~powered']_vars
  BY LastCloseStep
<1> QED BY <1>1, <1>2, PowerInit, PTL DEF Spec, LastCloseSwitchesOff
=============================================================================
