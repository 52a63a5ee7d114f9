----------------------------- MODULE GraphicEngines -----------------------------
(***************************************************************************)
(* The engines of the graphic tools (NX_GTService.cpp, vr_deinterlace.cpp)   *)
(* inside the service thread: deinterlacer, scaler, RGB to YUV and YUV to    *)
(* RGB converter.  Each open handle keeps a cache of GL surfaces for its     *)
(* input and its output buffers, found again by the buffer's physical        *)
(* address or file descriptor.  Below them are five GL contexts with texture  *)
(* names of their own, one of which is current, and a reference count each.  *)
(*                                                                         *)
(* A command is one action, for one thread executes them in turn             *)
(* (GraphicTools).  EGL and GL are external: a surface may fail to be         *)
(* created at any plane, a new texture gets the least name free in the       *)
(* current context, and deleting a name that is not in use does nothing.     *)
(* The start of EGL and eglCreateImageKHR are taken to succeed, and a buffer *)
(* keeps its address and descriptor while a surface is made of it.           *)
(* Definitions whose names end in Bug are plausible mistakes in the          *)
(* definition after them; nothing uses them.                                *)
(***************************************************************************)
EXTENDS Integers, Sequences, FiniteSets

CONSTANTS
  Handles,
  Inputs, Outputs,   \* buffers of the clients
  None,              \* a null surface, an empty slot, a closed handle
  Kinds,             \* the engines in use
  maxInOutBufSize,   \* slots of each cache, as given to every open
  VR_YUV_CNT,        \* planes of a YUV surface
  CreateFails,       \* engines whose surfaces may fail to be created
  MaxName,           \* bound: texture names of one context
  MaxTextures,       \* bound: textures of all contexts together
  MaxTorn            \* bound: surplus references of the UV context

Contexts == {"deint", "scale", "uv", "y", "rgba"}    \* VR_PROGRAM_xxx
Slots == 1 .. maxInOutBufSize
Names == 1 .. MaxName
Bufs == Inputs \cup Outputs
Ref == "ref"     \* the owner of tex_deinterlace_ref_id

ASSUME EngineAssumption ==
  /\ None \notin Bufs \cup {Ref} /\ Ref \notin Inputs
  /\ None \notin [buf : Bufs, tex : Seq(Names)]
  /\ Kinds \subseteq {"deint", "scale", "rgb2yuv", "yuv2rgb"}
  /\ CreateFails \subseteq Kinds
  /\ maxInOutBufSize \in Nat \ {0} /\ VR_YUV_CNT \in Nat \ {0} /\ MaxName \in Nat \ {0}
  /\ MaxTextures \in Nat /\ MaxTorn \in Nat

VARIABLES
  running,     \* the service thread is in its loop
  kind,        \* the engine of each handle
  ins, outs,   \* inputImage and hInSurface, outputImage and hOutSurface
  gl,          \* the Statics and the GL contexts
  last         \* what the last GTDo did

vars == <<running, kind, ins, outs, gl, last>>

-----------------------------------------------------------------------------
(* GL contexts, textures and references. *)

\* The context of each plane of a source and of a target surface.
PlaneContexts ==
  [deint |-> [p \in 1 .. VR_YUV_CNT |-> "deint"],
   scale |-> [p \in 1 .. VR_YUV_CNT |-> "scale"],
   rgb2yuv |-> <<"uv", "y">>,
   yuv2rgb |-> [p \in 1 .. VR_YUV_CNT |-> "rgba"]]

\* The contexts a target of each engine counts as references of.
TargetContexts ==
  [deint |-> {"deint"}, scale |-> {"scale"}, rgb2yuv |-> {"uv", "y"}, yuv2rgb |-> {"rgba"}]

NoTextures == [n \in Names |-> None]

\* vrInitializeGLSurface: it clears the Statics, makes the reference texture
\* of the deinterlacer and leaves the context it initialised last current.
Initialized ==
  [textures |-> [c \in Contexts |->
     IF c = "deint" THEN [NoTextures EXCEPT ![1] = Ref] ELSE NoTextures],
   current |-> "rgba",
   sEGLContextRef |-> [c \in Contexts |-> 0]]

FreeNames(g, c) == {n \in Names : g.textures[c][n] = None}

\* glGenTextures.
NewName(g, c) == CHOOSE n \in FreeNames(g, c) : \A m \in FreeNames(g, c) : n <= m

\* The contexts after each plane of a source of b was made, and the names of
\* its textures.
SourcePlanes(g, k, b) ==
  LET made[p \in 0 .. Len(PlaneContexts[k])] ==
        IF p = 0 THEN [gl |-> g, tex |-> <<>>]
        ELSE LET c == PlaneContexts[k][p]
                 n == NewName(made[p - 1].gl, c)
             IN  [gl |-> [made[p - 1].gl EXCEPT !.current = c, !.textures[c][n] = b],
                  tex |-> Append(made[p - 1].tex, n)]
  IN  made

\* vrCreateXxxSource: the context is made current, then each plane gets a
\* pixmap and a texture.  A failure returns NULL and forgets the textures of
\* the planes before it.
CreateSource(g, k, b) ==
  LET made == SourcePlanes(g, k, b)
      lastPlane == Len(PlaneContexts[k])
  IN  {[surf |-> [buf |-> b, tex |-> made[lastPlane].tex], gl |-> made[lastPlane].gl]}
      \cup IF k \in CreateFails
           THEN {[surf |-> None, gl |-> made[p].gl] : p \in 0 .. lastPlane - 1}
                \cup {[surf |-> None, gl |-> [made[p].gl EXCEPT !.current = PlaneContexts[k][p + 1]]] :
                        p \in 0 .. lastPlane - 1}
           ELSE {}

Referenced(g, cs) ==
  [g EXCEPT !.sEGLContextRef = [c \in Contexts |-> @[c] + IF c \in cs THEN 1 ELSE 0]]

\* The references are counted before the planes are made.
CreateTargetBug(g, k, b) ==
  {[surf |-> [buf |-> b, tex |-> <<>>], gl |-> Referenced(g, TargetContexts[k])]}
  \cup (IF k \in CreateFails
        THEN {[surf |-> None, gl |-> Referenced(g, TargetContexts[k])]} ELSE {})

\* A YUV target counts each plane as it is made, UV first: when Y fails, the
\* reference of UV stays.
Torn(g, k) ==
  IF k = "rgb2yuv" /\ k \in CreateFails /\ g.sEGLContextRef["uv"] - g.sEGLContextRef["y"] < MaxTorn
  THEN {[surf |-> None, gl |-> Referenced(g, {"uv"})]} ELSE {}

\* vrCreateXxxTarget: the other targets are counted when all planes were made.
CreateTarget(g, k, b) ==
  {[surf |-> [buf |-> b, tex |-> <<>>], gl |-> Referenced(g, TargetContexts[k])]}
  \cup (IF k \in CreateFails THEN {[surf |-> None, gl |-> g]} ELSE {})
  \cup Torn(g, k)

Surfaces(cache) == {cache[s].surf : s \in Slots} \ {None}

\* vrDestroyXxxSource: glDeleteTextures works on the context that is current.
DestroySources(g, cache) ==
  LET names == UNION {{x.tex[p] : p \in DOMAIN x.tex} : x \in Surfaces(cache)}
  IN  [g EXCEPT !.textures[g.current] =
         [n \in Names |-> IF n \in names THEN None ELSE @[n]]]

\* A null surface is not passed over.
DestroyTargetsBug(g, k, cache) ==
  [g EXCEPT !.sEGLContextRef =
     [c \in Contexts |->
        IF c \in TargetContexts[k]
        THEN @[c] - Cardinality({s \in Slots : cache[s].key # None}) ELSE @[c]]]

\* vrDestroyXxxTarget, on every slot in use: a null surface is passed over.
DestroyTargets(g, k, cache) ==
  [g EXCEPT !.sEGLContextRef =
     [c \in Contexts |->
        IF c \in TargetContexts[k]
        THEN @[c] - Cardinality({s \in Slots : cache[s].surf # None}) ELSE @[c]]]

-----------------------------------------------------------------------------
(* The surface caches. *)

EmptySlot == [key |-> None, surf |-> None]
EmptyCache == [s \in Slots |-> EmptySlot]

First(S) == CHOOSE s \in S : \A t \in S : s <= t
SlotsOf(cache, b) == {s \in Slots : cache[s].key = b}

\* The surface in the first slot of the buffer, null when there is none.
Hit(cache, b) ==
  IF SlotsOf(cache, b) = {} THEN None ELSE cache[First(SlotsOf(cache, b))].surf

\* The buffer is entered before its surface is looked at.
StoredBug(cache, k, b, x) ==
  [cache EXCEPT ![First(SlotsOf(cache, None))] = [key |-> b, surf |-> x]]

\* Only the deinterlacer leaves the slot free when the surface was not made.
Stored(cache, k, b, x) ==
  IF k = "deint" /\ x = None THEN cache
  ELSE [cache EXCEPT ![First(SlotsOf(cache, None))] = [key |-> b, surf |-> x]]

\* The loops that look for the buffer and, when they find no surface, enter
\* one of those that may be created in the first free slot.
FindOrCreate(g, k, cache, b, created) ==
  IF Hit(cache, b) # None THEN {[cache |-> cache, surf |-> Hit(cache, b), gl |-> g, failed |-> FALSE]}
  ELSE IF SlotsOf(cache, None) = {} THEN {[cache |-> cache, surf |-> None, gl |-> g, failed |-> FALSE]}
  ELSE {[cache |-> Stored(cache, k, b, r.surf), surf |-> r.surf, gl |-> r.gl,
         failed |-> r.surf = None] : r \in created}

-----------------------------------------------------------------------------
(* Commands. *)

Nothing == [handle |-> None]

Init ==
  /\ running = FALSE
  /\ kind = [h \in Handles |-> None]
  /\ ins = [h \in Handles |-> EmptyCache]
  /\ outs = [h \in Handles |-> EmptyCache]
  /\ gl = Initialized
  /\ last = Nothing

Crashed == last # Nothing /\ last.ret = "crash"
Serving == running /\ ~Crashed
Open(h) == kind[h] # None
Unused == \A h \in Handles : ~Open(h)

\* GTServiceThread starts.
Start ==
  /\ ~running
  /\ running' = TRUE
  /\ gl' = Initialized
  /\ UNCHANGED <<kind, ins, outs, last>>

\* GTServiceXxxOpen.
GTOpen(h, k) ==
  /\ Serving /\ ~Open(h)
  /\ kind' = [kind EXCEPT ![h] = k]
  /\ ins' = [ins EXCEPT ![h] = EmptyCache]
  /\ outs' = [outs EXCEPT ![h] = EmptyCache]
  /\ last' = Nothing
  /\ UNCHANGED <<running, gl>>

Textures == {t \in Contexts \X Names : gl.textures[t[1]][t[2]] # None}

\* Bound: when the input needs a source, names are left for its textures.
NamesLeft(h, i) ==
  \/ Hit(ins[h], i) # None \/ SlotsOf(ins[h], None) = {}
  \/ LET planes == PlaneContexts[kind[h]] IN
     /\ Cardinality(Textures) + Len(planes) <= MaxTextures
     /\ \A c \in Contexts :
          Cardinality(FreeNames(gl, c)) >= Cardinality({p \in DOMAIN planes : planes[p] = c})

\* The buffer a surface was made of.
Shown(x) == IF x = None THEN None ELSE x.buf

Did(h, i, o, ret, src, dst) ==
  last' = [handle |-> h, in |-> i, out |-> o, ret |-> ret, src |-> Shown(src), dst |-> Shown(dst)]

LastOf(seq) == seq[Len(seq)]

\* vrRunXxx on two surfaces: the context of its last plane stays current.
Run(g, k) == [g EXCEPT !.current = LastOf(PlaneContexts[k])]

\* GTServiceXxxDo up to the surface of the input.
InputSurface(h, i) ==
  FindOrCreate(gl, kind[h], ins[h], i, CreateSource(gl, kind[h], i))
\* ... and on to the surface of the output.
OutputSurface(h, s, o) ==
  FindOrCreate(s.gl, kind[h], outs[h], o, CreateTarget(s.gl, kind[h], o))

\* The deinterlacer could not make the surface of its input.
InputNotMade(h, i, o) ==
  /\ kind[h] = "deint"
  /\ \E s \in InputSurface(h, i) :
       /\ s.failed
       /\ ins' = [ins EXCEPT ![h] = s.cache]
       /\ gl' = s.gl
       /\ Did(h, i, o, "ERR_SURFACE_CREATE", None, None)
  /\ UNCHANGED outs

\* The deinterlacer goes on to its output: it could not make the surface,
\* found a cache full, or runs.
Deinterlace(h, i, o) ==
  /\ kind[h] = "deint"
  /\ \E s \in InputSurface(h, i) : ~s.failed /\ \E t \in OutputSurface(h, s, o) :
       /\ ins' = [ins EXCEPT ![h] = s.cache]
       /\ outs' = [outs EXCEPT ![h] = t.cache]
       /\ \/ /\ t.failed
             /\ gl' = t.gl
             /\ Did(h, i, o, "ERR_SURFACE_CREATE", None, None)
          \/ /\ ~t.failed /\ (s.surf = None \/ t.surf = None)
             /\ gl' = t.gl
             /\ Did(h, i, o, "ERR_BUF_SIZE", None, None)
          \/ /\ s.surf # None /\ t.surf # None
             /\ gl' = Run(t.gl, "deint")
             /\ Did(h, i, o, "ERR_NONE", s.surf, t.surf)

\* vrRunScale and vrRunCvt2Rgba read the height of the source before they
\* test it; vrRunCvt2Yuv tests it first.
Crashes(k, src) == src = None /\ k \in {"scale", "yuv2rgb"}

\* The other engines run on what they have and return 0.
Convert(h, i, o) ==
  /\ Open(h) /\ kind[h] # "deint"
  /\ \E s \in InputSurface(h, i) : \E t \in OutputSurface(h, s, o) :
       /\ ins' = [ins EXCEPT ![h] = s.cache]
       /\ outs' = [outs EXCEPT ![h] = t.cache]
       /\ gl' = IF s.surf # None /\ t.surf # None THEN Run(t.gl, kind[h]) ELSE t.gl
       /\ Did(h, i, o, IF Crashes(kind[h], s.surf) THEN "crash" ELSE "ERR_NONE", s.surf, t.surf)

GTDo(h, i, o) ==
  /\ Serving /\ Open(h) /\ NamesLeft(h, i)
  /\ InputNotMade(h, i, o) \/ Deinterlace(h, i, o) \/ Convert(h, i, o)
  /\ UNCHANGED <<running, kind>>

\* GTServiceXxxClose.
GTClose(h) ==
  /\ Serving /\ Open(h)
  /\ kind' = [kind EXCEPT ![h] = None]
  /\ ins' = [ins EXCEPT ![h] = EmptyCache]
  /\ outs' = [outs EXCEPT ![h] = EmptyCache]
  /\ gl' = DestroyTargets(DestroySources(gl, ins[h]), kind[h], outs[h])
  /\ last' = Nothing
  /\ UNCHANGED running

\* The service was stopped after the last close: vrTerminateGLSurface
\* destroys the contexts with all that is left in them.
Terminate ==
  /\ Serving /\ Unused
  /\ running' = FALSE
  /\ gl' = Initialized
  /\ last' = Nothing
  /\ UNCHANGED <<kind, ins, outs>>

\* The process died and is started again.
Restart ==
  /\ Crashed
  /\ running' = FALSE
  /\ kind' = [h \in Handles |-> None]
  /\ ins' = [h \in Handles |-> EmptyCache]
  /\ outs' = [h \in Handles |-> EmptyCache]
  /\ gl' = Initialized
  /\ last' = Nothing

Next ==
  \/ Start
  \/ \E h \in Handles, k \in Kinds : GTOpen(h, k)
  \/ \E h \in Handles, i \in Inputs, o \in Outputs : GTDo(h, i, o)
  \/ \E h \in Handles : GTClose(h)
  \/ Terminate
  \/ Restart

Spec == Init /\ [][Next]_vars

-----------------------------------------------------------------------------
(* Properties. *)

Surface == [buf : Bufs, tex : Seq(Names)] \cup {None}

\* Types, slots filled from the first on, and references that never fall
\* below zero (the counts are unsigned).
TypeOK ==
  /\ running \in BOOLEAN
  /\ kind \in [Handles -> Kinds \cup {None}]
  /\ \A h \in Handles : \A cache \in {ins[h], outs[h]} : \A s \in Slots :
       /\ cache[s].key \in Bufs \cup {None} /\ cache[s].surf \in Surface
       /\ cache[s].key = None => \A t \in s .. maxInOutBufSize : cache[t] = EmptySlot
  /\ gl.textures \in [Contexts -> [Names -> Bufs \cup {None, Ref}]]
  /\ gl.current \in Contexts
  /\ gl.sEGLContextRef \in [Contexts -> Nat]

\* The texture of a plane is in the context of that plane and shows the buffer.
TexturesOf(k, x) == {<<PlaneContexts[k][p], x.tex[p]>> : p \in DOMAIN x.tex}
Intact(k, x) == \A t \in TexturesOf(k, x) : gl.textures[t[1]][t[2]] = x.buf

\* Engines of one kind are open at a time, and one RGB to YUV converter.
Separate ==
  \A h, g \in Handles : h # g /\ Open(h) /\ Open(g) => kind[h] = kind[g] /\ kind[h] # "rgb2yuv"

\* No close takes a texture from a surface that is still cached, no two cached
\* surfaces share one, and the reference texture of the deinterlacer survives
\* every close: what test_graphicutil.cpp relies on when it deinterlaces and
\* scales with both handles open and closes one before the other.
TexturesIntact ==
  /\ gl.textures["deint"][1] = Ref
  /\ \A h, g \in Handles : \A x \in Surfaces(ins[h]), y \in Surfaces(ins[g]) :
       /\ Intact(kind[h], x)
       /\ <<h, x>> # <<g, y>> => TexturesOf(kind[h], x) \cap TexturesOf(kind[g], y) = {}

\* Every slot of the cache holds the surface of a different other buffer.
FullOfOthers(cache, b) ==
  /\ \A s \in Slots : cache[s].surf # None /\ cache[s].key # b
  /\ Cardinality({cache[s].key : s \in Slots}) = maxInOutBufSize

NoRoom == FullOfOthers(ins[last.handle], last.in) \/ FullOfOthers(outs[last.handle], last.out)

\* The deinterlacer can report an error; the other engines cannot, and are
\* covered while their surfaces can be created.
Reports(h) == kind[h] = "deint"
Entrusted(h) == Reports(h) \/ kind[h] \notin CreateFails

\* A command draws from the buffer it was given as input to the one it was
\* given as output.  Only two things keep it from doing so: a surface that
\* could not be created, which the deinterlacer reports, and a cache whose
\* every slot holds the surface of a different other buffer, however the
\* buffers came before and whatever failed before.  An engine that cannot
\* report an error returns 0, or dies, in the second case.
DrawnOrRefused ==
  (last # Nothing /\ Entrusted(last.handle)) =>
    CASE last.ret = "ERR_NONE" -> \/ last.src = last.in /\ last.dst = last.out
                                  \/ ~Reports(last.handle) /\ NoRoom
      [] last.ret = "ERR_SURFACE_CREATE" -> kind[last.handle] \in CreateFails
      [] OTHER -> NoRoom

\* Each context counts the targets that live in it, and the UV context no
\* fewer: "Ref must be greater than 0" (vr_deinterlace.cpp:1223) holds at every
\* destruction.  A torn YUV target leaves the UV context one reference too many,
\* against "ctx_ref must be zero" (:229), and no other context is ever wrong.
Targets(c) ==
  {t \in Handles \X Slots :
     Open(t[1]) /\ c \in TargetContexts[kind[t[1]]] /\ outs[t[1]][t[2]].surf # None}

ReferencesCounted ==
  \A c \in Contexts :
    /\ gl.sEGLContextRef[c] >= Cardinality(Targets(c))
    /\ c # "uv" => gl.sEGLContextRef[c] = Cardinality(Targets(c))
=============================================================================
