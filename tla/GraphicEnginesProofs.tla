-------------------------- MODULE GraphicEnginesProofs --------------------------
(***************************************************************************)
(* Proofs about GraphicEngines.  One inductive invariant (EngineInv) carries *)
(* the shape of the caches and the references of the contexts; on it rest    *)
(* two more, of the buffers entered in a cache (DrawnInv) and of the         *)
(* textures of the cached sources (TexturesInv).  The loops of the code over *)
(* the planes of a source are followed by induction on the planes; the       *)
(* searches in a cache are reduced once to their three outcomes, and every   *)
(* step is argued from these.                                                *)
(***************************************************************************)
EXTENDS GraphicEngines, NumberFacts, FiniteSetTheorems, TLAPS

-----------------------------------------------------------------------------
(* Contexts, names and planes. *)

\* The states of the GL contexts.
GLs == [textures : [Contexts -> [Names -> Bufs \cup {None, Ref}]],
        current : Contexts,
        sEGLContextRef : [Contexts -> Int]]

\* What a plane is made in.
LEMMA PlaneKinds ==
  ASSUME NEW k \in Kinds
  PROVE  /\ PlaneContexts[k] \in Seq(Contexts) /\ Len(PlaneContexts[k]) \in Nat \ {0}
         /\ TargetContexts[k] \subseteq Contexts
<1>1. k \in {"deint", "scale", "rgb2yuv", "yuv2rgb"} /\ VR_YUV_CNT \in Nat \ {0}
  BY EngineAssumption
<1>2. ASSUME NEW c \in Contexts
      PROVE  LET same == [p \in 1 .. VR_YUV_CNT |-> c]
             IN  same \in Seq(Contexts) /\ Len(same) = VR_YUV_CNT
  BY <1>1
<1>3. "deint" \in Contexts /\ "scale" \in Contexts /\ "rgba" \in Contexts
      /\ "uv" \in Contexts /\ "y" \in Contexts
  BY DEF Contexts
<1>4. CASE k = "rgb2yuv"
  BY <1>3, <1>4 DEF PlaneContexts, TargetContexts
<1>5. CASE k = "deint"
  <2>1. PlaneContexts[k] = [p \in 1 .. VR_YUV_CNT |-> "deint"]
    BY <1>5 DEF PlaneContexts
  <2> QED
    BY <1>1, <1>2, <1>3, <1>5, <2>1 DEF TargetContexts
<1>6. CASE k = "scale"
  <2>1. PlaneContexts[k] = [p \in 1 .. VR_YUV_CNT |-> "scale"]
    BY <1>6 DEF PlaneContexts
  <2> QED
    BY <1>1, <1>2, <1>3, <1>6, <2>1 DEF TargetContexts
<1>7. CASE k = "yuv2rgb"
  <2>1. PlaneContexts[k] = [p \in 1 .. VR_YUV_CNT |-> "rgba"]
    BY <1>7 DEF PlaneContexts
  <2> QED
    BY <1>1, <1>2, <1>3, <1>7, <2>1 DEF TargetContexts
<1> QED
  BY <1>1, <1>4, <1>5, <1>6, <1>7

\* glGenTextures finds a free name when there is one.
LEMMA NewNames ==
  ASSUME NEW g, NEW c, FreeNames(g, c) # {}
  PROVE  NewName(g, c) \in FreeNames(g, c)
<1>1. FreeNames(g, c) \in SUBSET Nat
  BY EngineAssumption DEF FreeNames, Names
<1>2. \E n \in FreeNames(g, c) : \A m \in FreeNames(g, c) : n <= m
  BY <1>1, Least
<1> QED
  BY <1>2, Zenon DEF NewName

\* A plane in the next context.
PlaneAdded(x, k, b, p) ==
  LET c == PlaneContexts[k][p]
      n == NewName(x.gl, c)
  IN  [gl |-> [x.gl EXCEPT !.current = c, !.textures[c][n] = b],
       tex |-> Append(x.tex, n)]

\* A plane enters its buffer under one name of its context.
LEMMA PlaneEntered ==
  ASSUME NEW x, x.gl \in GLs, NEW k, NEW b \in Bufs, NEW p,
         PlaneContexts[k][p] \in Contexts,
         NewName(x.gl, PlaneContexts[k][p]) \in Names
  PROVE  LET c == PlaneContexts[k][p]
             n == NewName(x.gl, c)
             y == PlaneAdded(x, k, b, p)
         IN  /\ y.gl \in GLs /\ y.gl.current = c /\ y.gl.sEGLContextRef = x.gl.sEGLContextRef
             /\ \A d \in Contexts, m \in Names :
                  y.gl.textures[d][m] = IF d = c /\ m = n THEN b ELSE x.gl.textures[d][m]
             /\ y.tex = Append(x.tex, n)
<1> PICK c : c = PlaneContexts[k][p]
  OBVIOUS
<1> PICK n : n = NewName(x.gl, c)
  OBVIOUS
<1> PICK y : y = PlaneAdded(x, k, b, p)
  OBVIOUS
<1>0. c \in Contexts /\ n \in Names
  OBVIOUS
<1> PICK g : g = x.gl
  OBVIOUS
<1>1. g = [textures |-> g.textures, current |-> g.current, sEGLContextRef |-> g.sEGLContextRef]
      /\ g.textures \in [Contexts -> [Names -> Bufs \cup {None, Ref}]]
      /\ g.sEGLContextRef \in [Contexts -> Int]
  BY DEF GLs
<1>2. PICK h : h = [g EXCEPT !.current = c]
  OBVIOUS
<1>3. h = [textures |-> g.textures, current |-> c, sEGLContextRef |-> g.sEGLContextRef]
  BY <1>1, <1>2
<1>4. PICK t : t = [g.textures EXCEPT ![c] = [g.textures[c] EXCEPT ![n] = b]]
  OBVIOUS
<1>5. /\ t \in [Contexts -> [Names -> Bufs \cup {None, Ref}]]
      /\ \A d \in Contexts, m \in Names :
           t[d][m] = IF d = c /\ m = n THEN b ELSE g.textures[d][m]
  BY <1>0, <1>1, <1>4
<1>6. PICK made : made = [h EXCEPT !.textures[c][n] = b]
  OBVIOUS
<1>7. made = [textures |-> t, current |-> c, sEGLContextRef |-> g.sEGLContextRef]
  BY <1>3, <1>4, <1>6
<1>8. y = [gl |-> made, tex |-> Append(x.tex, n)]
  <2>1. y = [gl |-> [g EXCEPT !.current = c, !.textures[c][n] = b], tex |-> Append(x.tex, n)]
    BY Zenon DEF PlaneAdded
  <2> QED
    BY <1>2, <1>6, <2>1, Zenon
<1>9. made \in GLs /\ made.current = c /\ made.sEGLContextRef = g.sEGLContextRef
      /\ made.textures = t
  BY <1>1, <1>5, <1>7 DEF GLs
<1>10. y.gl = made /\ y.tex = Append(x.tex, n)
  BY <1>8
<1> QED
  BY <1>5, <1>9, <1>10

\* The loop over the planes: what it starts from, and what each plane adds.
LEMMA PlanesInTurn ==
  ASSUME NEW k \in Kinds, NEW g, NEW b
  PROVE  /\ SourcePlanes(g, k, b)[0] = [gl |-> g, tex |-> <<>>]
         /\ \A p \in 1 .. Len(PlaneContexts[k]) :
              SourcePlanes(g, k, b)[p] = PlaneAdded(SourcePlanes(g, k, b)[p - 1], k, b, p)
<1> DEFINE planes == Len(PlaneContexts[k])
           Loop(f, m) == f = [p \in 0 .. m |-> IF p = 0 THEN [gl |-> g, tex |-> <<>>]
                                                        ELSE PlaneAdded(f[p - 1], k, b, p)]
           Reach == {m \in 0 .. planes : \E f : Loop(f, m)}
<1>0. planes \in Nat
  BY PlaneKinds
<1>1. 0 \in Reach
  <2>1. Loop([p \in 0 .. 0 |-> [gl |-> g, tex |-> <<>>]], 0)
    OBVIOUS
  <2> HIDE DEF Loop
  <2> QED
    BY <1>0, <2>1
<1>2. ASSUME NEW m \in 0 .. planes - 1, m \in Reach PROVE m + 1 \in Reach
  <2>1. PICK f : Loop(f, m)
    BY <1>2
  <2> DEFINE h == [p \in 0 .. m + 1 |-> IF p = m + 1 THEN PlaneAdded(f[m], k, b, m + 1) ELSE f[p]]
  <2> HIDE DEF planes
  <2>2. \A p \in 0 .. m : h[p] = f[p]
    BY <1>0
  <2>3. \A p \in 0 .. m + 1 : h[p] = IF p = 0 THEN [gl |-> g, tex |-> <<>>]
                                             ELSE PlaneAdded(h[p - 1], k, b, p)
    BY <1>0, <2>1, <2>2
  <2>4. Loop(h, m + 1)
    BY <2>3
  <2> HIDE DEF h, Loop
  <2>5. \E f1 : Loop(f1, m + 1)
    BY <2>4
  <2> QED
    BY <1>0, <2>5
<1>3. planes \in Reach
  <2> HIDE DEF Reach, planes
  <2>1. 0 .. planes \subseteq Reach
    BY <1>0, <1>1, <1>2, Upwards
  <2> QED
    BY <1>0, <2>1
<1>4. Loop(SourcePlanes(g, k, b), planes)
  <2>1. \E f : Loop(f, planes)
    BY <1>3
  <2> QED
    BY <2>1, Zenon DEF SourcePlanes, PlaneAdded
<1> QED
  <2> DEFINE made == SourcePlanes(g, k, b)
  <2>1. made = [p \in 0 .. planes |-> IF p = 0 THEN [gl |-> g, tex |-> <<>>]
                                               ELSE PlaneAdded(made[p - 1], k, b, p)]
    BY <1>4
  <2> HIDE DEF made, planes
  <2>2. made[0] = [gl |-> g, tex |-> <<>>]
    BY <1>0, <2>1
  <2>3. \A p \in 1 .. planes : made[p] = PlaneAdded(made[p - 1], k, b, p)
    BY <1>0, <2>1
  <2> QED
    BY <2>2, <2>3 DEF made, planes

\* Names are left for every plane from p on.
NamesFrom(g, k, p) ==
  \A c \in Contexts :
    Cardinality(FreeNames(g, c)) >=
      Cardinality({q \in p .. Len(PlaneContexts[k]) : PlaneContexts[k][q] = c})

\* What holds after the first p planes of a source of b in g: they were entered
\* under names that were free, and nothing else was changed.
PlanesUpTo(g, k, b, p, x) ==
  /\ x.gl \in GLs /\ x.gl.sEGLContextRef = g.sEGLContextRef
  /\ x.gl.current = IF p = 0 THEN g.current ELSE PlaneContexts[k][p]
  /\ x.tex \in Seq(Names) /\ Len(x.tex) = p
  /\ \A q \in 1 .. p : g.textures[PlaneContexts[k][q]][x.tex[q]] = None
  /\ \A c \in Contexts, n \in Names :
       x.gl.textures[c][n] = IF \E q \in 1 .. p : c = PlaneContexts[k][q] /\ n = x.tex[q]
                             THEN b ELSE g.textures[c][n]

\* One plane more.
LEMMA OnePlane ==
  ASSUME NEW k \in Kinds, NEW g \in GLs, NEW b \in Bufs,
         NEW p \in 0 .. Len(PlaneContexts[k]) - 1, NEW x,
         PlanesUpTo(g, k, b, p, x), NamesFrom(x.gl, k, p + 1)
  PROVE  /\ PlanesUpTo(g, k, b, p + 1, PlaneAdded(x, k, b, p + 1))
         /\ NamesFrom(PlaneAdded(x, k, b, p + 1).gl, k, p + 2)
<1> DEFINE planes == PlaneContexts[k]
           c == planes[p + 1]
           n == NewName(x.gl, c)
           y == PlaneAdded(x, k, b, p + 1)
           Rest(d, q) == {r \in q .. Len(planes) : planes[r] = d}
<1>1. /\ planes \in Seq(Contexts) /\ Len(planes) \in Nat
      /\ p \in Nat /\ p + 1 \in 1 .. Len(planes) /\ c \in Contexts
  BY PlaneKinds
<1>2. \A d, q : q \in Nat => IsFiniteSet(Rest(d, q))
  <2>1. ASSUME NEW d, NEW q \in Nat PROVE IsFiniteSet(Rest(d, q))
    <3>0. q \in Int /\ Len(planes) \in Int
      BY <1>1
    <3>1. IsFiniteSet(q .. Len(planes))
      BY <3>0, FS_Interval
    <3>2. Rest(d, q) \in SUBSET (q .. Len(planes))
      OBVIOUS
    <3> HIDE DEF Rest
    <3> QED
      BY <3>1, <3>2, FS_Subset
  <2> QED
    BY <2>1
<1>3. \A z, d : IsFiniteSet(FreeNames(z, d))
  <2>1. ASSUME NEW z, NEW d PROVE IsFiniteSet(FreeNames(z, d))
    <3>0. 1 \in Int /\ MaxName \in Int
      BY EngineAssumption
    <3>1. IsFiniteSet(Names)
      BY <3>0, FS_Interval DEF Names
    <3>2. FreeNames(z, d) \in SUBSET Names
      BY DEF FreeNames
    <3> QED
      BY <3>1, <3>2, FS_Subset
  <2> QED
    BY <2>1
<1>4. n \in FreeNames(x.gl, c)
  <2>1. p + 1 \in Rest(c, p + 1)
    BY <1>1
  <2>2. Cardinality(Rest(c, p + 1)) # 0 /\ Cardinality(Rest(c, p + 1)) \in Nat
    <3>0. p + 1 \in Nat
      BY <1>1
    <3> HIDE DEF Rest
    <3>1. IsFiniteSet(Rest(c, p + 1))
      BY <3>0, <1>2
    <3> QED
      BY <2>1, <3>1, FS_EmptySet, FS_CardinalityType
  <2>3. Cardinality(FreeNames(x.gl, c)) >= Cardinality(Rest(c, p + 1))
    BY <1>1 DEF NamesFrom
  <2>4. Cardinality(FreeNames(x.gl, c)) \in Nat /\ Cardinality(FreeNames(x.gl, c)) # 0
    <3>1. Cardinality(FreeNames(x.gl, c)) \in Nat
      BY <1>3, FS_CardinalityType
    <3> HIDE DEF Rest
    <3> QED
      BY <2>2, <2>3, <3>1
  <2>5. FreeNames(x.gl, c) # {}
    BY <2>4, FS_EmptySet
  <2> QED
    BY <2>5, NewNames
<1>5. n \in Names /\ x.gl.textures[c][n] = None
  BY <1>4 DEF FreeNames
<1> HIDE DEF n
<1>6. /\ y.gl \in GLs /\ y.gl.current = c /\ y.gl.sEGLContextRef = x.gl.sEGLContextRef
      /\ \A d \in Contexts, m \in Names :
           y.gl.textures[d][m] = IF d = c /\ m = n THEN b ELSE x.gl.textures[d][m]
      /\ y.tex = Append(x.tex, n)
  <2>1. x.gl \in GLs
    BY DEF PlanesUpTo
  <2>2. PICK q : q = p + 1
    OBVIOUS
  <2>3. c = PlaneContexts[k][q] /\ y = PlaneAdded(x, k, b, q)
    BY <2>2, Zenon
  <2> HIDE DEF c, y
  <2>4. PlaneContexts[k][q] \in Contexts /\ NewName(x.gl, PlaneContexts[k][q]) \in Names
    BY <1>1, <1>5, <2>3 DEF n
  <2>5. n = NewName(x.gl, PlaneContexts[k][q])
    BY <2>3 DEF n
  <2> DEFINE z == PlaneAdded(x, k, b, q)
             d == PlaneContexts[k][q]
             m == NewName(x.gl, d)
  <2>6. /\ z.gl \in GLs /\ z.gl.current = d /\ z.gl.sEGLContextRef = x.gl.sEGLContextRef
        /\ z.tex = Append(x.tex, m)
    BY <2>1, <2>4, PlaneEntered
  <2>7. \A e \in Contexts, l \in Names :
          z.gl.textures[e][l] = IF e = d /\ l = m THEN b ELSE x.gl.textures[e][l]
    BY <2>1, <2>4, PlaneEntered
  <2> HIDE DEF z, d, m
  <2>8. y = z /\ c = d /\ n = m
    BY <2>3, <2>5, Zenon DEF z, d, m
  <2> QED
    BY <2>6, <2>7, <2>8
<1> HIDE DEF y, c
<1>7. /\ x.tex \in Seq(Names) /\ Len(x.tex) = p
      /\ y.tex \in Seq(Names) /\ Len(y.tex) = p + 1 /\ y.tex[p + 1] = n
      /\ \A q \in 1 .. p : y.tex[q] = x.tex[q]
  BY <1>1, <1>5, <1>6 DEF PlanesUpTo
<1>8. g.textures[c][n] = None
  <2>1. b # None
    BY EngineAssumption
  <2> QED
    BY <1>1, <1>5, <2>1 DEF PlanesUpTo
<1>9. \A q \in 1 .. p + 1 : g.textures[planes[q]][y.tex[q]] = None
  <2>1. \A q \in 1 .. p : g.textures[planes[q]][y.tex[q]] = None
    BY <1>7 DEF PlanesUpTo
  <2>2. \A q \in 1 .. p + 1 : q \in 1 .. p \/ q = p + 1
    BY <1>1
  <2>3. g.textures[planes[p + 1]][y.tex[p + 1]] = None
    BY <1>7, <1>8 DEF c
  <2> QED
    BY <2>1, <2>2, <2>3
<1>10. \A d \in Contexts, m \in Names :
         y.gl.textures[d][m] = IF \E q \in 1 .. p + 1 : d = planes[q] /\ m = y.tex[q]
                               THEN b ELSE g.textures[d][m]
  <2> SUFFICES ASSUME NEW d \in Contexts, NEW m \in Names
               PROVE  y.gl.textures[d][m] = IF \E q \in 1 .. p + 1 : d = planes[q] /\ m = y.tex[q]
                                            THEN b ELSE g.textures[d][m]
    OBVIOUS
  <2>1. x.gl.textures[d][m] = IF \E q \in 1 .. p : d = planes[q] /\ m = x.tex[q]
                              THEN b ELSE g.textures[d][m]
    BY DEF PlanesUpTo
  <2>2. (\E q \in 1 .. p + 1 : d = planes[q] /\ m = y.tex[q])
          <=> (d = c /\ m = n) \/ \E q \in 1 .. p : d = planes[q] /\ m = x.tex[q]
    <3>1. \A q \in 1 .. p + 1 : q \in 1 .. p \/ q = p + 1
      BY <1>1
    <3>2. p + 1 \in 1 .. p + 1 /\ \A q \in 1 .. p : q \in 1 .. p + 1
      BY <1>1
    <3>3. planes[p + 1] = c
      BY DEF c
    <3> HIDE DEF planes
    <3> QED
      BY <1>7, <3>1, <3>2, <3>3
  <2> QED
    BY <1>6, <2>1, <2>2
<1>11. PlanesUpTo(g, k, b, p + 1, y)
  <2>1. y.gl.current = IF p + 1 = 0 THEN g.current ELSE planes[p + 1]
    BY <1>1, <1>6 DEF c
  <2>2. y.gl.sEGLContextRef = g.sEGLContextRef
    BY <1>6 DEF PlanesUpTo
  <2> QED
    BY <1>6, <1>7, <1>9, <1>10, <2>1, <2>2 DEF PlanesUpTo
<1>12. NamesFrom(y.gl, k, p + 2)
  <2> SUFFICES ASSUME NEW d \in Contexts
               PROVE  Cardinality(FreeNames(y.gl, d)) >= Cardinality(Rest(d, p + 2))
    BY DEF NamesFrom
  <2>1. Cardinality(FreeNames(x.gl, d)) >= Cardinality(Rest(d, p + 1))
    BY DEF NamesFrom
  <2>2. /\ IsFiniteSet(FreeNames(x.gl, d)) /\ IsFiniteSet(Rest(d, p + 1))
        /\ Cardinality(FreeNames(x.gl, d)) \in Nat /\ Cardinality(Rest(d, p + 1)) \in Nat
    <3>0. p + 1 \in Nat
      BY <1>1
    <3> HIDE DEF Rest
    <3>1. IsFiniteSet(FreeNames(x.gl, d)) /\ IsFiniteSet(Rest(d, p + 1))
      BY <3>0, <1>2, <1>3
    <3> QED
      BY <3>1, FS_CardinalityType
  <2>3. CASE d = c
    <3>1. FreeNames(y.gl, d) = FreeNames(x.gl, d) \ {n}
      <4>1. b # None
        BY EngineAssumption
      <4> QED
        BY <1>6, <2>3, <4>1 DEF FreeNames
    <3>2. Rest(d, p + 2) = Rest(d, p + 1) \ {p + 1} /\ p + 1 \in Rest(d, p + 1)
      BY <1>1, <2>3 DEF c
    <3> HIDE DEF Rest
    <3>0. n \in FreeNames(x.gl, d)
      BY <1>4, <2>3
    <3>3. Cardinality(FreeNames(x.gl, d) \ {n}) = Cardinality(FreeNames(x.gl, d)) - 1
      BY <3>0, <2>2, FS_RemoveElement
    <3>4. Cardinality(Rest(d, p + 1) \ {p + 1}) = Cardinality(Rest(d, p + 1)) - 1
      BY <2>2, <3>2, FS_RemoveElement
    <3>5. \A i, j \in Nat : i >= j => i - 1 >= j - 1
      OBVIOUS
    <3> QED
      BY <2>1, <2>2, <3>1, <3>2, <3>3, <3>4, <3>5
  <2>4. CASE d # c
    <3>1. FreeNames(y.gl, d) = FreeNames(x.gl, d)
      BY <1>6, <2>4 DEF FreeNames
    <3>2. Rest(d, p + 2) = Rest(d, p + 1)
      BY <1>1, <2>4 DEF c
    <3> QED
      BY <2>1, <3>1, <3>2
  <2> QED
    BY <2>3, <2>4
<1> QED
  BY <1>11, <1>12 DEF y

\* All planes.
LEMMA AllPlanes ==
  ASSUME NEW k \in Kinds, NEW g \in GLs, NEW b \in Bufs, NamesFrom(g, k, 1)
  PROVE  \A p \in 0 .. Len(PlaneContexts[k]) :
           PlanesUpTo(g, k, b, p, SourcePlanes(g, k, b)[p])
<1> DEFINE made == SourcePlanes(g, k, b)
           planes == Len(PlaneContexts[k])
           Good == {p \in 0 .. planes : /\ PlanesUpTo(g, k, b, p, made[p])
                                        /\ NamesFrom(made[p].gl, k, p + 1)}
<1>1. planes \in Nat
  BY PlaneKinds
<1>2. 0 \in Good
  <2>1. made[0] = [gl |-> g, tex |-> <<>>]
    BY PlanesInTurn
  <2> HIDE DEF made
  <2>2. made[0].gl = g /\ made[0].tex = <<>>
    BY <2>1
  <2>3. made[0].tex \in Seq(Names) /\ Len(made[0].tex) = 0
    BY <2>2
  <2>4. PlanesUpTo(g, k, b, 0, made[0])
    BY <2>2, <2>3 DEF PlanesUpTo, GLs
  <2> QED
    BY <1>1, <2>2, <2>4
<1>3. ASSUME NEW p \in 0 .. planes - 1, p \in Good PROVE p + 1 \in Good
  <2>1. p + 1 \in 1 .. planes /\ (p + 1) - 1 = p /\ (p + 1) + 1 = p + 2
    BY <1>1
  <2>2. \A q \in 1 .. planes : made[q] = PlaneAdded(made[q - 1], k, b, q)
    BY PlanesInTurn
  <2>3. made[p + 1] = PlaneAdded(made[p], k, b, p + 1)
    <3> HIDE DEF made, planes
    <3> QED
      BY <2>1, <2>2
  <2>4. PlanesUpTo(g, k, b, p, made[p]) /\ NamesFrom(made[p].gl, k, p + 1)
    BY <1>3
  <2>5. /\ PlanesUpTo(g, k, b, p + 1, PlaneAdded(made[p], k, b, p + 1))
        /\ NamesFrom(PlaneAdded(made[p], k, b, p + 1).gl, k, p + 2)
    BY <2>4, OnePlane
  <2> HIDE DEF made
  <2> QED
    BY <1>1, <2>1, <2>3, <2>5
<1> HIDE DEF Good, planes
<1>4. 0 .. planes \subseteq Good
  BY <1>1, <1>2, <1>3, Upwards
<1> QED
  BY <1>4 DEF Good, planes

-----------------------------------------------------------------------------
(* The surface caches. *)

Caches == [Slots -> [key : Bufs \cup {None}, surf : Surface]]

\* A cache is filled from its first slot on, and a surface is of the buffer
\* that is entered with it.
Filled(cache) ==
  \A s \in Slots :
    /\ cache[s].key = None => \A t \in s .. maxInOutBufSize : cache[t] = EmptySlot
    /\ cache[s].surf # None => cache[s].surf.buf = cache[s].key

\* A cache as an open leaves it.
LEMMA EmptyCaches == EmptyCache \in Caches /\ Filled(EmptyCache)
<1>1. EmptySlot \in [key : Bufs \cup {None}, surf : Surface]
      /\ EmptySlot.key = None /\ EmptySlot.surf = None
  BY DEF EmptySlot, Surface
<1>2. \A s \in Slots : \A t \in s .. maxInOutBufSize : t \in Slots
  BY EngineAssumption DEF Slots
<1> QED
  BY <1>1, <1>2 DEF EmptyCache, Caches, Filled

\* The first of a set of slots.
LEMMA FirstSlot ==
  ASSUME NEW S \in SUBSET Slots, S # {}
  PROVE  First(S) \in S /\ \A t \in S : First(S) <= t
<1>1. S \in SUBSET Nat
  BY DEF Slots
<1>2. \E s \in S : \A t \in S : s <= t
  BY <1>1, Least
<1> QED
  BY <1>2, Zenon DEF First

\* A hit is the surface of a slot of that buffer.
LEMMA HitOfBuffer ==
  ASSUME NEW cache, NEW b, Hit(cache, b) # None
  PROVE  \E s \in Slots : cache[s].key = b /\ Hit(cache, b) = cache[s].surf
<1>1. SlotsOf(cache, b) # {} /\ SlotsOf(cache, b) \in SUBSET Slots
  BY DEF Hit, SlotsOf
<1>2. First(SlotsOf(cache, b)) \in SlotsOf(cache, b)
  BY <1>1, FirstSlot
<1>3. Hit(cache, b) = cache[First(SlotsOf(cache, b))].surf
  BY <1>1 DEF Hit
<1> QED
  BY <1>2, <1>3 DEF SlotsOf

\* new is cache with the surface x of b entered in its first free slot f.
EnteredAt(cache, b, x, new, f) ==
  /\ cache[f].key = None /\ \A s \in Slots : cache[s].key = None => f <= s
  /\ new \in Caches /\ new[f] = [key |-> b, surf |-> x]
  /\ \A s \in Slots : s # f => new[s] = cache[s]

\* A surface is entered in a slot that was free, unless the deinterlacer could
\* not make it; every other slot is kept.
LEMMA StoredInFree ==
  ASSUME NEW cache \in Caches, NEW k, NEW b \in Bufs, NEW x \in Surface,
         SlotsOf(cache, None) # {}
  PROVE  \/ Stored(cache, k, b, x) = cache /\ k = "deint" /\ x = None
         \/ /\ k # "deint" \/ x # None
            /\ \E f \in Slots : EnteredAt(cache, b, x, Stored(cache, k, b, x), f)
<1>1. CASE k = "deint" /\ x = None
  BY <1>1 DEF Stored
<1>2. CASE ~(k = "deint" /\ x = None)
  <2> PICK f : f = First(SlotsOf(cache, None))
    OBVIOUS
  <2>1. SlotsOf(cache, None) \in SUBSET Slots
    BY DEF SlotsOf
  <2>2. f \in SlotsOf(cache, None) /\ \A t \in SlotsOf(cache, None) : f <= t
    BY <2>1, FirstSlot
  <2>3. f \in Slots /\ cache[f].key = None /\ \A s \in Slots : cache[s].key = None => f <= s
    BY <2>2 DEF SlotsOf
  <2>4. Stored(cache, k, b, x) = [cache EXCEPT ![f] = [key |-> b, surf |-> x]]
    BY <1>2 DEF Stored
  <2>5. Stored(cache, k, b, x) \in Caches /\ Stored(cache, k, b, x)[f] = [key |-> b, surf |-> x]
        /\ \A s \in Slots : s # f => Stored(cache, k, b, x)[s] = cache[s]
    BY <2>3, <2>4 DEF Caches
  <2>6. EnteredAt(cache, b, x, Stored(cache, k, b, x), f)
    BY <2>3, <2>5 DEF EnteredAt
  <2> QED
    BY <1>2, <2>3, <2>6
<1> QED
  BY <1>1, <1>2

\* Entering a surface keeps the cache filled from the first slot on.
LEMMA StoredFilled ==
  ASSUME NEW cache \in Caches, Filled(cache), NEW k, NEW b \in Bufs, NEW x \in Surface,
         x # None => x.buf = b, SlotsOf(cache, None) # {}
  PROVE  Stored(cache, k, b, x) \in Caches /\ Filled(Stored(cache, k, b, x))
<1> DEFINE new == Stored(cache, k, b, x)
<1>0. new = cache \/ \E f \in Slots : EnteredAt(cache, b, x, new, f)
  BY StoredInFree
<1> SUFFICES new \in Caches /\ Filled(new)
  OBVIOUS
<1> HIDE DEF new
<1>1. CASE new = cache
  BY <1>1
<1>2. CASE \E f \in Slots : EnteredAt(cache, b, x, new, f)
  <2>0. PICK f \in Slots : EnteredAt(cache, b, x, new, f)
    BY <1>2
  <2>1. /\ cache[f].key = None /\ \A s \in Slots : cache[s].key = None => f <= s
        /\ new \in Caches
        /\ new[f] = [key |-> b, surf |-> x]
        /\ \A s \in Slots : s # f => new[s] = cache[s]
    BY <2>0 DEF EnteredAt
  <2>2. b # None
    BY EngineAssumption
  <2>3. new[f].key = b /\ new[f].surf = x
    BY <2>1
  <2>4. ASSUME NEW s \in Slots, new[s].key = None
        PROVE  \A t \in s .. maxInOutBufSize : new[t] = EmptySlot
    <3>1. s # f /\ new[s] = cache[s]
      BY <2>1, <2>2, <2>3, <2>4
    <3>2. f <= s /\ s \in Int /\ f \in Int
      BY <2>1, <2>4, <3>1 DEF Slots
    <3>3. \A t \in s .. maxInOutBufSize : t # f /\ t \in Slots
      BY EngineAssumption, <3>1, <3>2 DEF Slots
    <3>4. \A t \in s .. maxInOutBufSize : cache[t] = EmptySlot
      BY <2>4, <3>1 DEF Filled
    <3> QED
      BY <2>1, <3>3, <3>4
  <2>5. ASSUME NEW s \in Slots, new[s].surf # None
        PROVE  new[s].surf.buf = new[s].key
    <3>1. CASE s = f
      BY <2>3, <2>5, <3>1
    <3>2. CASE s # f
      BY <2>1, <2>5, <3>2 DEF Filled
    <3> QED
      BY <3>1, <3>2
  <2>6. Filled(new)
    BY <2>4, <2>5 DEF Filled
  <2> QED
    BY <2>1, <2>6
<1> QED
  BY <1>0, <1>1, <1>2

\* One of the surfaces that may be created was, or was not, and is entered.
Entered(r, k, cache, b, created) ==
  /\ Hit(cache, b) = None /\ SlotsOf(cache, None) # {}
  /\ \E m \in created :
       /\ r.cache = Stored(cache, k, b, m.surf)
       /\ r.surf = m.surf /\ r.gl = m.gl /\ r.failed = (m.surf = None)

\* The three outcomes of the loops that look for a buffer: it is found, the
\* cache is full, or a surface was made or not and entered.
LEMMA Found ==
  ASSUME NEW g, NEW k, NEW cache, NEW b, NEW created,
         NEW r \in FindOrCreate(g, k, cache, b, created)
  PROVE  \/ /\ Hit(cache, b) # None
            /\ r.cache = cache /\ r.surf = Hit(cache, b) /\ r.gl = g /\ r.failed = FALSE
         \/ /\ Hit(cache, b) = None /\ SlotsOf(cache, None) = {}
            /\ r.cache = cache /\ r.surf = None /\ r.gl = g /\ r.failed = FALSE
         \/ Entered(r, k, cache, b, created)
<1>1. CASE Hit(cache, b) # None
  BY <1>1 DEF FindOrCreate
<1>2. CASE Hit(cache, b) = None /\ SlotsOf(cache, None) = {}
  BY <1>2 DEF FindOrCreate
<1>3. CASE Hit(cache, b) = None /\ SlotsOf(cache, None) # {}
  <2>1. PICK m \in created :
          r = [cache |-> Stored(cache, k, b, m.surf), surf |-> m.surf, gl |-> m.gl,
               failed |-> m.surf = None]
    BY <1>3, Zenon DEF FindOrCreate
  <2>2. r.cache = Stored(cache, k, b, m.surf) /\ r.surf = m.surf /\ r.gl = m.gl
    BY <2>1
  <2>3. r.failed = (m.surf = None)
    BY <2>1, Zenon
  <2> QED
    BY <1>3, <2>2, <2>3, Zenon DEF Entered
<1> QED
  BY <1>1, <1>2, <1>3

-----------------------------------------------------------------------------
(* Making a surface. *)

\* A surface is not null, and keeps its buffer and its textures.
LEMMA SurfaceMade ==
  ASSUME NEW b \in Bufs, NEW t \in Seq(Names)
  PROVE  LET x == [buf |-> b, tex |-> t]
         IN  x \in Surface /\ x # None /\ x.buf = b /\ x.tex = t
<1>1. [buf |-> b, tex |-> t] \in [buf : Bufs, tex : Seq(Names)]
  OBVIOUS
<1>2. None \notin [buf : Bufs, tex : Seq(Names)]
  BY EngineAssumption
<1> QED
  BY <1>1, <1>2 DEF Surface

\* m is what a source of b can come to in g: x after p planes, and no surface
\* unless these are all.
SourceMade(g, k, b, m, p, x) ==
  /\ PlanesUpTo(g, k, b, p, x)
  /\ m.gl \in GLs /\ m.gl.textures = x.gl.textures
  /\ m.gl.sEGLContextRef = g.sEGLContextRef
  /\ m.gl.current = g.current \/ \E q \in 1 .. Len(PlaneContexts[k]) : m.gl.current = PlaneContexts[k][q]
  /\ \/ m.surf = None /\ k \in CreateFails
     \/ /\ p = Len(PlaneContexts[k]) /\ m.surf = [buf |-> b, tex |-> x.tex]
        /\ m.gl = x.gl

\* vrCreateXxxSource comes to nothing else, wherever it fails.
LEMMA SourceOutcomes ==
  ASSUME NEW k \in Kinds, NEW g \in GLs, NEW b \in Bufs, NamesFrom(g, k, 1),
         NEW m \in CreateSource(g, k, b)
  PROVE  \E p \in 0 .. Len(PlaneContexts[k]) :
           SourceMade(g, k, b, m, p, SourcePlanes(g, k, b)[p])
<1> PICK made : made = SourcePlanes(g, k, b)
  OBVIOUS
<1> PICK planes : planes = PlaneContexts[k]
  OBVIOUS
<1> PICK n : n = Len(planes)
  OBVIOUS
<1>1. n \in Nat \ {0} /\ \A q \in 1 .. n : planes[q] \in Contexts
  BY PlaneKinds
<1>2. \A p \in 0 .. n : PlanesUpTo(g, k, b, p, made[p])
  BY AllPlanes
<1>3. \A p \in 0 .. n :
        /\ made[p].gl \in GLs /\ made[p].gl.sEGLContextRef = g.sEGLContextRef
        /\ made[p].gl.current = IF p = 0 THEN g.current ELSE planes[p]
  BY <1>2 DEF PlanesUpTo
<1>4. \/ m = [surf |-> [buf |-> b, tex |-> made[n].tex], gl |-> made[n].gl]
      \/ k \in CreateFails /\ \E p \in 0 .. n - 1 : m = [surf |-> None, gl |-> made[p].gl]
      \/ k \in CreateFails /\ \E p \in 0 .. n - 1 :
           m = [surf |-> None, gl |-> [made[p].gl EXCEPT !.current = planes[p + 1]]]
  BY Zenon DEF CreateSource
<1>5. CASE m = [surf |-> [buf |-> b, tex |-> made[n].tex], gl |-> made[n].gl]
  <2>1. n \in 0 .. n /\ n \in 1 .. n
    BY <1>1
  <2>2. m.surf = [buf |-> b, tex |-> made[n].tex] /\ m.gl = made[n].gl
    BY <1>5
  <2>3. SourceMade(g, k, b, m, n, made[n])
    BY <1>1, <1>2, <1>3, <2>1, <2>2 DEF SourceMade
  <2> QED
    BY <2>1, <2>3
<1>6. CASE k \in CreateFails /\ \E p \in 0 .. n - 1 : m = [surf |-> None, gl |-> made[p].gl]
  <2>1. PICK p \in 0 .. n - 1 : m = [surf |-> None, gl |-> made[p].gl]
    BY <1>6
  <2>2. p \in 0 .. n /\ (p # 0 => p \in 1 .. n)
    BY <1>1
  <2>3. m.surf = None /\ m.gl = made[p].gl
    BY <2>1
  <2>4. SourceMade(g, k, b, m, p, made[p])
    BY <1>2, <1>3, <1>6, <2>2, <2>3 DEF SourceMade
  <2> QED
    BY <2>2, <2>4
<1>7. CASE k \in CreateFails /\ \E p \in 0 .. n - 1 :
             m = [surf |-> None, gl |-> [made[p].gl EXCEPT !.current = planes[p + 1]]]
  <2>1. PICK p \in 0 .. n - 1 :
          m = [surf |-> None, gl |-> [made[p].gl EXCEPT !.current = planes[p + 1]]]
    BY <1>7
  <2>2. p \in 0 .. n /\ p + 1 \in 1 .. n
    BY <1>1
  <2> PICK z : z = made[p].gl
    OBVIOUS
  <2>3. z \in GLs /\ z.sEGLContextRef = g.sEGLContextRef
    BY <1>3, <2>2
  <2>4. m.surf = None /\ m.gl = [z EXCEPT !.current = planes[p + 1]]
    BY <2>1
  <2>5. /\ m.gl \in GLs /\ m.gl.textures = z.textures /\ m.gl.sEGLContextRef = z.sEGLContextRef
        /\ m.gl.current = planes[p + 1]
    BY <1>1, <2>2, <2>3, <2>4 DEF GLs
  <2>6. SourceMade(g, k, b, m, p, made[p])
    BY <1>2, <1>7, <2>2, <2>3, <2>4, <2>5 DEF SourceMade
  <2> QED
    BY <2>2, <2>6
<1> QED
  BY <1>4, <1>5, <1>6, <1>7

\* Counting references changes nothing else.
LEMMA References ==
  ASSUME NEW g \in GLs, NEW cs
  PROVE  /\ Referenced(g, cs) \in GLs
         /\ Referenced(g, cs).textures = g.textures /\ Referenced(g, cs).current = g.current
         /\ \A c \in Contexts : Referenced(g, cs).sEGLContextRef[c] =
                                  g.sEGLContextRef[c] + IF c \in cs THEN 1 ELSE 0
<1> PICK r : r = [c \in Contexts |-> g.sEGLContextRef[c] + IF c \in cs THEN 1 ELSE 0]
  OBVIOUS
<1>1. g.sEGLContextRef \in [Contexts -> Int]
      /\ g = [textures |-> g.textures, current |-> g.current, sEGLContextRef |-> g.sEGLContextRef]
  BY DEF GLs
<1>2. r \in [Contexts -> Int]
      /\ \A c \in Contexts : r[c] = g.sEGLContextRef[c] + IF c \in cs THEN 1 ELSE 0
  BY <1>1
<1>3. Referenced(g, cs) = [g EXCEPT !.sEGLContextRef = r]
  BY Zenon DEF Referenced
<1>4. Referenced(g, cs) = [textures |-> g.textures, current |-> g.current, sEGLContextRef |-> r]
  BY <1>1, <1>3
<1> QED
  BY <1>2, <1>4 DEF GLs

\* What a target can come to: the torn YUV target leaves a reference behind.
TargetMade(g, k, b, m) ==
  \/ m.surf = None /\ k \in CreateFails /\ m.gl = g
  \/ m.surf = None /\ k \in CreateFails /\ k = "rgb2yuv" /\ m.gl = Referenced(g, {"uv"})
  \/ m.surf = [buf |-> b, tex |-> <<>>] /\ m.gl = Referenced(g, TargetContexts[k])

\* vrCreateXxxTarget comes to nothing else.
LEMMA TargetOutcomes ==
  ASSUME NEW k \in Kinds, NEW g, NEW b, NEW m \in CreateTarget(g, k, b)
  PROVE  TargetMade(g, k, b, m)
<1>1. \/ m = [surf |-> [buf |-> b, tex |-> <<>>], gl |-> Referenced(g, TargetContexts[k])]
      \/ k \in CreateFails /\ m = [surf |-> None, gl |-> g]
      \/ m \in Torn(g, k)
  BY DEF CreateTarget
<1>2. m \in Torn(g, k) =>
        k \in CreateFails /\ k = "rgb2yuv" /\ m = [surf |-> None, gl |-> Referenced(g, {"uv"})]
  BY DEF Torn
<1> QED
  BY <1>1, <1>2 DEF TargetMade

-----------------------------------------------------------------------------
(* A command on one cache. *)

\* The bound NamesLeft is about the names of every plane.
LEMMA NamesLeftFrom ==
  ASSUME NEW h, NEW i, kind[h] \in Kinds, NamesLeft(h, i)
  PROVE  Hit(ins[h], i) # None \/ SlotsOf(ins[h], None) = {} \/ NamesFrom(gl, kind[h], 1)
<1> PICK planes : planes = PlaneContexts[kind[h]]
  OBVIOUS
<1>1. planes \in Seq(Contexts) /\ DOMAIN planes = 1 .. Len(planes)
  BY PlaneKinds
<1>2. CASE \A c \in Contexts :
             Cardinality(FreeNames(gl, c)) >= Cardinality({p \in DOMAIN planes : planes[p] = c})
  BY <1>1, <1>2 DEF NamesFrom
<1>3. CASE Hit(ins[h], i) # None \/ SlotsOf(ins[h], None) = {}
  BY <1>3
<1> QED
  BY <1>2, <1>3, Zenon DEF NamesLeft

\* The surface of an input: the caches keep their shape, and no reference is
\* counted.
LEMMA InputFound ==
  ASSUME NEW k \in Kinds, NEW g \in GLs, NEW cache \in Caches, Filled(cache), NEW b \in Bufs,
         Hit(cache, b) # None \/ SlotsOf(cache, None) = {} \/ NamesFrom(g, k, 1),
         NEW r \in FindOrCreate(g, k, cache, b, CreateSource(g, k, b))
  PROVE  /\ r.cache \in Caches /\ Filled(r.cache)
         /\ r.gl \in GLs /\ r.gl.sEGLContextRef = g.sEGLContextRef
<1>1. CASE r.cache = cache /\ r.gl = g
  BY <1>1
<1>2. CASE Entered(r, k, cache, b, CreateSource(g, k, b))
  <2>0. SlotsOf(cache, None) # {} /\ Hit(cache, b) = None
    BY <1>2 DEF Entered
  <2>1. PICK m \in CreateSource(g, k, b) : r.cache = Stored(cache, k, b, m.surf) /\ r.gl = m.gl
    BY <1>2, Zenon DEF Entered
  <2>2. PICK p \in 0 .. Len(PlaneContexts[k]) : SourceMade(g, k, b, m, p, SourcePlanes(g, k, b)[p])
    BY <2>0, SourceOutcomes
  <2> PICK x : x = SourcePlanes(g, k, b)[p]
    OBVIOUS
  <2>3. /\ m.gl \in GLs /\ m.gl.sEGLContextRef = g.sEGLContextRef /\ x.tex \in Seq(Names)
        /\ m.surf = None \/ m.surf = [buf |-> b, tex |-> x.tex]
    BY <2>2 DEF SourceMade, PlanesUpTo
  <2>4. m.surf \in Surface /\ (m.surf # None => m.surf.buf = b)
    <3>1. CASE m.surf = None
      BY <3>1 DEF Surface
    <3>2. CASE m.surf = [buf |-> b, tex |-> x.tex]
      BY <2>3, <3>2, SurfaceMade
    <3> QED
      BY <2>3, <3>1, <3>2
  <2>5. Stored(cache, k, b, m.surf) \in Caches /\ Filled(Stored(cache, k, b, m.surf))
    BY <2>0, <2>4, StoredFilled
  <2> QED
    BY <2>1, <2>3, <2>5
<1>3. \/ r.cache = cache /\ r.gl = g
      \/ Entered(r, k, cache, b, CreateSource(g, k, b))
  BY Found
<1> QED
  BY <1>1, <1>2, <1>3

\* new has one surface more than cache, in slot f.
OneMore(cache, new, f) ==
  /\ cache[f].surf = None /\ new[f].surf # None
  /\ \A s \in Slots : s # f => (new[s].surf = None <=> cache[s].surf = None)

\* The surface of an output: the references go with the surfaces.
LEMMA OutputFound ==
  ASSUME NEW k \in Kinds, NEW g \in GLs, NEW cache \in Caches, Filled(cache), NEW b \in Bufs,
         NEW r \in FindOrCreate(g, k, cache, b, CreateTarget(g, k, b))
  PROVE  /\ r.cache \in Caches /\ Filled(r.cache)
         /\ r.gl \in GLs /\ r.gl.textures = g.textures /\ r.gl.current = g.current
         /\ \/ /\ \A s \in Slots : r.cache[s].surf = None <=> cache[s].surf = None
               /\ \/ r.gl = g
                  \/ k = "rgb2yuv" /\ r.gl = Referenced(g, {"uv"})
            \/ r.gl = Referenced(g, TargetContexts[k]) /\ \E f \in Slots : OneMore(cache, r.cache, f)
<1>1. CASE r.cache = cache /\ r.gl = g
  BY <1>1
<1>2. CASE Entered(r, k, cache, b, CreateTarget(g, k, b))
  <2>0. SlotsOf(cache, None) # {} /\ Hit(cache, b) = None
    BY <1>2 DEF Entered
  <2>1. PICK m \in CreateTarget(g, k, b) : r.cache = Stored(cache, k, b, m.surf) /\ r.gl = m.gl
    BY <1>2, Zenon DEF Entered
  <2>2. TargetMade(g, k, b, m)
    BY TargetOutcomes
  <2>3. <<>> \in Seq(Names)
    OBVIOUS
  <2>4. m.surf \in Surface /\ (m.surf # None => m.surf.buf = b)
        /\ (m.surf = [buf |-> b, tex |-> <<>>] => m.surf # None)
    <3>1. CASE m.surf = None
      BY <2>3, <3>1, SurfaceMade DEF Surface
    <3>2. CASE m.surf = [buf |-> b, tex |-> <<>>]
      <4>1. [buf |-> b, tex |-> <<>>] \in Surface /\ [buf |-> b, tex |-> <<>>] # None
            /\ [buf |-> b, tex |-> <<>>].buf = b
        BY <2>3, SurfaceMade
      <4> QED
        BY <3>2, <4>1
    <3> QED
      BY <2>2, <3>1, <3>2 DEF TargetMade
  <2> PICK x : x = m.surf
    OBVIOUS
  <2> PICK new : new = Stored(cache, k, b, x)
    OBVIOUS
  <2>5. new \in Caches /\ Filled(new)
    BY <2>0, <2>4, StoredFilled
  <2>6. /\ m.gl \in GLs /\ m.gl.textures = g.textures /\ m.gl.current = g.current
    <3>1. m.gl = g \/ \E cs : m.gl = Referenced(g, cs)
      BY <2>2 DEF TargetMade
    <3> QED
      BY <3>1, References
  <2>7. \/ new = cache /\ x = None
        \/ \E f \in Slots : EnteredAt(cache, b, x, new, f)
    BY <2>0, <2>4, StoredInFree
  <2>8. ASSUME x = None PROVE \A s \in Slots : new[s].surf = None <=> cache[s].surf = None
    <3>1. CASE new = cache
      BY <3>1
    <3>2. CASE \E f \in Slots : EnteredAt(cache, b, x, new, f)
      <4>1. PICK f \in Slots : EnteredAt(cache, b, x, new, f)
        BY <3>2
      <4>2. f \in f .. maxInOutBufSize
        BY DEF Slots
      <4>3. cache[f].surf = None
        BY <4>1, <4>2 DEF EnteredAt, Filled, EmptySlot
      <4>4. new[f].surf = None /\ \A s \in Slots : s # f => new[s] = cache[s]
        BY <2>8, <4>1 DEF EnteredAt
      <4> QED
        BY <4>3, <4>4
    <3> QED
      BY <2>7, <3>1, <3>2
  <2>9. ASSUME x # None PROVE \E f \in Slots : OneMore(cache, new, f)
    <3>1. PICK f \in Slots : EnteredAt(cache, b, x, new, f)
      BY <2>7, <2>9
    <3>2. f \in f .. maxInOutBufSize
      BY DEF Slots
    <3>3. cache[f].surf = None
      BY <3>1, <3>2 DEF EnteredAt, Filled, EmptySlot
    <3>4. new[f].surf = x /\ \A s \in Slots : s # f => new[s] = cache[s]
      BY <3>1 DEF EnteredAt
    <3>5. OneMore(cache, new, f)
      BY <2>9, <3>3, <3>4 DEF OneMore
    <3> QED
      BY <3>5
  <2>10. r.cache = new /\ r.gl = m.gl
    BY <2>1
  <2>11. \/ x = None /\ (m.gl = g \/ (k = "rgb2yuv" /\ m.gl = Referenced(g, {"uv"})))
         \/ x # None /\ m.gl = Referenced(g, TargetContexts[k])
    BY <2>2, <2>4 DEF TargetMade
  <2> QED
    BY <2>5, <2>6, <2>8, <2>9, <2>10, <2>11
<1>3. \/ r.cache = cache /\ r.gl = g
      \/ Entered(r, k, cache, b, CreateTarget(g, k, b))
  BY Found
<1> QED
  BY <1>1, <1>2, <1>3

-----------------------------------------------------------------------------
(* The inductive invariant. *)

Shapes ==
  /\ running \in BOOLEAN
  /\ kind \in [Handles -> Kinds \cup {None}]
  /\ ins \in [Handles -> Caches] /\ outs \in [Handles -> Caches]
  /\ gl \in GLs

\* Every cache is filled from its first slot on; those of a closed handle are
\* empty.
CachesInv ==
  \A h \in Handles :
    /\ Filled(ins[h]) /\ Filled(outs[h])
    /\ ~Open(h) => ins[h] = EmptyCache /\ outs[h] = EmptyCache

\* No handle is open while the service is down.
RunInv == ~running => Unused

\* One conjunct of ReferencesCounted, with the fact that makes the number of
\* targets mean something.
Counted(c) ==
  /\ IsFiniteSet(Targets(c))
  /\ \/ gl.sEGLContextRef[c] = Cardinality(Targets(c))
     \/ c = "uv" /\ gl.sEGLContextRef[c] > Cardinality(Targets(c))

CountInv == \A c \in Contexts : Counted(c)

EngineInv == Shapes /\ CachesInv /\ RunInv /\ CountInv

-----------------------------------------------------------------------------
(* What a command does. *)

\* The form the three outcomes of GTServiceXxxDo share.
Commanded(h, i, o) ==
  \E s \in InputSurface(h, i) :
    /\ ins' = [ins EXCEPT ![h] = s.cache]
    /\ \/ outs' = outs /\ gl' = s.gl
       \/ \E t \in OutputSurface(h, s, o) :
            /\ outs' = [outs EXCEPT ![h] = t.cache]
            /\ gl' = t.gl \/ gl' = Run(t.gl, kind[h])

\* Every outcome of a command has that form.
LEMMA CommandForm ==
  ASSUME NEW h, NEW i, NEW o, GTDo(h, i, o)
  PROVE  /\ Open(h) /\ NamesLeft(h, i) /\ running /\ running' = running /\ kind' = kind
         /\ Commanded(h, i, o)
<1>1. CASE InputNotMade(h, i, o)
  <2>1. \E s \in InputSurface(h, i) : ins' = [ins EXCEPT ![h] = s.cache] /\ gl' = s.gl /\ outs' = outs
    BY <1>1, Zenon DEF InputNotMade
  <2> QED
    BY <2>1, Zenon DEF Commanded, GTDo, Serving
<1>2. CASE Deinterlace(h, i, o)
  <2>1. PICK s \in InputSurface(h, i) : \E t \in OutputSurface(h, s, o) :
          /\ ins' = [ins EXCEPT ![h] = s.cache]
          /\ outs' = [outs EXCEPT ![h] = t.cache]
          /\ gl' = t.gl \/ gl' = Run(t.gl, "deint")
    BY <1>2, Zenon DEF Deinterlace
  <2>2. kind[h] = "deint"
    BY <1>2 DEF Deinterlace
  <2> QED
    BY <2>1, <2>2, Zenon DEF Commanded, GTDo, Serving
<1>3. CASE Convert(h, i, o)
  <2>1. PICK s \in InputSurface(h, i) : \E t \in OutputSurface(h, s, o) :
          /\ ins' = [ins EXCEPT ![h] = s.cache]
          /\ outs' = [outs EXCEPT ![h] = t.cache]
          /\ gl' = t.gl \/ gl' = Run(t.gl, kind[h])
    BY <1>3, Zenon DEF Convert
  <2> QED
    BY <2>1, Zenon DEF Commanded, GTDo, Serving
<1> QED
  BY <1>1, <1>2, <1>3 DEF GTDo

\* Running an engine leaves one of its contexts current.
LEMMA RunChanges ==
  ASSUME NEW g \in GLs, NEW k \in Kinds
  PROVE  /\ Run(g, k) \in GLs /\ Run(g, k).textures = g.textures
         /\ Run(g, k).sEGLContextRef = g.sEGLContextRef
         /\ \E q \in 1 .. Len(PlaneContexts[k]) : Run(g, k).current = PlaneContexts[k][q]
<1> PICK c : c = LastOf(PlaneContexts[k])
  OBVIOUS
<1>1. /\ Len(PlaneContexts[k]) \in 1 .. Len(PlaneContexts[k])
      /\ PlaneContexts[k][Len(PlaneContexts[k])] \in Contexts
  BY PlaneKinds
<1>2. c = PlaneContexts[k][Len(PlaneContexts[k])]
  BY DEF LastOf
<1>3. Run(g, k) = [g EXCEPT !.current = c]
  BY DEF Run
<1>4. Run(g, k) = [textures |-> g.textures, current |-> c, sEGLContextRef |-> g.sEGLContextRef]
  BY <1>3 DEF GLs
<1> QED
  BY <1>1, <1>2, <1>4 DEF GLs

\* What a command does to the references: none is counted, but for the torn
\* YUV target; or a target was made and is counted in each of its contexts.
NoTarget(h) ==
  /\ \A s \in Slots : outs'[h][s].surf = None <=> outs[h][s].surf = None
  /\ \/ gl'.sEGLContextRef = gl.sEGLContextRef
     \/ \A c \in Contexts :
          gl'.sEGLContextRef[c] = gl.sEGLContextRef[c] + IF c = "uv" THEN 1 ELSE 0

NewTarget(h) ==
  /\ \E f \in Slots : OneMore(outs[h], outs'[h], f)
  /\ \A c \in Contexts :
       gl'.sEGLContextRef[c] =
         gl.sEGLContextRef[c] + IF c \in TargetContexts[kind[h]] THEN 1 ELSE 0

\* A command keeps the shape of the caches, leaves the other handles alone,
\* and counts what it makes.
LEMMA CommandEffect ==
  ASSUME Shapes, CachesInv, NEW h \in Handles, NEW i \in Inputs, NEW o \in Outputs, GTDo(h, i, o)
  PROVE  /\ Shapes' /\ \A x \in Handles : Filled(ins'[x]) /\ Filled(outs'[x])
         /\ \A x \in Handles : x # h => ins'[x] = ins[x] /\ outs'[x] = outs[x]
         /\ NoTarget(h) \/ NewTarget(h)
<1>1. /\ Open(h) /\ NamesLeft(h, i) /\ running' = running /\ kind' = kind
      /\ Commanded(h, i, o)
  BY CommandForm
<1>2. kind[h] \in Kinds /\ i \in Bufs /\ o \in Bufs
  BY <1>1 DEF Shapes, Open, Bufs
<1>3. /\ ins[h] \in Caches /\ outs[h] \in Caches /\ gl \in GLs
      /\ Filled(ins[h]) /\ Filled(outs[h])
  BY DEF Shapes, CachesInv
<1>4. PICK s \in InputSurface(h, i) :
        /\ ins' = [ins EXCEPT ![h] = s.cache]
        /\ \/ outs' = outs /\ gl' = s.gl
           \/ \E t \in OutputSurface(h, s, o) :
                /\ outs' = [outs EXCEPT ![h] = t.cache]
                /\ gl' = t.gl \/ gl' = Run(t.gl, kind[h])
  BY <1>1, Zenon DEF Commanded
<1>5. /\ s.cache \in Caches /\ Filled(s.cache)
      /\ s.gl \in GLs /\ s.gl.sEGLContextRef = gl.sEGLContextRef
  <2>1. Hit(ins[h], i) # None \/ SlotsOf(ins[h], None) = {} \/ NamesFrom(gl, kind[h], 1)
    BY <1>1, <1>2, NamesLeftFrom
  <2> QED
    BY <1>2, <1>3, <2>1, InputFound DEF InputSurface
<1>6. ins' \in [Handles -> Caches] /\ (\A x \in Handles : Filled(ins'[x]))
      /\ \A x \in Handles : x # h => ins'[x] = ins[x]
  BY <1>4, <1>5 DEF Shapes, CachesInv
<1>7. CASE outs' = outs /\ gl' = s.gl
  <2>1. NoTarget(h)
    BY <1>5, <1>7 DEF NoTarget
  <2> QED
    BY <1>1, <1>5, <1>6, <1>7, <2>1 DEF Shapes, CachesInv
<1>8. CASE \E t \in OutputSurface(h, s, o) :
             /\ outs' = [outs EXCEPT ![h] = t.cache]
             /\ gl' = t.gl \/ gl' = Run(t.gl, kind[h])
  <2>1. PICK t \in OutputSurface(h, s, o) :
          /\ outs' = [outs EXCEPT ![h] = t.cache]
          /\ gl' = t.gl \/ gl' = Run(t.gl, kind[h])
    BY <1>8
  <2>2. /\ t.cache \in Caches /\ Filled(t.cache) /\ t.gl \in GLs
        /\ \/ /\ \A q \in Slots : t.cache[q].surf = None <=> outs[h][q].surf = None
              /\ \/ t.gl = s.gl
                 \/ kind[h] = "rgb2yuv" /\ t.gl = Referenced(s.gl, {"uv"})
           \/ /\ t.gl = Referenced(s.gl, TargetContexts[kind[h]])
              /\ \E f \in Slots : OneMore(outs[h], t.cache, f)
    BY <1>2, <1>3, <1>5, OutputFound DEF OutputSurface
  <2>3. gl' \in GLs /\ gl'.sEGLContextRef = t.gl.sEGLContextRef
    BY <1>2, <2>1, <2>2, RunChanges
  <2>4. outs' \in [Handles -> Caches] /\ (\A x \in Handles : Filled(outs'[x]))
        /\ (\A x \in Handles : x # h => outs'[x] = outs[x]) /\ outs'[h] = t.cache
    BY <2>1, <2>2 DEF Shapes, CachesInv
  <2>5. NoTarget(h) \/ NewTarget(h)
    <3>1. CASE /\ \A q \in Slots : t.cache[q].surf = None <=> outs[h][q].surf = None
               /\ t.gl = s.gl
      BY <1>5, <2>3, <2>4, <3>1 DEF NoTarget
    <3>2. CASE /\ \A q \in Slots : t.cache[q].surf = None <=> outs[h][q].surf = None
               /\ t.gl = Referenced(s.gl, {"uv"})
      <4>1. \A c \in Contexts :
              gl'.sEGLContextRef[c] = gl.sEGLContextRef[c] + IF c = "uv" THEN 1 ELSE 0
        BY <1>5, <2>3, <3>2, References
      <4> QED
        BY <2>4, <3>2, <4>1 DEF NoTarget
    <3>3. CASE /\ t.gl = Referenced(s.gl, TargetContexts[kind[h]])
               /\ \E f \in Slots : OneMore(outs[h], t.cache, f)
      <4>1. \A c \in Contexts :
              gl'.sEGLContextRef[c] =
                gl.sEGLContextRef[c] + IF c \in TargetContexts[kind[h]] THEN 1 ELSE 0
        BY <1>5, <2>3, <3>3, References
      <4> QED
        BY <2>4, <3>3, <4>1 DEF NewTarget
    <3> QED
      BY <2>2, <3>1, <3>2, <3>3
  <2> QED
    BY <1>1, <1>6, <2>3, <2>4, <2>5 DEF Shapes
<1> QED
  BY <1>4, <1>7, <1>8

-----------------------------------------------------------------------------
(* The start, and destroying surfaces. *)

\* vrInitializeGLSurface: no reference, and the reference texture.
LEMMA InitializedContexts ==
  /\ Initialized \in GLs /\ \A c \in Contexts : Initialized.sEGLContextRef[c] = 0
  /\ Initialized.textures["deint"][1] = Ref
<1>1. "rgba" \in Contexts /\ "deint" \in Contexts /\ 1 \in Names
  BY EngineAssumption DEF Contexts, Names
<1>2. NoTextures \in [Names -> Bufs \cup {None, Ref}]
  BY DEF NoTextures
<1> PICK d : d = [NoTextures EXCEPT ![1] = Ref]
  OBVIOUS
<1>3. d \in [Names -> Bufs \cup {None, Ref}] /\ d[1] = Ref
  BY <1>1, <1>2
<1> PICK t : t = [c \in Contexts |-> IF c = "deint" THEN d ELSE NoTextures]
  OBVIOUS
<1> PICK r : r = [c \in Contexts |-> 0]
  OBVIOUS
<1>4. t \in [Contexts -> [Names -> Bufs \cup {None, Ref}]] /\ t["deint"] = d
      /\ r \in [Contexts -> Int] /\ \A c \in Contexts : r[c] = 0
  BY <1>1, <1>2, <1>3
<1>5. Initialized = [textures |-> t, current |-> "rgba", sEGLContextRef |-> r]
  BY Zenon DEF Initialized
<1> QED
  BY <1>1, <1>3, <1>4, <1>5 DEF GLs

\* glDeleteTextures works on the names of the context that is current.
NamesOf(cache) == UNION {{x.tex[p] : p \in DOMAIN x.tex} : x \in Surfaces(cache)}

\* Destroying the sources of a handle changes nothing in another context.
LEMMA SourcesDestroyed ==
  ASSUME NEW g \in GLs, NEW cache
  PROVE  /\ DestroySources(g, cache) \in GLs
         /\ DestroySources(g, cache).current = g.current
         /\ DestroySources(g, cache).sEGLContextRef = g.sEGLContextRef
         /\ \A c \in Contexts, n \in Names :
              DestroySources(g, cache).textures[c][n] =
                IF c = g.current /\ n \in NamesOf(cache) THEN None ELSE g.textures[c][n]
<1> PICK names : names = NamesOf(cache)
  OBVIOUS
<1>1. g = [textures |-> g.textures, current |-> g.current, sEGLContextRef |-> g.sEGLContextRef]
      /\ g.textures \in [Contexts -> [Names -> Bufs \cup {None, Ref}]] /\ g.current \in Contexts
      /\ g.sEGLContextRef \in [Contexts -> Int]
  BY DEF GLs
<1> PICK row : row = [n \in Names |-> IF n \in names THEN None ELSE g.textures[g.current][n]]
  OBVIOUS
<1> PICK t : t = [g.textures EXCEPT ![g.current] = row]
  OBVIOUS
<1>2. row \in [Names -> Bufs \cup {None, Ref}]
      /\ \A n \in Names : row[n] = IF n \in names THEN None ELSE g.textures[g.current][n]
  BY <1>1
<1>3. t \in [Contexts -> [Names -> Bufs \cup {None, Ref}]]
      /\ \A c \in Contexts, n \in Names :
           t[c][n] = IF c = g.current /\ n \in names THEN None ELSE g.textures[c][n]
  BY <1>1, <1>2
<1>4. DestroySources(g, cache) = [g EXCEPT !.textures[g.current] = row]
  BY Zenon DEF DestroySources, NamesOf
<1>5. DestroySources(g, cache) =
        [textures |-> t, current |-> g.current, sEGLContextRef |-> g.sEGLContextRef]
  BY <1>1, <1>4
<1> QED
  BY <1>1, <1>3, <1>5 DEF GLs

TargetSlots(cache) == {s \in Slots : cache[s].surf # None}

\* Destroying the targets of a handle takes one reference for each.
LEMMA TargetsDestroyed ==
  ASSUME NEW g \in GLs, NEW k, NEW cache
  PROVE  /\ DestroyTargets(g, k, cache) \in GLs
         /\ DestroyTargets(g, k, cache).current = g.current
         /\ DestroyTargets(g, k, cache).textures = g.textures
         /\ \A c \in Contexts :
              DestroyTargets(g, k, cache).sEGLContextRef[c] =
                IF c \in TargetContexts[k] THEN g.sEGLContextRef[c] - Cardinality(TargetSlots(cache))
                                           ELSE g.sEGLContextRef[c]
<1> PICK n : n = Cardinality(TargetSlots(cache))
  OBVIOUS
<1>0. IsFiniteSet(TargetSlots(cache)) /\ n \in Nat
  <2>1. 1 \in Int /\ maxInOutBufSize \in Int
    BY EngineAssumption
  <2>2. IsFiniteSet(Slots)
    BY <2>1, FS_Interval DEF Slots
  <2>3. TargetSlots(cache) \in SUBSET Slots
    BY DEF TargetSlots
  <2>4. IsFiniteSet(TargetSlots(cache))
    BY <2>2, <2>3, FS_Subset
  <2> QED
    BY <2>4, FS_CardinalityType
<1>1. g = [textures |-> g.textures, current |-> g.current, sEGLContextRef |-> g.sEGLContextRef]
      /\ g.sEGLContextRef \in [Contexts -> Int]
  BY DEF GLs
<1> PICK r : r = [c \in Contexts |-> IF c \in TargetContexts[k] THEN g.sEGLContextRef[c] - n
                                                                ELSE g.sEGLContextRef[c]]
  OBVIOUS
<1>2. r \in [Contexts -> Int]
      /\ \A c \in Contexts : r[c] = IF c \in TargetContexts[k] THEN g.sEGLContextRef[c] - n
                                                               ELSE g.sEGLContextRef[c]
  BY <1>0, <1>1
<1>3. DestroyTargets(g, k, cache) = [g EXCEPT !.sEGLContextRef = r]
  BY Zenon DEF DestroyTargets, TargetSlots
<1>4. DestroyTargets(g, k, cache) =
        [textures |-> g.textures, current |-> g.current, sEGLContextRef |-> r]
  BY <1>1, <1>3
<1> QED
  BY <1>2, <1>4 DEF GLs

-----------------------------------------------------------------------------
(* Steps on the references. *)

\* With no handle open no target is left.
LEMMA NoTargets ==
  ASSUME Unused, NEW c
  PROVE  Targets(c) = {} /\ IsFiniteSet(Targets(c)) /\ Cardinality(Targets(c)) = 0
<1>1. Targets(c) = {}
  BY DEF Targets, Unused
<1> QED
  BY <1>1, FS_EmptySet

\* The service starts or stops: no target, no reference.
LEMMA FreshCount ==
  ASSUME Unused', gl' = Initialized
  PROVE  CountInv'
<1> SUFFICES ASSUME NEW c \in Contexts PROVE Counted(c)'
  BY DEF CountInv
<1>1. Targets(c)' = {}
  BY DEF Targets, Unused
<1>2. IsFiniteSet(Targets(c)') /\ Cardinality(Targets(c)') = 0
  BY <1>1, FS_EmptySet
<1>3. gl'.sEGLContextRef[c] = 0
  BY InitializedContexts
<1> QED
  BY <1>2, <1>3 DEF Counted

\* A step that leaves targets and references alone.
LEMMA SameCount ==
  ASSUME CountInv, gl'.sEGLContextRef = gl.sEGLContextRef,
         \A c \in Contexts : Targets(c)' = Targets(c)
  PROVE  CountInv'
BY DEF CountInv, Counted

\* An open handle has no target yet.
LEMMA OpenCount ==
  ASSUME Shapes, CachesInv, CountInv, NEW h \in Handles, NEW k \in Kinds, GTOpen(h, k)
  PROVE  CountInv'
<1>1. /\ kind' = [kind EXCEPT ![h] = k] /\ outs' = [outs EXCEPT ![h] = EmptyCache]
      /\ gl' = gl /\ ~Open(h)
  BY DEF GTOpen
<1>2. /\ kind'[h] = k /\ outs'[h] = EmptyCache
      /\ \A x \in Handles : x # h => kind'[x] = kind[x] /\ outs'[x] = outs[x]
  BY <1>1 DEF Shapes
<1>3. \A s \in Slots : EmptyCache[s].surf = None
  BY DEF EmptyCache, EmptySlot
<1>4. ASSUME NEW c \in Contexts PROVE Targets(c)' = Targets(c)
  <2>1. \A t \in Handles \X Slots : t \in Targets(c)' <=> t \in Targets(c)
    <3>1. ASSUME NEW t \in Handles \X Slots, t[1] = h
          PROVE  t \notin Targets(c)' /\ t \notin Targets(c)
      BY <1>1, <1>2, <1>3, <3>1 DEF Targets
    <3>2. ASSUME NEW t \in Handles \X Slots, t[1] # h
          PROVE  t \in Targets(c)' <=> t \in Targets(c)
      BY <1>2, <3>2 DEF Targets, Open
    <3> QED
      BY <3>1, <3>2
  <2>2. Targets(c)' \subseteq Handles \X Slots /\ Targets(c) \subseteq Handles \X Slots
    BY DEF Targets
  <2> QED
    BY <2>1, <2>2
<1> QED
  BY <1>1, <1>4, SameCount

\* A command: the target it makes is counted.
LEMMA DoCount ==
  ASSUME Shapes, CachesInv, CountInv,
         NEW h \in Handles, NEW i \in Inputs, NEW o \in Outputs, GTDo(h, i, o)
  PROVE  CountInv'
<1>1. /\ kind' = kind /\ Open(h)
      /\ \A x \in Handles : x # h => outs'[x] = outs[x]
      /\ NoTarget(h) \/ NewTarget(h)
  BY CommandForm, CommandEffect
<1>2. \A c : Targets(c) \subseteq Handles \X Slots /\ Targets(c)' \subseteq Handles \X Slots
  BY DEF Targets
<1>3. CASE NoTarget(h)
  <2>1. \A c \in Contexts : Targets(c)' = Targets(c)
    <3>1. ASSUME NEW c \in Contexts, NEW t \in Handles \X Slots
          PROVE  t \in Targets(c)' <=> t \in Targets(c)
      <4>1. t[1] \in Handles /\ t[2] \in Slots
        OBVIOUS
      <4>2. outs'[t[1]][t[2]].surf = None <=> outs[t[1]][t[2]].surf = None
        BY <1>1, <1>3, <4>1 DEF NoTarget
      <4> QED
        BY <1>1, <4>2 DEF Targets, Open
    <3> QED
      BY <1>2, <3>1
  <2>2. ASSUME NEW c \in Contexts
        PROVE  \/ gl'.sEGLContextRef[c] = gl.sEGLContextRef[c]
               \/ c = "uv" /\ gl'.sEGLContextRef[c] = gl.sEGLContextRef[c] + 1
    <3>1. gl.sEGLContextRef[c] \in Int
      BY DEF Shapes, GLs
    <3>2. CASE gl'.sEGLContextRef = gl.sEGLContextRef
      BY <3>2
    <3>3. CASE \A d \in Contexts :
                 gl'.sEGLContextRef[d] = gl.sEGLContextRef[d] + IF d = "uv" THEN 1 ELSE 0
      <4>1. gl'.sEGLContextRef[c] = gl.sEGLContextRef[c] + IF c = "uv" THEN 1 ELSE 0
        BY <3>3
      <4>2. CASE c = "uv"
        BY <3>3, <4>1, <4>2
      <4>3. CASE c # "uv"
        BY <3>1, <4>1, <4>3
      <4> QED
        BY <4>2, <4>3
    <3> QED
      BY <1>3, <3>2, <3>3 DEF NoTarget
  <2>3. ASSUME NEW c \in Contexts PROVE Counted(c)'
    <3>1. IsFiniteSet(Targets(c)) /\ Cardinality(Targets(c)) \in Nat
      BY FS_CardinalityType DEF CountInv, Counted
    <3>2. gl.sEGLContextRef[c] \in Int
      BY DEF Shapes, GLs
    <3> QED
      BY <2>1, <2>2, <3>1, <3>2 DEF CountInv, Counted
  <2> QED
    BY <2>3 DEF CountInv
<1>4. CASE NewTarget(h)
  <2>1. PICK f \in Slots : OneMore(outs[h], outs'[h], f)
    BY <1>4 DEF NewTarget
  <2>2. ASSUME NEW c \in Contexts, NEW t \in Handles \X Slots
        PROVE  t \in Targets(c)' <=> \/ t \in Targets(c)
                                     \/ t = <<h, f>> /\ c \in TargetContexts[kind[h]]
    <3>1. t[1] \in Handles /\ t[2] \in Slots /\ t = <<t[1], t[2]>>
      OBVIOUS
    <3>2. CASE t = <<h, f>>
      <4>1. outs'[t[1]][t[2]].surf # None
        BY <2>1, <3>2 DEF OneMore
      <4>2. t \in Targets(c)' <=> c \in TargetContexts[kind[h]]
        BY <1>1, <3>2, <4>1 DEF Targets, Open
      <4>3. t \notin Targets(c)
        BY <2>1, <3>2 DEF OneMore, Targets
      <4> QED
        BY <3>2, <4>2, <4>3
    <3>3. CASE t # <<h, f>>
      <4>1. outs'[t[1]][t[2]].surf = None <=> outs[t[1]][t[2]].surf = None
        <5>1. CASE t[1] = h
          BY <2>1, <3>1, <3>3, <5>1 DEF OneMore
        <5>2. CASE t[1] # h
          BY <1>1, <3>1, <5>2
        <5> QED
          BY <5>1, <5>2
      <4> QED
        BY <1>1, <3>3, <4>1 DEF Targets, Open
    <3> QED
      BY <3>2, <3>3
  <2>3. <<h, f>> \in Handles \X Slots
    OBVIOUS
  <2>4. ASSUME NEW c \in Contexts PROVE Counted(c)'
    <3>1. IsFiniteSet(Targets(c)) /\ Cardinality(Targets(c)) \in Nat
      BY FS_CardinalityType DEF CountInv, Counted
    <3>2. gl.sEGLContextRef[c] \in Int
      BY DEF Shapes, GLs
    <3>3. CASE c \in TargetContexts[kind[h]]
      <4>1. Targets(c)' = Targets(c) \cup {<<h, f>>}
        BY <1>2, <2>2, <2>3, <3>3
      <4>2. <<h, f>> \notin Targets(c)
        BY <2>1 DEF OneMore, Targets
      <4>3. IsFiniteSet(Targets(c)') /\ Cardinality(Targets(c)') = Cardinality(Targets(c)) + 1
        BY <3>1, <4>1, <4>2, FS_AddElement
      <4>4. gl'.sEGLContextRef[c] = gl.sEGLContextRef[c] + 1
        BY <1>4, <3>3 DEF NewTarget
      <4> QED
        BY <3>1, <3>2, <4>3, <4>4 DEF CountInv, Counted
    <3>4. CASE c \notin TargetContexts[kind[h]]
      <4>1. Targets(c)' = Targets(c)
        BY <1>2, <2>2, <3>4
      <4>2. gl'.sEGLContextRef[c] = gl.sEGLContextRef[c]
        BY <1>4, <3>2, <3>4 DEF NewTarget
      <4> QED
        BY <4>1, <4>2 DEF CountInv, Counted
    <3> QED
      BY <3>3, <3>4
  <2> QED
    BY <2>4 DEF CountInv
<1> QED
  BY <1>1, <1>3, <1>4

\* A close: the targets of the handle go, each with its reference.
LEMMA CloseCount ==
  ASSUME Shapes, CachesInv, CountInv, NEW h \in Handles, GTClose(h)
  PROVE  CountInv' /\ gl' \in GLs
<1>1. /\ kind' = [kind EXCEPT ![h] = None] /\ outs' = [outs EXCEPT ![h] = EmptyCache]
      /\ gl' = DestroyTargets(DestroySources(gl, ins[h]), kind[h], outs[h]) /\ Open(h)
  BY DEF GTClose
<1>2. /\ kind'[h] = None
      /\ \A x \in Handles : x # h => kind'[x] = kind[x] /\ outs'[x] = outs[x]
  BY <1>1 DEF Shapes
<1> PICK g : g = DestroySources(gl, ins[h])
  OBVIOUS
<1> PICK S : S = TargetSlots(outs[h])
  OBVIOUS
<1>3. g \in GLs /\ g.sEGLContextRef = gl.sEGLContextRef
  BY SourcesDestroyed DEF Shapes
<1>4. /\ gl' \in GLs
      /\ \A c \in Contexts :
           gl'.sEGLContextRef[c] = IF c \in TargetContexts[kind[h]]
                                   THEN gl.sEGLContextRef[c] - Cardinality(S)
                                   ELSE gl.sEGLContextRef[c]
  <2>1. gl' = DestroyTargets(g, kind[h], outs[h])
    BY <1>1
  <2> QED
    BY <1>3, <2>1, TargetsDestroyed
<1>5. \A c : Targets(c) \subseteq Handles \X Slots /\ Targets(c)' \subseteq Handles \X Slots
  BY DEF Targets
<1>6. ASSUME NEW c \in Contexts, NEW t \in Handles \X Slots
      PROVE  /\ t \in Targets(c)' <=> t \in Targets(c) /\ t[1] # h
             /\ t[1] = h => (t \in Targets(c) <=> c \in TargetContexts[kind[h]] /\ t[2] \in S)
  BY <1>1, <1>2 DEF Targets, Open, TargetSlots
<1>7. ASSUME NEW c \in Contexts PROVE Counted(c)'
  <2>1. IsFiniteSet(Targets(c)) /\ Cardinality(Targets(c)) \in Nat
    BY FS_CardinalityType DEF CountInv, Counted
  <2>2. gl.sEGLContextRef[c] \in Int
    BY DEF Shapes, GLs
  <2>3. CASE c \in TargetContexts[kind[h]]
    <3> DEFINE gone == {h} \X S
    <3>0. gone \subseteq Handles \X Slots
      BY DEF TargetSlots
    <3>1. Targets(c)' = Targets(c) \ gone /\ gone \subseteq Targets(c)
      <4>1. \A t \in Handles \X Slots : t \in gone <=> t[1] = h /\ t[2] \in S
        OBVIOUS
      <4> HIDE DEF gone
      <4> QED
        BY <1>5, <1>6, <2>3, <3>0, <4>1
    <3>2. IsFiniteSet(S)
      <4>1. 1 \in Int /\ maxInOutBufSize \in Int
        BY EngineAssumption
      <4>2. IsFiniteSet(Slots)
        BY <4>1, FS_Interval DEF Slots
      <4>3. S \in SUBSET Slots
        BY DEF TargetSlots
      <4> QED
        BY <4>2, <4>3, FS_Subset
    <3>3. Cardinality(gone) = Cardinality(S)
      <4>1. IsFiniteSet({h}) /\ Cardinality({h}) = 1 /\ Cardinality(S) \in Nat
        BY <3>2, FS_Singleton, FS_CardinalityType
      <4>2. Cardinality(gone) = Cardinality({h}) * Cardinality(S)
        BY <3>2, <4>1, FS_Product
      <4> QED
        BY <4>1, <4>2
    <3> HIDE DEF gone
    <3>4. Targets(c) \cap gone = gone
      BY <3>1
    <3>5. /\ IsFiniteSet(Targets(c)')
          /\ Cardinality(Targets(c)') = Cardinality(Targets(c)) - Cardinality(S)
      <4>1. /\ IsFiniteSet(Targets(c) \ gone)
            /\ Cardinality(Targets(c) \ gone) =
                 Cardinality(Targets(c)) - Cardinality(Targets(c) \cap gone)
        BY <2>1, FS_Difference
      <4> QED
        BY <3>1, <3>3, <3>4, <4>1
    <3>6. Cardinality(S) \in Nat
      BY <3>2, FS_CardinalityType
    <3>7. gl'.sEGLContextRef[c] = gl.sEGLContextRef[c] - Cardinality(S)
      BY <1>4, <2>3
    <3> QED
      BY <2>1, <2>2, <3>5, <3>6, <3>7 DEF CountInv, Counted
  <2>4. CASE c \notin TargetContexts[kind[h]]
    <3>1. Targets(c)' = Targets(c)
      BY <1>5, <1>6, <2>4
    <3>2. gl'.sEGLContextRef[c] = gl.sEGLContextRef[c]
      BY <1>4, <2>4
    <3> QED
      BY <3>1, <3>2 DEF CountInv, Counted
  <2> QED
    BY <2>3, <2>4
<1> QED
  BY <1>4, <1>7 DEF CountInv

-----------------------------------------------------------------------------
(* Theorems. *)

\* The program starts with every cache empty and no reference.
LEMMA InvariantInit ==
  ASSUME Init
  PROVE  EngineInv
<1>1. EmptyCache \in Caches /\ Filled(EmptyCache)
  BY EmptyCaches
<1>2. Shapes
  BY <1>1, InitializedContexts DEF Init, Shapes
<1>3. CachesInv
  BY <1>1 DEF Init, CachesInv
<1>4. Unused /\ RunInv
  BY DEF Init, RunInv, Unused, Open
<1>5. CountInv
  <2> SUFFICES ASSUME NEW c \in Contexts PROVE Counted(c)
    BY DEF CountInv
  <2>1. IsFiniteSet(Targets(c)) /\ Cardinality(Targets(c)) = 0
    BY <1>4, NoTargets
  <2>2. gl.sEGLContextRef[c] = 0
    BY InitializedContexts DEF Init
  <2> QED
    BY <2>1, <2>2 DEF Counted
<1> QED
  BY <1>2, <1>3, <1>4, <1>5 DEF EngineInv

\* One step per action; the references are the work of the lemmas above.
LEMMA InvariantStep ==
  ASSUME EngineInv, [Next]_vars
  PROVE  EngineInv'
<1>0. /\ Shapes /\ CachesInv /\ RunInv /\ CountInv
      /\ EmptyCache \in Caches /\ Filled(EmptyCache)
  BY EmptyCaches DEF EngineInv
<1>1. CASE Start
  <2>1. Unused'
    BY <1>0, <1>1 DEF Start, RunInv, Unused, Open
  <2>2. CountInv'
    BY <1>1, <2>1, FreshCount DEF Start
  <2>3. Shapes'
    BY <1>0, <1>1, InitializedContexts DEF Start, Shapes
  <2>4. CachesInv'
    BY <1>0, <1>1 DEF Start, CachesInv, Open
  <2> QED
    BY <2>1, <2>2, <2>3, <2>4 DEF EngineInv, RunInv
<1>2. ASSUME NEW h \in Handles, NEW k \in Kinds, GTOpen(h, k)
      PROVE  EngineInv'
  <2>1. CountInv'
    BY <1>0, <1>2, OpenCount
  <2>2. Shapes'
    BY <1>0, <1>2 DEF GTOpen, Shapes
  <2>3. CachesInv'
    BY <1>0, <1>2 DEF GTOpen, Shapes, CachesInv, Open
  <2>4. RunInv'
    BY <1>2 DEF GTOpen, RunInv, Serving
  <2> QED
    BY <2>1, <2>2, <2>3, <2>4 DEF EngineInv
<1>3. ASSUME NEW h \in Handles, NEW i \in Inputs, NEW o \in Outputs, GTDo(h, i, o)
      PROVE  EngineInv'
  <2>1. CountInv'
    BY <1>0, <1>3, DoCount
  <2>2. /\ Open(h) /\ running /\ running' = running /\ kind' = kind
    BY <1>3, CommandForm
  <2>3. /\ Shapes' /\ \A x \in Handles : Filled(ins'[x]) /\ Filled(outs'[x])
        /\ \A x \in Handles : x # h => ins'[x] = ins[x] /\ outs'[x] = outs[x]
    BY <1>0, <1>3, CommandEffect
  <2>4. CachesInv'
    BY <1>0, <2>2, <2>3 DEF CachesInv, Open
  <2> QED
    BY <2>1, <2>2, <2>3, <2>4 DEF EngineInv, RunInv
<1>4. ASSUME NEW h \in Handles, GTClose(h)
      PROVE  EngineInv'
  <2>1. CountInv' /\ gl' \in GLs
    BY <1>0, <1>4, CloseCount
  <2>2. Shapes'
    BY <1>0, <1>4, <2>1 DEF GTClose, Shapes
  <2>3. CachesInv'
    BY <1>0, <1>4 DEF GTClose, Shapes, CachesInv, Open
  <2>4. RunInv'
    BY <1>4 DEF GTClose, RunInv, Serving
  <2> QED
    BY <2>1, <2>2, <2>3, <2>4 DEF EngineInv
<1>5. CASE Terminate
  <2>1. Unused'
    BY <1>5 DEF Terminate, Unused, Open
  <2>2. CountInv'
    BY <1>5, <2>1, FreshCount DEF Terminate
  <2>3. Shapes'
    BY <1>0, <1>5, InitializedContexts DEF Terminate, Shapes
  <2>4. CachesInv'
    BY <1>0, <1>5 DEF Terminate, CachesInv, Open
  <2> QED
    BY <2>1, <2>2, <2>3, <2>4 DEF EngineInv, RunInv
<1>6. CASE Restart
  <2>1. Unused'
    BY <1>6 DEF Restart, Unused, Open
  <2>2. CountInv'
    BY <1>6, <2>1, FreshCount DEF Restart
  <2>3. Shapes'
    BY <1>0, <1>6, InitializedContexts DEF Restart, Shapes
  <2>4. CachesInv'
    BY <1>0, <1>6 DEF Restart, CachesInv
  <2> QED
    BY <2>1, <2>2, <2>3, <2>4 DEF EngineInv, RunInv
<1>7. CASE UNCHANGED vars
  <2>1. \A c : Targets(c)' = Targets(c)
    BY <1>7 DEF vars, Targets, Open
  <2>2. CountInv'
    BY <1>0, <1>7, <2>1, SameCount DEF vars
  <2>3. Shapes' /\ RunInv'
    BY <1>0, <1>7 DEF vars, Shapes, RunInv, Unused, Open
  <2>4. CachesInv'
    BY <1>0, <1>7 DEF vars, CachesInv, Open
  <2> QED
    BY <2>2, <2>3, <2>4 DEF EngineInv
<1> QED
  BY <1>1, <1>2, <1>3, <1>4, <1>5, <1>6, <1>7 DEF Next

\* The engines keep their shape and count their targets in every state.
THEOREM EnginesInvariant == Spec => []EngineInv
<1>1. Init => EngineInv
  BY InvariantInit
<1>2. EngineInv /\ [Next]_vars => EngineInv'
  BY InvariantStep
<1> QED
  BY <1>1, <1>2, PTL DEF Spec

\* What the invariant says of types.
LEMMA TypeFollows ==
  ASSUME EngineInv
  PROVE  TypeOK
<1>1. Shapes /\ CachesInv /\ CountInv
  BY DEF EngineInv
<1>2. ASSUME NEW h \in Handles, NEW cache \in {ins[h], outs[h]}, NEW s \in Slots
      PROVE  /\ cache[s].key \in Bufs \cup {None} /\ cache[s].surf \in Surface
             /\ cache[s].key = None => \A t \in s .. maxInOutBufSize : cache[t] = EmptySlot
  <2>1. cache \in Caches /\ Filled(cache)
    BY <1>1 DEF Shapes, CachesInv
  <2> QED
    BY <2>1 DEF Caches, Filled
<1>3. ASSUME NEW c \in Contexts PROVE gl.sEGLContextRef[c] \in Nat
  <2>1. Cardinality(Targets(c)) \in Nat
    BY <1>1, FS_CardinalityType DEF CountInv, Counted
  <2>2. gl.sEGLContextRef[c] \in Int
    BY <1>1 DEF Shapes, GLs
  <2> QED
    BY <1>1, <2>1, <2>2 DEF CountInv, Counted
<1>4. /\ gl.textures \in [Contexts -> [Names -> Bufs \cup {None, Ref}]]
      /\ gl.current \in Contexts /\ gl.sEGLContextRef \in [Contexts -> Int]
  BY <1>1 DEF Shapes, GLs
<1> QED
  BY <1>1, <1>2, <1>3, <1>4 DEF TypeOK, Shapes

\* Types, the order in which slots are filled, and references that do not fall
\* below zero when targets are destroyed.
THEOREM TypeCorrect == Spec => []TypeOK
BY EnginesInvariant, TypeFollows, PTL

\* In every context but UV the references are the targets that live in it, and
\* the UV context has no fewer: the assertion of vrDestroyXxxTarget holds for any
\* number of handles, buffers and slots, that of vrTerminateGLSurface in all
\* contexts but UV.
THEOREM ReferencesAreCounted == Spec => []ReferencesCounted
<1>1. EngineInv => ReferencesCounted
  <2> SUFFICES ASSUME EngineInv, NEW c \in Contexts
               PROVE  /\ gl.sEGLContextRef[c] >= Cardinality(Targets(c))
                      /\ c # "uv" => gl.sEGLContextRef[c] = Cardinality(Targets(c))
    BY DEF ReferencesCounted
  <2>1. Cardinality(Targets(c)) \in Nat /\ gl.sEGLContextRef[c] \in Int
    BY FS_CardinalityType DEF EngineInv, Shapes, GLs, CountInv, Counted
  <2> QED
    BY <2>1 DEF EngineInv, CountInv, Counted
<1> QED
  BY <1>1, EnginesInvariant, PTL

-----------------------------------------------------------------------------
(* Drawn or refused. *)

\* No buffer is entered twice, and none without a surface.
Distinct(cache) ==
  \A s \in Slots : cache[s].key # None =>
    cache[s].surf # None /\ \A t \in Slots : cache[t].key = cache[s].key => t = s

\* It is so where the engine reports that a surface was not made, or where
\* every surface can be made; elsewhere a buffer is entered with no surface
\* and once more at its next use.
DistinctInv == \A h \in Handles : Entrusted(h) => Distinct(ins[h]) /\ Distinct(outs[h])

\* What a creation can come to, in the terms of this property.
Fits(m, k, b) ==
  /\ m.surf \in Surface /\ (m.surf # None => m.surf.buf = b)
  /\ m.surf = None => k \in CreateFails

AllFit(created, k, b) == \A m \in created : Fits(m, k, b)

\* What a search came to: the surface of the buffer, the report that it was
\* not made, or a full cache.
LookedFor(r, k, b) ==
  /\ Distinct(r.cache)
  /\ r.surf = None => \/ r.failed = TRUE /\ k \in CreateFails
                      \/ r.failed = FALSE /\ FullOfOthers(r.cache, b)
  /\ r.surf # None => r.failed = FALSE /\ r.surf.buf = b

\* A buffer without a hit has no slot.
LEMMA NotEntered ==
  ASSUME NEW cache, Distinct(cache), NEW b \in Bufs, Hit(cache, b) = None
  PROVE  \A s \in Slots : cache[s].key # b
<1> SUFFICES ASSUME NEW s \in Slots, cache[s].key = b PROVE FALSE
  OBVIOUS
<1>1. s \in SlotsOf(cache, b) /\ SlotsOf(cache, b) \in SUBSET Slots
  BY DEF SlotsOf
<1> PICK f : f = First(SlotsOf(cache, b))
  OBVIOUS
<1>2. f \in Slots /\ cache[f].key = b
  BY <1>1, FirstSlot DEF SlotsOf
<1>3. Hit(cache, b) = cache[f].surf
  BY <1>1 DEF Hit
<1>4. b # None
  BY EngineAssumption
<1> QED
  BY <1>2, <1>3, <1>4 DEF Distinct

\* A full cache in which the buffer is not found holds as many other buffers
\* as it has slots.
LEMMA FullCache ==
  ASSUME NEW cache, Distinct(cache), NEW b \in Bufs,
         Hit(cache, b) = None, SlotsOf(cache, None) = {}
  PROVE  FullOfOthers(cache, b)
<1>1. \A s \in Slots : cache[s].key # None
  BY DEF SlotsOf
<1>2. \A s \in Slots : cache[s].surf # None /\ cache[s].key # b
  BY <1>1, NotEntered DEF Distinct
<1> DEFINE keys == {cache[s].key : s \in Slots}
           f == [s \in Slots |-> cache[s].key]
<1>3. f \in Bijection(Slots, keys)
  <2>1. f \in [Slots -> keys]
    OBVIOUS
  <2>2. \A s, t \in Slots : f[s] = f[t] => s = t
    BY <1>1 DEF Distinct
  <2>3. \A y \in keys : \E s \in Slots : f[s] = y
    OBVIOUS
  <2> HIDE DEF f, keys
  <2> QED
    BY <2>1, <2>2, <2>3 DEF Bijection, Injection, Surjection, IsInjective
<1> HIDE DEF f, keys
<1>4. ExistsBijection(Slots, keys)
  BY <1>3 DEF ExistsBijection
<1>5. 1 \in Int /\ maxInOutBufSize \in Int /\ 1 <= maxInOutBufSize
  BY EngineAssumption
<1>6. IsFiniteSet(Slots) /\ Cardinality(Slots) = maxInOutBufSize
  BY <1>5, FS_Interval DEF Slots
<1>7. Cardinality(keys) = maxInOutBufSize
  BY <1>4, <1>6, FS_Bijection
<1> QED
  BY <1>2, <1>7 DEF FullOfOthers, keys

\* What the search for a buffer comes to.
LEMMA Looked ==
  ASSUME NEW g, NEW k, k = "deint" \/ k \notin CreateFails,
         NEW cache \in Caches, Filled(cache), Distinct(cache), NEW b \in Bufs, NEW created,
         Hit(cache, b) # None \/ SlotsOf(cache, None) = {} \/ AllFit(created, k, b),
         NEW r \in FindOrCreate(g, k, cache, b, created)
  PROVE  LookedFor(r, k, b)
<1>0. b # None
  BY EngineAssumption
<1>1. CASE /\ Hit(cache, b) # None
           /\ r.cache = cache /\ r.surf = Hit(cache, b) /\ r.gl = g /\ r.failed = FALSE
  <2>1. PICK s \in Slots : cache[s].key = b /\ Hit(cache, b) = cache[s].surf
    BY <1>1, HitOfBuffer
  <2>2. r.surf.buf = b
    BY <1>1, <2>1 DEF Filled
  <2> QED
    BY <1>1, <2>2 DEF LookedFor
<1>2. CASE /\ Hit(cache, b) = None /\ SlotsOf(cache, None) = {}
           /\ r.cache = cache /\ r.surf = None /\ r.gl = g /\ r.failed = FALSE
  <2>1. FullOfOthers(cache, b)
    BY <1>2, FullCache
  <2> QED
    BY <1>2, <2>1 DEF LookedFor
<1>3. CASE Entered(r, k, cache, b, created)
  <2>1. Hit(cache, b) = None /\ SlotsOf(cache, None) # {}
    BY <1>3 DEF Entered
  <2>2. PICK m \in created :
          /\ r.cache = Stored(cache, k, b, m.surf)
          /\ r.surf = m.surf /\ r.failed = (m.surf = None)
    BY <1>3, Zenon DEF Entered
  <2> PICK x : x = m.surf
    OBVIOUS
  <2> PICK new : new = Stored(cache, k, b, x)
    OBVIOUS
  <2>3. /\ x \in Surface /\ (x # None => x.buf = b)
        /\ x = None => k \in CreateFails
    BY <2>1 DEF Fits, AllFit
  <2>4. \A s \in Slots : cache[s].key # b
    BY <2>1, NotEntered
  <2>5. \/ new = cache /\ x = None
        \/ x # None /\ \E f \in Slots : EnteredAt(cache, b, x, new, f)
    BY <2>1, <2>3, StoredInFree
  <2>6. Distinct(new)
    <3>1. CASE new = cache
      BY <3>1
    <3>2. CASE x # None /\ \E f \in Slots : EnteredAt(cache, b, x, new, f)
      <4>1. PICK f \in Slots : EnteredAt(cache, b, x, new, f)
        BY <3>2
      <4>2. /\ new[f].key = b /\ new[f].surf = x
            /\ \A s \in Slots : s # f => new[s] = cache[s]
        BY <4>1 DEF EnteredAt
      <4> QED
        BY <2>4, <3>2, <4>2 DEF Distinct
    <3> QED
      BY <2>5, <3>1, <3>2
  <2>7. r.cache = new /\ r.surf = x
    BY <2>2
  <2>8. CASE x = None
    <3>1. r.failed = TRUE
      BY <2>2, <2>8
    <3> QED
      BY <2>3, <2>6, <2>7, <2>8, <3>1 DEF LookedFor
  <2>9. CASE x # None
    <3>1. r.failed = FALSE
      BY <2>2, <2>9
    <3> QED
      BY <2>3, <2>6, <2>7, <2>9, <3>1 DEF LookedFor
  <2> QED
    BY <2>8, <2>9
<1> QED
  BY <1>1, <1>2, <1>3, Found

DrawnInv == DistinctInv /\ DrawnOrRefused

\* Both searches of a command, for an engine that reports or cannot fail.
LEMMA InputLooked ==
  ASSUME Shapes, CachesInv, DistinctInv, NEW h \in Handles, Open(h), Entrusted(h),
         NEW i \in Inputs, NamesLeft(h, i), NEW s \in InputSurface(h, i)
  PROVE  s.gl \in GLs /\ LookedFor(s, kind[h], i)
<1>1. /\ kind[h] \in Kinds /\ i \in Bufs /\ ins[h] \in Caches /\ gl \in GLs
      /\ Filled(ins[h]) /\ Distinct(ins[h]) /\ (kind[h] = "deint" \/ kind[h] \notin CreateFails)
  BY DEF Shapes, CachesInv, DistinctInv, Open, Bufs, Entrusted, Reports
<1>2. Hit(ins[h], i) # None \/ SlotsOf(ins[h], None) = {} \/ NamesFrom(gl, kind[h], 1)
  BY <1>1, NamesLeftFrom
<1>3. ASSUME NamesFrom(gl, kind[h], 1), NEW m \in CreateSource(gl, kind[h], i)
      PROVE  Fits(m, kind[h], i)
  <2>1. PICK p \in 0 .. Len(PlaneContexts[kind[h]]) :
          SourceMade(gl, kind[h], i, m, p, SourcePlanes(gl, kind[h], i)[p])
    BY <1>1, <1>3, SourceOutcomes
  <2> PICK x : x = SourcePlanes(gl, kind[h], i)[p]
    OBVIOUS
  <2>2. /\ x.tex \in Seq(Names)
        /\ \/ m.surf = None /\ kind[h] \in CreateFails
           \/ m.surf = [buf |-> i, tex |-> x.tex]
    BY <2>1 DEF SourceMade, PlanesUpTo
  <2>3. CASE m.surf = None /\ kind[h] \in CreateFails
    BY <2>3 DEF Fits, Surface
  <2>4. CASE m.surf = [buf |-> i, tex |-> x.tex]
    BY <1>1, <2>2, <2>4, SurfaceMade DEF Fits
  <2> QED
    BY <2>2, <2>3, <2>4
<1>4. Hit(ins[h], i) # None \/ SlotsOf(ins[h], None) = {}
        \/ AllFit(CreateSource(gl, kind[h], i), kind[h], i)
  BY <1>2, <1>3 DEF AllFit
<1>5. s \in FindOrCreate(gl, kind[h], ins[h], i, CreateSource(gl, kind[h], i))
  BY DEF InputSurface
<1>6. s.gl \in GLs
  BY <1>1, <1>2, <1>5, InputFound
<1> QED
  BY <1>1, <1>4, <1>5, <1>6, Looked

\* The same for the output.
LEMMA OutputLooked ==
  ASSUME Shapes, CachesInv, DistinctInv, NEW h \in Handles, Open(h), Entrusted(h),
         NEW o \in Outputs, NEW s, s.gl \in GLs, NEW t \in OutputSurface(h, s, o)
  PROVE  LookedFor(t, kind[h], o)
<1>1. /\ kind[h] \in Kinds /\ o \in Bufs /\ outs[h] \in Caches
      /\ Filled(outs[h]) /\ Distinct(outs[h]) /\ (kind[h] = "deint" \/ kind[h] \notin CreateFails)
  BY DEF Shapes, CachesInv, DistinctInv, Open, Bufs, Entrusted, Reports
<1>2. ASSUME NEW m \in CreateTarget(s.gl, kind[h], o)
      PROVE  Fits(m, kind[h], o)
  <2>1. \/ m.surf = None /\ kind[h] \in CreateFails
        \/ m.surf = [buf |-> o, tex |-> <<>>]
    BY <1>1, TargetOutcomes DEF TargetMade
  <2>2. CASE m.surf = None /\ kind[h] \in CreateFails
    BY <2>2 DEF Fits, Surface
  <2>3. CASE m.surf = [buf |-> o, tex |-> <<>>]
    <3>1. <<>> \in Seq(Names)
      OBVIOUS
    <3>2. [buf |-> o, tex |-> <<>>] \in Surface /\ [buf |-> o, tex |-> <<>>] # None
          /\ [buf |-> o, tex |-> <<>>].buf = o
      BY <1>1, <3>1, SurfaceMade
    <3> QED
      BY <2>3, <3>2 DEF Fits
  <2> QED
    BY <2>1, <2>2, <2>3
<1>3. Hit(outs[h], o) # None \/ SlotsOf(outs[h], None) = {}
        \/ AllFit(CreateTarget(s.gl, kind[h], o), kind[h], o)
  BY <1>2 DEF AllFit
<1>4. t \in FindOrCreate(s.gl, kind[h], outs[h], o, CreateTarget(s.gl, kind[h], o))
  BY DEF OutputSurface
<1> QED
  BY <1>1, <1>3, <1>4, Looked

\* A command of such an engine draws or is refused as the property says, and
\* enters no buffer twice.
LEMMA DrawnByCommand ==
  ASSUME Shapes, CachesInv, DistinctInv, NEW h \in Handles, NEW i \in Inputs, NEW o \in Outputs,
         GTDo(h, i, o), Entrusted(h)
  PROVE  DrawnOrRefused' /\ Distinct(ins'[h]) /\ Distinct(outs'[h])
<1>1. /\ Open(h) /\ NamesLeft(h, i) /\ kind' = kind
      /\ InputNotMade(h, i, o) \/ Deinterlace(h, i, o) \/ Convert(h, i, o)
  BY CommandForm DEF GTDo
<1>2. /\ ins \in [Handles -> Caches] /\ outs \in [Handles -> Caches]
      /\ Distinct(ins[h]) /\ Distinct(outs[h])
  BY DEF Shapes, DistinctInv
<1>3. \A s \in InputSurface(h, i) : s.gl \in GLs /\ LookedFor(s, kind[h], i)
  BY <1>1, InputLooked
<1>4. ASSUME NEW s, s.gl \in GLs, NEW t \in OutputSurface(h, s, o)
      PROVE  LookedFor(t, kind[h], o)
  BY <1>1, <1>4, OutputLooked
<1> DEFINE Told(ret, src, dst) ==
             /\ ret = "ERR_NONE" => \/ src = i /\ dst = o
                                    \/ /\ ~Reports(h)
                                       /\ FullOfOthers(ins'[h], i) \/ FullOfOthers(outs'[h], o)
             /\ ret = "ERR_SURFACE_CREATE" => kind[h] \in CreateFails
             /\ ret \notin {"ERR_NONE", "ERR_SURFACE_CREATE"} =>
                  FullOfOthers(ins'[h], i) \/ FullOfOthers(outs'[h], o)
<1>5. ASSUME NEW ret, NEW src, NEW dst, Told(ret, src, dst),
             last' = [handle |-> h, in |-> i, out |-> o, ret |-> ret, src |-> src, dst |-> dst]
      PROVE  DrawnOrRefused'
  <2>1. /\ last'.handle = h /\ last'.in = i /\ last'.out = o
        /\ last'.ret = ret /\ last'.src = src /\ last'.dst = dst
    BY <1>5
  <2>2. NoRoom' <=> FullOfOthers(ins'[h], i) \/ FullOfOthers(outs'[h], o)
    BY <2>1 DEF NoRoom, FullOfOthers
  <2>3. Reports(h)' <=> Reports(h)
    BY <1>1 DEF Reports
  <2> QED
    BY <1>1, <1>5, <2>1, <2>2, <2>3 DEF DrawnOrRefused
<1>6. CASE InputNotMade(h, i, o)
  <2>1. PICK s \in InputSurface(h, i) :
          /\ s.failed /\ ins' = [ins EXCEPT ![h] = s.cache]
          /\ Did(h, i, o, "ERR_SURFACE_CREATE", None, None)
    BY <1>6, Zenon DEF InputNotMade
  <2>2. outs' = outs
    BY <1>6 DEF InputNotMade
  <2>3. LookedFor(s, kind[h], i)
    BY <1>3
  <2>4. kind[h] \in CreateFails /\ Distinct(s.cache)
    BY <2>1, <2>3 DEF LookedFor
  <2>5. ins'[h] = s.cache
    BY <1>2, <2>1
  <2>6. Told("ERR_SURFACE_CREATE", None, None)
    BY <2>4
  <2>7. DrawnOrRefused'
    BY <1>5, <2>1, <2>6 DEF Did, Shown
  <2> QED
    BY <1>2, <2>2, <2>4, <2>5, <2>7
<1>7. CASE Deinterlace(h, i, o)
  <2>1. PICK s \in InputSurface(h, i) :
          /\ ~s.failed
          /\ \E t \in OutputSurface(h, s, o) :
               /\ ins' = [ins EXCEPT ![h] = s.cache] /\ outs' = [outs EXCEPT ![h] = t.cache]
               /\ \/ t.failed /\ Did(h, i, o, "ERR_SURFACE_CREATE", None, None)
                  \/ /\ ~t.failed /\ (s.surf = None \/ t.surf = None)
                     /\ Did(h, i, o, "ERR_BUF_SIZE", None, None)
                  \/ /\ s.surf # None /\ t.surf # None
                     /\ Did(h, i, o, "ERR_NONE", s.surf, t.surf)
    BY <1>7, Zenon DEF Deinterlace
  <2>2. PICK t \in OutputSurface(h, s, o) :
          /\ ins' = [ins EXCEPT ![h] = s.cache] /\ outs' = [outs EXCEPT ![h] = t.cache]
          /\ \/ t.failed /\ Did(h, i, o, "ERR_SURFACE_CREATE", None, None)
             \/ /\ ~t.failed /\ (s.surf = None \/ t.surf = None)
                /\ Did(h, i, o, "ERR_BUF_SIZE", None, None)
             \/ /\ s.surf # None /\ t.surf # None
                /\ Did(h, i, o, "ERR_NONE", s.surf, t.surf)
    BY <2>1
  <2>3. LookedFor(s, kind[h], i) /\ LookedFor(t, kind[h], o)
    BY <1>3, <1>4
  <2>4. /\ ins'[h] = s.cache /\ outs'[h] = t.cache
        /\ Distinct(s.cache) /\ Distinct(t.cache)
    BY <1>2, <2>2, <2>3 DEF LookedFor
  <2>5. CASE t.failed /\ Did(h, i, o, "ERR_SURFACE_CREATE", None, None)
    <3>1. kind[h] \in CreateFails
      BY <2>3, <2>5 DEF LookedFor
    <3>2. Told("ERR_SURFACE_CREATE", None, None)
      BY <3>1
    <3>3. last' = [handle |-> h, in |-> i, out |-> o, ret |-> "ERR_SURFACE_CREATE", src |-> None, dst |-> None]
      BY <2>5 DEF Did, Shown
    <3> HIDE DEF Told
    <3> QED
      BY <1>5, <2>4, <3>2, <3>3
  <2>6. CASE /\ ~t.failed /\ (s.surf = None \/ t.surf = None)
             /\ Did(h, i, o, "ERR_BUF_SIZE", None, None)
    <3>1. FullOfOthers(s.cache, i) \/ FullOfOthers(t.cache, o)
      BY <2>1, <2>3, <2>6 DEF LookedFor
    <3>2. Told("ERR_BUF_SIZE", None, None)
      BY <2>4, <3>1
    <3>3. last' = [handle |-> h, in |-> i, out |-> o, ret |-> "ERR_BUF_SIZE", src |-> None, dst |-> None]
      BY <2>6 DEF Did, Shown
    <3> HIDE DEF Told
    <3> QED
      BY <1>5, <2>4, <3>2, <3>3
  <2>7. CASE /\ s.surf # None /\ t.surf # None
             /\ Did(h, i, o, "ERR_NONE", s.surf, t.surf)
    <3>1. Shown(s.surf) = i /\ Shown(t.surf) = o
      BY <2>3, <2>7 DEF Shown, LookedFor
    <3>2. Told("ERR_NONE", i, o)
      OBVIOUS
    <3>3. last' = [handle |-> h, in |-> i, out |-> o, ret |-> "ERR_NONE", src |-> i, dst |-> o]
      BY <2>7, <3>1 DEF Did
    <3> HIDE DEF Told
    <3> QED
      BY <1>5, <2>4, <3>2, <3>3
  <2> QED
    BY <2>2, <2>5, <2>6, <2>7
<1>8. CASE Convert(h, i, o)
  <2>0. PICK s \in InputSurface(h, i) : \E t \in OutputSurface(h, s, o) :
          /\ ins' = [ins EXCEPT ![h] = s.cache] /\ outs' = [outs EXCEPT ![h] = t.cache]
          /\ Did(h, i, o, IF Crashes(kind[h], s.surf) THEN "crash" ELSE "ERR_NONE", s.surf, t.surf)
    BY <1>8, Zenon DEF Convert
  <2>1. PICK t \in OutputSurface(h, s, o) :
          /\ ins' = [ins EXCEPT ![h] = s.cache] /\ outs' = [outs EXCEPT ![h] = t.cache]
          /\ Did(h, i, o, IF Crashes(kind[h], s.surf) THEN "crash" ELSE "ERR_NONE", s.surf, t.surf)
    BY <2>0
  <2>2. kind[h] # "deint" /\ kind[h] \notin CreateFails /\ ~Reports(h)
    BY <1>8 DEF Convert, Entrusted, Reports
  <2>3. LookedFor(s, kind[h], i) /\ LookedFor(t, kind[h], o)
    BY <1>3, <1>4
  <2>4. ins'[h] = s.cache /\ outs'[h] = t.cache
    BY <1>2, <2>1
  <2>5. \/ s.surf # None /\ t.surf # None /\ Shown(s.surf) = i /\ Shown(t.surf) = o
        \/ FullOfOthers(s.cache, i) \/ FullOfOthers(t.cache, o)
    BY <2>2, <2>3 DEF Shown, LookedFor
  <2>6. PICK ret : ret = IF Crashes(kind[h], s.surf) THEN "crash" ELSE "ERR_NONE"
    OBVIOUS
  <2>7. /\ ret \in {"crash", "ERR_NONE"} /\ (ret = "crash" => s.surf = None)
    BY <2>6 DEF Crashes
  <2>8. Told(ret, Shown(s.surf), Shown(t.surf))
    BY <2>2, <2>4, <2>5, <2>7
  <2>9. last' = [handle |-> h, in |-> i, out |-> o, ret |-> ret, src |-> Shown(s.surf),
                 dst |-> Shown(t.surf)]
    BY <2>1, <2>6, Zenon DEF Did
  <2>10. DrawnOrRefused'
    <3> HIDE DEF Told
    <3> QED
      BY <1>5, <2>8, <2>9
  <2> QED
    BY <2>3, <2>4, <2>10 DEF LookedFor
<1> QED
  BY <1>1, <1>6, <1>7, <1>8

\* An empty cache holds no buffer twice.
LEMMA EmptyDistinct == Distinct(EmptyCache)
BY DEF Distinct, EmptyCache, EmptySlot

\* Where no command was carried out there is nothing to tell.
LEMMA NothingTold ==
  ASSUME last' = Nothing
  PROVE  DrawnOrRefused'
BY DEF DrawnOrRefused

\* The invariant of this property, one step per action.
LEMMA DrawnStep ==
  ASSUME EngineInv, DrawnInv, [Next]_vars
  PROVE  DrawnInv'
<1>0. Shapes /\ CachesInv /\ DistinctInv /\ DrawnOrRefused
  BY DEF EngineInv, DrawnInv
<1>1. ASSUME UNCHANGED <<kind, ins, outs, last>> PROVE DrawnInv'
  <2>1. DistinctInv'
    BY <1>0, <1>1 DEF DistinctInv, Entrusted, Reports
  <2>2. DrawnOrRefused'
    BY <1>0, <1>1 DEF DrawnOrRefused, Entrusted, Reports, NoRoom
  <2> QED
    BY <2>1, <2>2 DEF DrawnInv
<1>2. ASSUME NEW h \in Handles, NEW k \in Kinds, GTOpen(h, k)
      PROVE  DrawnInv'
  <2>1. DistinctInv'
    BY <1>0, <1>2, EmptyDistinct DEF GTOpen, Shapes, DistinctInv, Entrusted, Reports
  <2> QED
    BY <1>2, <2>1, NothingTold DEF GTOpen, DrawnInv
<1>3. ASSUME NEW h \in Handles, NEW i \in Inputs, NEW o \in Outputs, GTDo(h, i, o)
      PROVE  DrawnInv'
  <2>1. kind' = kind /\ \A x \in Handles : x # h => ins'[x] = ins[x] /\ outs'[x] = outs[x]
    BY <1>0, <1>3, CommandForm, CommandEffect
  <2>2. \A x : Entrusted(x)' <=> Entrusted(x)
    BY <2>1 DEF Entrusted, Reports
  <2>3. CASE Entrusted(h)
    <3>1. DrawnOrRefused' /\ Distinct(ins'[h]) /\ Distinct(outs'[h])
      BY <1>0, <1>3, <2>3, DrawnByCommand
    <3>2. DistinctInv'
      BY <1>0, <2>1, <2>2, <3>1 DEF DistinctInv
    <3> QED
      BY <3>1, <3>2 DEF DrawnInv
  <2>4. CASE ~Entrusted(h)
    <3>1. last'.handle = h
      <4>1. \E ret, src, dst : Did(h, i, o, ret, src, dst)
        BY <1>3, Zenon DEF GTDo, InputNotMade, Deinterlace, Convert
      <4> QED
        BY <4>1 DEF Did
    <3>2. DrawnOrRefused'
      BY <2>2, <2>4, <3>1 DEF DrawnOrRefused
    <3>3. DistinctInv'
      BY <1>0, <2>1, <2>2, <2>4 DEF DistinctInv
    <3> QED
      BY <3>2, <3>3 DEF DrawnInv
  <2> QED
    BY <2>3, <2>4
<1>4. ASSUME NEW h \in Handles, GTClose(h)
      PROVE  DrawnInv'
  <2>1. DistinctInv'
    BY <1>0, <1>4, EmptyDistinct DEF GTClose, Shapes, DistinctInv, Entrusted, Reports
  <2> QED
    BY <1>4, <2>1, NothingTold DEF GTClose, DrawnInv
<1>5. CASE Start
  BY <1>1, <1>5 DEF Start
<1>6. CASE Terminate
  <2>1. DistinctInv'
    BY <1>0, <1>6 DEF Terminate, DistinctInv, Entrusted, Reports
  <2> QED
    BY <1>6, <2>1, NothingTold DEF Terminate, DrawnInv
<1>7. CASE Restart
  <2>1. DistinctInv'
    BY <1>7, EmptyDistinct DEF Restart, DistinctInv
  <2> QED
    BY <1>7, <2>1, NothingTold DEF Restart, DrawnInv
<1>8. CASE UNCHANGED vars
  BY <1>1, <1>8 DEF vars
<1> QED
  BY <1>2, <1>3, <1>4, <1>5, <1>6, <1>7, <1>8 DEF Next

\* A command draws from the buffer it was given to the buffer it was given, or
\* is refused for a surface that could not be made or a cache full of others,
\* whatever commands, failures, closes and opens came before.
THEOREM CommandsDrawOrAreRefused == Spec => []DrawnOrRefused
<1>1. Init => DrawnInv
  BY EmptyDistinct DEF Init, DrawnInv, DistinctInv, DrawnOrRefused
<1>2. EngineInv /\ DrawnInv /\ [Next]_vars => DrawnInv'
  BY DrawnStep
<1>3. DrawnInv => DrawnOrRefused
  BY DEF DrawnInv
<1> QED
  BY <1>1, <1>2, <1>3, EnginesInvariant, PTL DEF Spec

-----------------------------------------------------------------------------
(* Textures. *)

\* A cached source has a texture for each plane.
SourcesInv ==
  \A h \in Handles : \A x \in Surfaces(ins[h]) :
    x.buf \in Inputs /\ Len(x.tex) = Len(PlaneContexts[kind[h]])

\* While a source is cached a context of its engine is current: this is what
\* makes glDeleteTextures at a close work on the right names.
CurrentInv ==
  \A h \in Handles : Surfaces(ins[h]) # {} =>
    \E q \in 1 .. Len(PlaneContexts[kind[h]]) : gl.current = PlaneContexts[kind[h]][q]

TexturesInv == SourcesInv /\ CurrentInv /\ TexturesIntact

\* An empty cache has no surface.
LEMMA EmptySurfaces == Surfaces(EmptyCache) = {}
BY DEF Surfaces, EmptyCache, EmptySlot

\* What is known of a cached source.
LEMMA CachedSource ==
  ASSUME Shapes, CachesInv, SourcesInv, TexturesIntact,
         NEW h \in Handles, NEW x \in Surfaces(ins[h])
  PROVE  /\ Open(h) /\ kind[h] \in Kinds /\ x.buf \in Inputs /\ x.buf # None /\ x.buf # Ref
         /\ DOMAIN x.tex = 1 .. Len(PlaneContexts[kind[h]])
         /\ \A p \in DOMAIN x.tex :
              /\ PlaneContexts[kind[h]][p] \in Contexts /\ x.tex[p] \in Names
              /\ gl.textures[PlaneContexts[kind[h]][p]][x.tex[p]] = x.buf
<1>1. Open(h) /\ kind[h] \in Kinds
  BY EmptySurfaces DEF Shapes, CachesInv, Open
<1>2. x.buf \in Inputs /\ x.buf # None /\ x.buf # Ref
  BY EngineAssumption DEF SourcesInv, Bufs
<1>3. PICK s \in Slots : x = ins[h][s].surf /\ x # None
  BY DEF Surfaces
<1>4. x \in [buf : Bufs, tex : Seq(Names)]
  BY <1>3 DEF Shapes, Caches, Surface
<1>5. x.tex \in Seq(Names)
  BY <1>4
<1>6. DOMAIN x.tex = 1 .. Len(PlaneContexts[kind[h]])
      /\ \A p \in DOMAIN x.tex : x.tex[p] \in Names
  BY <1>5 DEF SourcesInv
<1>7. Intact(kind[h], x)
  BY DEF TexturesIntact
<1>8. \A p \in 1 .. Len(PlaneContexts[kind[h]]) : PlaneContexts[kind[h]][p] \in Contexts
  BY <1>1, PlaneKinds
<1>9. \A p \in DOMAIN x.tex : gl.textures[PlaneContexts[kind[h]][p]][x.tex[p]] = x.buf
  <2> SUFFICES ASSUME NEW p \in DOMAIN x.tex
               PROVE  gl.textures[PlaneContexts[kind[h]][p]][x.tex[p]] = x.buf
    OBVIOUS
  <2> PICK t : t = <<PlaneContexts[kind[h]][p], x.tex[p]>>
    OBVIOUS
  <2>1. t \in TexturesOf(kind[h], x)
    BY DEF TexturesOf
  <2>2. gl.textures[t[1]][t[2]] = x.buf
    BY <1>7, <2>1 DEF Intact
  <2>3. t[1] = PlaneContexts[kind[h]][p] /\ t[2] = x.tex[p]
    OBVIOUS
  <2> QED
    BY <2>2, <2>3
<1> QED
  BY <1>1, <1>2, <1>6, <1>8, <1>9

\* t came to be in g: the planes of a source of b under names that were free.
Fresh(g, k, b, t, new) ==
  /\ t \in Seq(Names)
  /\ \A q \in DOMAIN t : PlaneContexts[k][q] \in Contexts /\ g.textures[PlaneContexts[k][q]][t[q]] = None
  /\ \A c \in Contexts, n \in Names :
       new.textures[c][n] = IF \E q \in DOMAIN t : c = PlaneContexts[k][q] /\ n = t[q]
                            THEN b ELSE g.textures[c][n]

OneOf(k, c) == \E q \in 1 .. Len(PlaneContexts[k]) : c = PlaneContexts[k][q]

\* The search for the surface of an input makes at most one source, whose
\* names were free and whose engine is made current.
InputCame(h, i, s, t) ==
  /\ Fresh(gl, kind[h], i, t, s.gl)
  /\ \/ Surfaces(s.cache) = Surfaces(ins[h]) /\ (s.gl.current = gl.current \/ OneOf(kind[h], s.gl.current))
     \/ /\ Surfaces(s.cache) = Surfaces(ins[h]) \cup {[buf |-> i, tex |-> t]}
        /\ Len(t) = Len(PlaneContexts[kind[h]]) /\ OneOf(kind[h], s.gl.current)

\* The search for an input comes to nothing else.
LEMMA InputTextures ==
  ASSUME Shapes, CachesInv, NEW h \in Handles, Open(h), NEW i \in Inputs, NamesLeft(h, i),
         NEW s \in InputSurface(h, i)
  PROVE  \E t : InputCame(h, i, s, t)
<1>1. /\ kind[h] \in Kinds /\ i \in Bufs /\ ins[h] \in Caches /\ gl \in GLs /\ Filled(ins[h])
  BY DEF Shapes, CachesInv, Open, Bufs
<1>2. Hit(ins[h], i) # None \/ SlotsOf(ins[h], None) = {} \/ NamesFrom(gl, kind[h], 1)
  BY <1>1, NamesLeftFrom
<1> PICK created : created = CreateSource(gl, kind[h], i)
  OBVIOUS
<1>3. s \in FindOrCreate(gl, kind[h], ins[h], i, created)
  BY DEF InputSurface
<1>4. CASE s.cache = ins[h] /\ s.gl = gl
  <2>1. Fresh(gl, kind[h], i, <<>>, s.gl)
    BY <1>4 DEF Fresh
  <2>2. InputCame(h, i, s, <<>>)
    BY <1>4, <2>1 DEF InputCame
  <2> QED
    BY <2>2
<1>5. CASE Entered(s, kind[h], ins[h], i, created)
  <2>1. SlotsOf(ins[h], None) # {} /\ Hit(ins[h], i) = None
    BY <1>5 DEF Entered
  <2>2. PICK m \in created : s.cache = Stored(ins[h], kind[h], i, m.surf) /\ s.gl = m.gl
    BY <1>5, Zenon DEF Entered
  <2>3. NamesFrom(gl, kind[h], 1)
    BY <1>2, <2>1
  <2>4. PICK p \in 0 .. Len(PlaneContexts[kind[h]]) :
          SourceMade(gl, kind[h], i, m, p, SourcePlanes(gl, kind[h], i)[p])
    BY <1>1, <2>3, SourceOutcomes
  <2> PICK x : x = SourcePlanes(gl, kind[h], i)[p]
    OBVIOUS
  <2> PICK t : t = x.tex
    OBVIOUS
  <2>5. PlanesUpTo(gl, kind[h], i, p, x) /\ m.gl.textures = x.gl.textures
    BY <2>4 DEF SourceMade
  <2>6. t \in Seq(Names) /\ DOMAIN t = 1 .. p /\ Len(t) = p
    BY <2>5 DEF PlanesUpTo
  <2>7. Fresh(gl, kind[h], i, t, s.gl)
    <3>1. \A q \in DOMAIN t : PlaneContexts[kind[h]][q] \in Contexts
      BY <1>1, <2>6, PlaneKinds
    <3>2. \A q \in DOMAIN t : gl.textures[PlaneContexts[kind[h]][q]][t[q]] = None
      BY <2>5, <2>6 DEF PlanesUpTo
    <3>3. \A c \in Contexts, n \in Names :
            s.gl.textures[c][n] = IF \E q \in DOMAIN t : c = PlaneContexts[kind[h]][q] /\ n = t[q]
                                  THEN i ELSE gl.textures[c][n]
      BY <2>2, <2>5, <2>6 DEF PlanesUpTo
    <3> QED
      BY <2>6, <3>1, <3>2, <3>3 DEF Fresh
  <2> PICK new : new = s.cache
    OBVIOUS
  <2>8. CASE m.surf = None
    <3>1. None \in Surface
      BY DEF Surface
    <3>2. new = ins[h] \/ \E f \in Slots : EnteredAt(ins[h], i, None, new, f)
      BY <1>1, <2>1, <2>2, <2>8, <3>1, StoredInFree
    <3>3. \A q \in Slots : new[q].surf = ins[h][q].surf
      <4>1. CASE new = ins[h]
        BY <4>1
      <4>2. CASE \E f \in Slots : EnteredAt(ins[h], i, None, new, f)
        <5>1. PICK f \in Slots : EnteredAt(ins[h], i, None, new, f)
          BY <4>2
        <5>2. f \in f .. maxInOutBufSize
          BY DEF Slots
        <5>3. ins[h][f].surf = None
          BY <1>1, <5>1, <5>2 DEF EnteredAt, Filled, EmptySlot
        <5>4. new[f].surf = None /\ \A q \in Slots : q # f => new[q] = ins[h][q]
          BY <5>1 DEF EnteredAt
        <5> QED
          BY <5>3, <5>4
      <4> QED
        BY <3>2, <4>1, <4>2
    <3>4. Surfaces(new) = Surfaces(ins[h])
      BY <3>3 DEF Surfaces
    <3>5. s.gl.current = gl.current \/ OneOf(kind[h], s.gl.current)
      BY <2>2, <2>4 DEF SourceMade, OneOf
    <3>6. InputCame(h, i, s, t)
      BY <2>7, <3>4, <3>5 DEF InputCame
    <3> QED
      BY <3>6
  <2>9. CASE m.surf # None
    <3> PICK y : y = [buf |-> i, tex |-> t]
      OBVIOUS
    <3>1. p = Len(PlaneContexts[kind[h]]) /\ m.surf = y /\ m.gl = x.gl
      BY <2>4, <2>9 DEF SourceMade
    <3>2. y \in Surface /\ y # None
      BY <1>1, <2>6, SurfaceMade
    <3>3. \E f \in Slots : EnteredAt(ins[h], i, y, new, f)
      BY <1>1, <2>1, <2>2, <3>1, <3>2, StoredInFree
    <3>4. PICK f \in Slots : EnteredAt(ins[h], i, y, new, f)
      BY <3>3
    <3>5. f \in f .. maxInOutBufSize
      BY DEF Slots
    <3>6. /\ ins[h][f].surf = None /\ new[f].surf = y
          /\ \A q \in Slots : q # f => new[q] = ins[h][q]
      BY <1>1, <3>4, <3>5 DEF EnteredAt, Filled, EmptySlot
    <3>7. Surfaces(new) = Surfaces(ins[h]) \cup {y}
      BY <3>2, <3>6 DEF Surfaces
    <3>8. s.gl.current = PlaneContexts[kind[h]][p] /\ p \in 1 .. Len(PlaneContexts[kind[h]])
      <4>1. Len(PlaneContexts[kind[h]]) \in Nat \ {0}
        BY <1>1, PlaneKinds
      <4>2. p # 0 /\ p \in 1 .. Len(PlaneContexts[kind[h]])
        BY <3>1, <4>1
      <4>3. x.gl.current = PlaneContexts[kind[h]][p]
        BY <2>5, <4>2 DEF PlanesUpTo
      <4> QED
        BY <2>2, <3>1, <4>2, <4>3
    <3>9. InputCame(h, i, s, t)
      BY <2>6, <2>7, <3>1, <3>7, <3>8 DEF InputCame, OneOf
    <3> QED
      BY <3>9
  <2> QED
    BY <2>8, <2>9
<1>6. (s.cache = ins[h] /\ s.gl = gl) \/ Entered(s, kind[h], ins[h], i, created)
  BY <1>3, Found
<1> QED
  BY <1>4, <1>5, <1>6

\* Only the RGB to YUV converter has planes in more than one context, and only
\* the deinterlacer uses the context of the reference texture.
LEMMA KindPlanes ==
  ASSUME NEW k \in Kinds
  PROVE  /\ k # "rgb2yuv" =>
              \A p, q \in 1 .. Len(PlaneContexts[k]) : PlaneContexts[k][p] = PlaneContexts[k][q]
         /\ OneOf(k, "deint") => k = "deint"
<1>1. k \in {"deint", "scale", "rgb2yuv", "yuv2rgb"} /\ VR_YUV_CNT \in Nat
  BY EngineAssumption
<1>2. CASE k = "rgb2yuv"
  <2>1. PlaneContexts[k] = <<"uv", "y">>
    BY <1>2 DEF PlaneContexts
  <2>2. \A q \in 1 .. Len(PlaneContexts[k]) : PlaneContexts[k][q] # "deint"
    BY <2>1
  <2> QED
    BY <1>2, <2>2 DEF OneOf
<1>3. CASE k = "deint"
  <2>1. PlaneContexts[k] = [p \in 1 .. VR_YUV_CNT |-> "deint"]
    BY <1>3 DEF PlaneContexts
  <2>2. Len(PlaneContexts[k]) = VR_YUV_CNT
    BY <1>1, <2>1
  <2>3. \A p \in 1 .. Len(PlaneContexts[k]) : PlaneContexts[k][p] = "deint"
    BY <2>1, <2>2
  <2> QED
    BY <1>3, <2>3
<1>4. CASE k = "scale"
  <2>1. PlaneContexts[k] = [p \in 1 .. VR_YUV_CNT |-> "scale"]
    BY <1>4 DEF PlaneContexts
  <2>2. Len(PlaneContexts[k]) = VR_YUV_CNT
    BY <1>1, <2>1
  <2> QED
    BY <2>1, <2>2 DEF OneOf
<1>5. CASE k = "yuv2rgb"
  <2>1. PlaneContexts[k] = [p \in 1 .. VR_YUV_CNT |-> "rgba"]
    BY <1>5 DEF PlaneContexts
  <2>2. Len(PlaneContexts[k]) = VR_YUV_CNT
    BY <1>1, <2>1
  <2> QED
    BY <2>1, <2>2 DEF OneOf
<1> QED
  BY <1>1, <1>2, <1>3, <1>4, <1>5

\* A texture of a cached source.
LEMMA CachedTexture ==
  ASSUME Shapes, CachesInv, SourcesInv, TexturesIntact,
         NEW h \in Handles, NEW x \in Surfaces(ins[h]), NEW t \in TexturesOf(kind[h], x)
  PROVE  /\ t[1] \in Contexts /\ t[2] \in Names /\ gl.textures[t[1]][t[2]] = x.buf
         /\ x.buf # None /\ x.buf # Ref /\ OneOf(kind[h], t[1])
<1>1. PICK p \in DOMAIN x.tex : t = <<PlaneContexts[kind[h]][p], x.tex[p]>>
  BY DEF TexturesOf
<1>2. t[1] = PlaneContexts[kind[h]][p] /\ t[2] = x.tex[p]
  BY <1>1
<1> QED
  BY <1>1, <1>2, CachedSource DEF OneOf

\* A new source disturbs no texture of the others.
LEMMA DoTextures ==
  ASSUME Separate, Shapes, CachesInv, TexturesInv,
         NEW h \in Handles, NEW i \in Inputs, NEW o \in Outputs, GTDo(h, i, o)
  PROVE  TexturesInv'
<1>0. SourcesInv /\ CurrentInv /\ TexturesIntact
  BY DEF TexturesInv
<1>1. /\ Open(h) /\ NamesLeft(h, i) /\ kind' = kind /\ Commanded(h, i, o)
  BY CommandForm
<1>2. kind[h] \in Kinds /\ i \in Bufs /\ o \in Bufs
  BY <1>1 DEF Shapes, Open, Bufs
<1>3. PICK s \in InputSurface(h, i) :
        /\ ins' = [ins EXCEPT ![h] = s.cache]
        /\ \/ outs' = outs /\ gl' = s.gl
           \/ \E t \in OutputSurface(h, s, o) :
                /\ outs' = [outs EXCEPT ![h] = t.cache]
                /\ gl' = t.gl \/ gl' = Run(t.gl, kind[h])
  BY <1>1, Zenon DEF Commanded
<1>4. PICK u : InputCame(h, i, s, u)
  BY <1>1, InputTextures
<1>5. s.gl \in GLs
  <2>1. /\ ins[h] \in Caches /\ gl \in GLs /\ Filled(ins[h])
    BY DEF Shapes, CachesInv
  <2>2. Hit(ins[h], i) # None \/ SlotsOf(ins[h], None) = {} \/ NamesFrom(gl, kind[h], 1)
    BY <1>1, <1>2, NamesLeftFrom
  <2> QED
    BY <1>2, <2>1, <2>2, InputFound DEF InputSurface
<1>6. /\ gl'.textures = s.gl.textures
      /\ gl'.current = s.gl.current \/ OneOf(kind[h], gl'.current)
  <2>1. CASE gl' = s.gl
    BY <2>1
  <2>2. CASE \E t \in OutputSurface(h, s, o) : gl' = t.gl \/ gl' = Run(t.gl, kind[h])
    <3>1. PICK t \in OutputSurface(h, s, o) : gl' = t.gl \/ gl' = Run(t.gl, kind[h])
      BY <2>2
    <3>2. outs[h] \in Caches /\ Filled(outs[h])
      BY DEF Shapes, CachesInv
    <3>3. t.gl \in GLs /\ t.gl.textures = s.gl.textures /\ t.gl.current = s.gl.current
      BY <1>2, <1>5, <3>2, OutputFound DEF OutputSurface
    <3> QED
      BY <1>2, <3>1, <3>3, RunChanges DEF OneOf
  <2> QED
    BY <1>3, <2>1, <2>2
<1>7. ins'[h] = s.cache /\ \A x \in Handles : x # h => ins'[x] = ins[x]
  BY <1>3 DEF Shapes
<1> PICK new : new = [buf |-> i, tex |-> u]
  OBVIOUS
<1>8. /\ new.buf = i /\ new.tex = u
      /\ Fresh(gl, kind[h], i, u, s.gl)
      /\ \/ Surfaces(ins'[h]) = Surfaces(ins[h])
         \/ Surfaces(ins'[h]) = Surfaces(ins[h]) \cup {new} /\ Len(u) = Len(PlaneContexts[kind[h]])
  BY <1>4, <1>7 DEF InputCame
<1>9. ASSUME NEW c \in Contexts, NEW n \in Names, gl.textures[c][n] # None
      PROVE  gl'.textures[c][n] = gl.textures[c][n]
  BY <1>6, <1>8, <1>9 DEF Fresh
<1>10. \A t \in TexturesOf(kind[h], new) :
         gl.textures[t[1]][t[2]] = None /\ gl'.textures[t[1]][t[2]] = i
  <2> SUFFICES ASSUME NEW t \in TexturesOf(kind[h], new)
               PROVE  gl.textures[t[1]][t[2]] = None /\ gl'.textures[t[1]][t[2]] = i
    OBVIOUS
  <2>1. PICK p \in DOMAIN u : t = <<PlaneContexts[kind[h]][p], u[p]>>
    BY <1>8 DEF TexturesOf
  <2>2. t[1] = PlaneContexts[kind[h]][p] /\ t[2] = u[p]
    BY <2>1
  <2>3. PlaneContexts[kind[h]][p] \in Contexts /\ u[p] \in Names
    BY <1>8 DEF Fresh
  <2> QED
    BY <1>6, <1>8, <2>2, <2>3 DEF Fresh
<1>11. ASSUME NEW g \in Handles, NEW x \in Surfaces(ins[g]), NEW t \in TexturesOf(kind[g], x)
       PROVE  gl'.textures[t[1]][t[2]] = x.buf /\ gl.textures[t[1]][t[2]] # None
  BY <1>0, <1>9, CachedTexture
<1>12. \A g \in Handles : \A x : x \in Surfaces(ins'[g]) => x \in Surfaces(ins[g]) \/ (g = h /\ x = new)
  BY <1>7, <1>8
<1>13. SourcesInv'
  <2> SUFFICES ASSUME NEW g \in Handles, NEW x \in Surfaces(ins'[g])
               PROVE  x.buf \in Inputs /\ Len(x.tex) = Len(PlaneContexts[kind[g]])
    BY <1>1 DEF SourcesInv, Surfaces
  <2> QED
    BY <1>0, <1>7, <1>8 DEF SourcesInv
<1>14. CurrentInv'
  <2> SUFFICES ASSUME NEW g \in Handles, Surfaces(ins'[g]) # {}
               PROVE  OneOf(kind[g], gl'.current)
    BY <1>1 DEF CurrentInv, OneOf, Surfaces
  <2>1. Open(g)
    <3>1. CASE g = h
      BY <1>1, <3>1
    <3>2. CASE g # h
      BY <1>0, <1>7, <3>2, CachedSource
    <3> QED
      BY <3>1, <3>2
  <2>2. kind[g] = kind[h]
    BY <1>0, <1>1, <2>1 DEF Separate
  <2>3. CASE OneOf(kind[h], gl'.current)
    BY <2>2, <2>3
  <2>4. CASE ~OneOf(kind[h], gl'.current)
    <3>1. gl'.current = gl.current /\ Surfaces(ins'[h]) = Surfaces(ins[h])
      BY <1>4, <1>6, <1>7, <2>4 DEF InputCame
    <3>2. Surfaces(ins[g]) # {}
      BY <1>7, <3>1
    <3> QED
      BY <1>0, <3>1, <3>2 DEF CurrentInv, OneOf
  <2> QED
    BY <2>3, <2>4
<1>15. TexturesIntact'
  <2>1. gl'.textures["deint"][1] = Ref
    <3>1. "deint" \in Contexts /\ 1 \in Names /\ Ref # None
      BY EngineAssumption DEF Contexts, Names
    <3> QED
      BY <1>0, <1>9, <3>1 DEF TexturesIntact
  <2>2. ASSUME NEW g \in Handles, NEW x \in Surfaces(ins'[g])
        PROVE  \A t \in TexturesOf(kind[g], x) : gl'.textures[t[1]][t[2]] = x.buf
    BY <1>8, <1>10, <1>11, <1>12
  <2>3. ASSUME NEW f \in Handles, NEW g \in Handles,
               NEW x \in Surfaces(ins'[f]), NEW y \in Surfaces(ins'[g]), <<f, x>> # <<g, y>>
        PROVE  TexturesOf(kind[f], x) \cap TexturesOf(kind[g], y) = {}
    <3>1. CASE x \in Surfaces(ins[f]) /\ y \in Surfaces(ins[g])
      BY <1>0, <2>3, <3>1 DEF TexturesIntact
    <3>2. CASE f = h /\ x = new /\ y \in Surfaces(ins[g])
      BY <1>10, <1>11, <3>2
    <3>3. CASE x \in Surfaces(ins[f]) /\ g = h /\ y = new
      BY <1>10, <1>11, <3>3
    <3> QED
      BY <1>12, <2>3, <3>1, <3>2, <3>3
  <2> QED
    BY <1>1, <2>1, <2>2, <2>3 DEF TexturesIntact, Intact, Surfaces
<1> QED
  BY <1>13, <1>14, <1>15 DEF TexturesInv

\* A close takes textures of no other source, and not the reference texture.
LEMMA CloseTextures ==
  ASSUME Separate, Shapes, CachesInv, TexturesInv, NEW h \in Handles, GTClose(h)
  PROVE  TexturesInv'
<1>0. SourcesInv /\ CurrentInv /\ TexturesIntact
  BY DEF TexturesInv
<1>1. /\ kind' = [kind EXCEPT ![h] = None] /\ ins' = [ins EXCEPT ![h] = EmptyCache]
      /\ gl' = DestroyTargets(DestroySources(gl, ins[h]), kind[h], outs[h]) /\ Open(h)
  BY DEF GTClose
<1>2. /\ kind'[h] = None /\ Surfaces(ins'[h]) = {}
      /\ \A x \in Handles : x # h => kind'[x] = kind[x] /\ ins'[x] = ins[x]
  BY <1>1, EmptySurfaces DEF Shapes
<1> PICK g : g = DestroySources(gl, ins[h])
  OBVIOUS
<1>3. /\ g \in GLs /\ g.current = gl.current
      /\ \A c \in Contexts, n \in Names :
           g.textures[c][n] = IF c = gl.current /\ n \in NamesOf(ins[h]) THEN None
                              ELSE gl.textures[c][n]
  BY SourcesDestroyed DEF Shapes
<1>4. gl'.current = gl.current /\ gl'.textures = g.textures
  <2>1. gl' = DestroyTargets(g, kind[h], outs[h])
    BY <1>1
  <2> QED
    BY <1>3, <2>1, TargetsDestroyed
<1>5. \A n \in NamesOf(ins[h]) : \E y \in Surfaces(ins[h]) : \E p \in DOMAIN y.tex : n = y.tex[p]
  BY DEF NamesOf
<1>6. kind[h] \in Kinds
  BY <1>1 DEF Shapes, Open
<1>7. ASSUME NEW f \in Handles, f # h, NEW x \in Surfaces(ins[f]), NEW t \in TexturesOf(kind[f], x)
      PROVE  gl'.textures[t[1]][t[2]] = x.buf
  <2>1. /\ t[1] \in Contexts /\ t[2] \in Names /\ gl.textures[t[1]][t[2]] = x.buf
        /\ OneOf(kind[f], t[1]) /\ Open(f)
    BY <1>0, CachedTexture, CachedSource
  <2>2. kind[f] = kind[h] /\ kind[h] # "rgb2yuv"
    BY <1>0, <1>1, <1>7, <2>1 DEF Separate
  <2>3. ASSUME t[2] \in NamesOf(ins[h]) PROVE FALSE
    <3>1. PICK y \in Surfaces(ins[h]) : \E p \in DOMAIN y.tex : t[2] = y.tex[p]
      BY <1>5, <2>3
    <3>2. PICK p \in DOMAIN y.tex : t[2] = y.tex[p]
      BY <3>1
    <3>3. p \in 1 .. Len(PlaneContexts[kind[h]])
      BY <1>0, <3>1, <3>2, CachedSource
    <3>4. t[1] = PlaneContexts[kind[h]][p]
      BY <1>6, <2>1, <2>2, <3>3, KindPlanes DEF OneOf
    <3>5. t = <<t[1], t[2]>>
      BY DEF TexturesOf
    <3>6. t \in TexturesOf(kind[h], y)
      BY <3>2, <3>4, <3>5 DEF TexturesOf
    <3>7. <<f, x>> # <<h, y>>
      BY <1>7
    <3> QED
      BY <1>0, <3>6, <3>7 DEF TexturesIntact
  <2> QED
    BY <1>3, <1>4, <2>1, <2>3
<1>8. gl'.textures["deint"][1] = Ref
  <2>1. "deint" \in Contexts /\ 1 \in Names /\ gl.textures["deint"][1] = Ref
    BY <1>0, EngineAssumption DEF Contexts, Names, TexturesIntact
  <2>2. ASSUME gl.current = "deint", 1 \in NamesOf(ins[h]) PROVE FALSE
    <3>1. PICK y \in Surfaces(ins[h]) : \E p \in DOMAIN y.tex : 1 = y.tex[p]
      BY <1>5, <2>2
    <3>2. PICK p \in DOMAIN y.tex : 1 = y.tex[p]
      BY <3>1
    <3>3. OneOf(kind[h], "deint")
      BY <1>0, <2>2, <3>1 DEF CurrentInv, OneOf
    <3>4. kind[h] = "deint" /\ kind[h] # "rgb2yuv"
      BY <1>6, <3>3, KindPlanes
    <3>5. /\ p \in 1 .. Len(PlaneContexts[kind[h]]) /\ y.buf # Ref
          /\ gl.textures[PlaneContexts[kind[h]][p]][y.tex[p]] = y.buf
      BY <1>0, <3>1, <3>2, CachedSource
    <3>6. PlaneContexts[kind[h]][p] = "deint"
      BY <1>6, <3>3, <3>4, <3>5, KindPlanes DEF OneOf
    <3> QED
      BY <2>1, <3>2, <3>5, <3>6
  <2> QED
    BY <1>3, <1>4, <2>1, <2>2
<1>9. \A f \in Handles : \A x : x \in Surfaces(ins'[f]) => f # h /\ x \in Surfaces(ins[f])
  BY <1>2
<1>10. SourcesInv'
  <2> SUFFICES ASSUME NEW f \in Handles, NEW x \in Surfaces(ins'[f])
               PROVE  x.buf \in Inputs /\ Len(x.tex) = Len(PlaneContexts[kind'[f]])
    BY DEF SourcesInv, Surfaces
  <2> QED
    BY <1>0, <1>2, <1>9 DEF SourcesInv
<1>11. CurrentInv'
  <2> SUFFICES ASSUME NEW f \in Handles, Surfaces(ins'[f]) # {}
               PROVE  OneOf(kind'[f], gl'.current)
    BY DEF CurrentInv, OneOf, Surfaces
  <2>1. f # h
    BY <1>2
  <2> QED
    BY <1>0, <1>2, <1>4, <2>1 DEF CurrentInv, OneOf
<1>12. TexturesIntact'
  <2>1. ASSUME NEW f \in Handles, NEW x \in Surfaces(ins'[f])
        PROVE  \A t \in TexturesOf(kind'[f], x) : gl'.textures[t[1]][t[2]] = x.buf
    BY <1>2, <1>7, <1>9
  <2>2. ASSUME NEW f \in Handles, NEW d \in Handles,
               NEW x \in Surfaces(ins'[f]), NEW y \in Surfaces(ins'[d]), <<f, x>> # <<d, y>>
        PROVE  TexturesOf(kind'[f], x) \cap TexturesOf(kind'[d], y) = {}
    BY <1>0, <1>2, <1>9, <2>2 DEF TexturesIntact
  <2> QED
    BY <1>8, <2>1, <2>2 DEF TexturesIntact, Intact, Surfaces
<1> QED
  BY <1>10, <1>11, <1>12 DEF TexturesInv

\* With no handle open there is no texture but the reference texture.
LEMMA FreshTextures ==
  ASSUME \A h \in Handles : ~Open(h)' /\ Surfaces(ins[h])' = {}, gl' = Initialized
  PROVE  TexturesInv'
<1>1. gl'.textures["deint"][1] = Ref
  BY InitializedContexts
<1> QED
  BY <1>1 DEF TexturesInv, SourcesInv, CurrentInv, TexturesIntact

\* Nothing but the reference texture exists at the start.
LEMMA TexturesInit ==
  ASSUME Init
  PROVE  TexturesInv
<1>1. gl.textures["deint"][1] = Ref
  BY InitializedContexts DEF Init
<1>2. \A h \in Handles : ~Open(h) /\ Surfaces(ins[h]) = {}
  BY EmptySurfaces DEF Init, Open
<1> QED
  BY <1>1, <1>2 DEF TexturesInv, SourcesInv, CurrentInv, TexturesIntact

\* The invariant of the textures, one step per action, while the engines that
\* are open are separate.
LEMMA TexturesStep ==
  ASSUME Separate, EngineInv, TexturesInv, [Next]_vars
  PROVE  TexturesInv'
<1>0. /\ Shapes /\ CachesInv /\ RunInv
      /\ SourcesInv /\ CurrentInv /\ TexturesIntact
  BY DEF EngineInv, TexturesInv
<1>1. ASSUME Unused, UNCHANGED <<kind, ins>>, gl' = Initialized
      PROVE  TexturesInv'
  <2>1. \A h \in Handles : ~Open(h)' /\ Surfaces(ins[h])' = {}
    BY <1>0, <1>1, EmptySurfaces DEF Unused, Open, CachesInv, Surfaces
  <2> QED
    BY <1>1, <2>1, FreshTextures
<1>2. ASSUME NEW h \in Handles, NEW k \in Kinds, GTOpen(h, k)
      PROVE  TexturesInv'
  <2>1. /\ ~Open(h) /\ gl' = gl
        /\ kind' = [kind EXCEPT ![h] = k] /\ ins' = [ins EXCEPT ![h] = EmptyCache]
    BY <1>2 DEF GTOpen
  <2>2. /\ Surfaces(ins'[h]) = {} /\ kind'[h] = k
        /\ \A x \in Handles : x # h => kind'[x] = kind[x] /\ ins'[x] = ins[x]
    BY <2>1, EmptySurfaces DEF Shapes, EngineInv
  <2>4. SourcesInv'
    <3> SUFFICES ASSUME NEW f \in Handles, NEW x \in Surfaces(ins'[f])
                 PROVE  x.buf \in Inputs /\ Len(x.tex) = Len(PlaneContexts[kind'[f]])
      BY DEF SourcesInv, Surfaces
    <3> QED
      BY <1>0, <2>2 DEF SourcesInv
  <2>5. CurrentInv'
    <3> SUFFICES ASSUME NEW f \in Handles, Surfaces(ins'[f]) # {}
                 PROVE  OneOf(kind'[f], gl'.current)
      BY DEF CurrentInv, OneOf, Surfaces
    <3> QED
      BY <1>0, <2>1, <2>2 DEF CurrentInv, OneOf
  <2>6. TexturesIntact'
    <3>1. gl'.textures["deint"][1] = Ref
      BY <1>0, <2>1 DEF TexturesIntact
    <3>2. \A f \in Handles : \A x : x \in Surfaces(ins'[f]) => f # h /\ x \in Surfaces(ins[f])
      BY <2>2
    <3>3. ASSUME NEW f \in Handles, NEW x \in Surfaces(ins'[f])
          PROVE  \A t \in TexturesOf(kind'[f], x) : gl'.textures[t[1]][t[2]] = x.buf
      BY <1>0, <2>1, <2>2, <3>2 DEF TexturesIntact, Intact
    <3>4. ASSUME NEW f \in Handles, NEW d \in Handles,
                 NEW x \in Surfaces(ins'[f]), NEW y \in Surfaces(ins'[d]), <<f, x>> # <<d, y>>
          PROVE  TexturesOf(kind'[f], x) \cap TexturesOf(kind'[d], y) = {}
      BY <1>0, <2>2, <3>2, <3>4 DEF TexturesIntact
    <3> QED
      BY <3>1, <3>3, <3>4 DEF TexturesIntact, Intact, Surfaces
  <2> QED
    BY <2>4, <2>5, <2>6 DEF TexturesInv
<1>3. ASSUME NEW h \in Handles, NEW i \in Inputs, NEW o \in Outputs, GTDo(h, i, o)
      PROVE  TexturesInv'
  BY <1>0, <1>3, DoTextures
<1>4. ASSUME NEW h \in Handles, GTClose(h)
      PROVE  TexturesInv'
  BY <1>0, <1>4, CloseTextures
<1>5. CASE Start
  BY <1>0, <1>1, <1>5 DEF Start, RunInv
<1>6. CASE Terminate
  BY <1>1, <1>6 DEF Terminate
<1>7. CASE Restart
  <2>1. \A h \in Handles : ~Open(h)' /\ Surfaces(ins[h])' = {}
    BY <1>7, EmptySurfaces DEF Restart, Open, Surfaces
  <2> QED
    BY <1>7, <2>1, FreshTextures DEF Restart
<1>8. CASE UNCHANGED vars
  <2>1. SourcesInv'
    BY <1>0, <1>8 DEF vars, SourcesInv, Surfaces
  <2>2. CurrentInv'
    BY <1>0, <1>8 DEF vars, CurrentInv, Surfaces
  <2>3. TexturesIntact'
    <3>1. kind' = kind /\ ins' = ins /\ gl' = gl
      BY <1>8 DEF vars
    <3>2. gl'.textures["deint"][1] = Ref
      BY <1>0, <3>1 DEF TexturesIntact
    <3>3. ASSUME NEW f \in Handles, NEW x \in Surfaces(ins'[f])
          PROVE  \A t \in TexturesOf(kind'[f], x) : gl'.textures[t[1]][t[2]] = x.buf
      BY <1>0, <3>1 DEF TexturesIntact, Intact
    <3>4. ASSUME NEW f \in Handles, NEW d \in Handles,
                 NEW x \in Surfaces(ins'[f]), NEW y \in Surfaces(ins'[d]), <<f, x>> # <<d, y>>
          PROVE  TexturesOf(kind'[f], x) \cap TexturesOf(kind'[d], y) = {}
      BY <1>0, <3>1, <3>4 DEF TexturesIntact
    <3> QED
      BY <3>2, <3>3, <3>4 DEF TexturesIntact, Intact, Surfaces
  <2> QED
    BY <2>1, <2>2, <2>3 DEF TexturesInv
<1> QED
  BY <1>2, <1>3, <1>4, <1>5, <1>6, <1>7, <1>8 DEF Next

\* Textures are lost only while engines of two kinds, or two RGB to YUV
\* converters, are open together.  Nothing in the code keeps clients from that
\* (the run gt_together shows what comes of it); in a behaviour, or a part of
\* one from its start, in which they do not, no close or failed creation takes
\* a texture from a source that is still cached, no two sources share one, and
\* the reference texture of the deinterlacer survives.
THEOREM TexturesLostOnlyTogether == Spec /\ []Separate => []TexturesIntact
<1>1. Init => TexturesInv
  BY TexturesInit
<1>2. Separate /\ EngineInv /\ TexturesInv /\ [Next]_vars => TexturesInv'
  BY TexturesStep
<1>3. TexturesInv => TexturesIntact
  BY DEF TexturesInv
<1> QED
  BY <1>1, <1>2, <1>3, EnginesInvariant, PTL DEF Spec
=============================================================================
